--------------------------- MODULE ReliableStream ---------------------------
(***************************************************************************)
(* What the sequencer promises for one direction of a connection: the      *)
(* reliable commands, numbered in the order the sender queued them, reach  *)
(* the other side in that order, each exactly once, some of them together. *)
(***************************************************************************)
EXTENDS Naturals, Sequences

VARIABLES sent,   \* how many commands the sender has queued
          got     \* the commands the receiver has handled, in order

Init == sent = 0 /\ got = <<>>

Send == sent' \in Nat /\ sent' > sent /\ UNCHANGED got

\* s is the run of the numbers that follow n.
Follows(s, n) == \A i \in 1 .. Len(s) : s[i] = n + i

Deliver ==
    /\ got' \in Seq(Nat)
    /\ Len(got) < Len(got')
    /\ Len(got') <= sent
    /\ Follows(got', 0)
    /\ UNCHANGED sent

Next == Send \/ Deliver

Spec == Init /\ [][Next]_<<sent, got>>
==============================================================================
