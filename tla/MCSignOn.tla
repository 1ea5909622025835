------------------------------ MODULE MCSignOn -------------------------------
(* What goes wrong in the behaviours that TLC checks.                      *)
EXTENDS SignOn

Times(losses, early, restarts, flushes) ==
    [losses |-> losses, early |-> early, restarts |-> restarts, flushes |-> flushes]

Together   == {Times(1, 1, 0, 0)}
OneOfAKind == {Times(2, 0, 0, 1), Times(0, 2, 0, 0), Times(0, 0, 1, 0)}
MCFailures == Together \cup OneOfAKind
==============================================================================
