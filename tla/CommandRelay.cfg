SPECIFICATION Spec
CONSTANTS
  Streams <- MCStreams
  MayShrink = FALSE
INVARIANTS
  InStep
  ContextsAgree
PROPERTIES
  Transparent
