\* What the documentation says of the return addresses in a walk.
SPECIFICATION Spec
CONSTANTS
  Sources <- SmallSources
  Files <- SomeFiles
  Half = 2
  MAX_DEPTH = 2
  Hea = 8
  Stp = 88
INVARIANTS CallSiteLine
CHECK_DEADLOCK FALSE
