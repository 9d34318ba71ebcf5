\* Scripts of one to three functions, up to five calls deep, publics entered by
\* natives among them; walks record two callers.
SPECIFICATION Spec
CONSTANTS
  Sources <- SmallSources
  Files <- SomeFiles
  Half = 2
  MAX_DEPTH = 2
  Hea = 8
  Stp = 88
INVARIANTS LinesReadBack WalkIsCallChain BreakpointLands
CHECK_DEADLOCK FALSE
