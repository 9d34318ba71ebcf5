\* Archives are shifted in one process; a rename or the creation of a `.gz` may
\* fail.
SPECIFICATION Spec
CONSTANTS
  MaxLines = 5
  MaxRestarts = 0
  LineBytes <- LineLengths
  DefaultBytes = 2
  Sizes = {0, 2}
  Keeps = {2}
  Unset = unset
  Fails = {"rename", "create"}
INVARIANT MixedStaysInOrder
CHECK_DEADLOCK FALSE
