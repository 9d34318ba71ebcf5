\* Only the reopening of the active file may fail, in one process.
SPECIFICATION Spec
CONSTANTS
  MaxLines = 5
  MaxRestarts = 0
  LineBytes <- LineLengths
  DefaultBytes = 2
  Sizes = {0, 2}
  Keeps = {2}
  Unset = unset
  Fails = {"reopen"}
INVARIANT MostRecentStay
CHECK_DEADLOCK FALSE
