\* Scripts unloaded and loaded while a native of another one runs.
SPECIFICATION Spec
CONSTANTS
  Addresses = {a1, a2, a3}
  NoAddress = none
  Watched = {1}
  Server = {}
  FirstRoom = 4
  MaxScripts = 3
  MaxEntries = 3
  MaxCalls = 2
INVARIANT RefStaysOnScript
CHECK_DEADLOCK FALSE
