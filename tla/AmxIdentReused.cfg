\* Two scripts one after the other, at the same address.
SPECIFICATION Spec
CONSTANTS
  Addresses = {a1}
  NoAddress = none
  Watched = {1}
  Server = {}
  FirstRoom = 4
  MaxScripts = 2
  MaxEntries = 3
  MaxCalls = 1
INVARIANT IdentNamesOneScript
CHECK_DEADLOCK FALSE
