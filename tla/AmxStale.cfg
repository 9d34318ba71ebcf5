\* One script, unloaded while the plugin's on_amx_unload calls into it.
SPECIFICATION Spec
CONSTANTS
  Addresses = {a1}
  NoAddress = none
  Watched = {1}
  Server = {}
  FirstRoom = 4
  MaxScripts = 1
  MaxEntries = 3
  MaxCalls = 2
INVARIANT UnloadedIsGone
CHECK_DEADLOCK FALSE
