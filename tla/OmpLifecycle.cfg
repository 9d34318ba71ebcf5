\* SA-MP and open.mp servers that reuse addresses, load a script twice, call
\* natives early, and plugins whose on_amx_load panics; on open.mp with a tick or
\* without, and components freed in any order.
SPECIFICATION OmpSpec
CONSTANTS
  Addresses = {a1, a2}
  NoAddress = none
  Watched = {1, 3}
  Server = {"second_load", "unseen_native", "panic"}
  FirstRoom = 4
  MaxScripts = 3
  MaxEntries = 2
  MaxCalls = 2
INVARIANTS TypeOK LoadedIsFound TablesAreOwn NoScriptForgotten NothingDangles DroppedOnce TickIsArmed
CHECK_DEADLOCK FALSE
