\* Every file operation may fail and the server dies anywhere, twice; each new
\* process may have other settings.
SPECIFICATION Spec
CONSTANTS
  MaxLines = 5
  MaxRestarts = 2
  LineBytes <- LineLengths
  DefaultBytes = 2
  Sizes = {0, 2}
  Keeps = {1, 2}
  Unset = unset
  Fails = {"mkdir", "remove", "rename", "create", "copy", "reopen", "write"}
INVARIANT TypeOK
CHECK_DEADLOCK FALSE
