SPECIFICATION Spec
CONSTANTS
  Connect = "connect"
  Spawn = "spawn"
  Publics = {"connect", "spawn", "helper"}
  HandlersOf <- Handlers
  ArgCounts = {0, 2}
  StackCells = 8
  FailsAfter = {0}
  HandlerCalls = {0}
  MaxDepth = 3
INVARIANTS
  TypeOK
  MarksMatchDispatches
  HandlersOnceInOrder
  ArgumentsIntact
PROPERTY
  CallLeavesNoTrace
