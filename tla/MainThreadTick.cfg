\* Only the tick drains; the refinement and the liveness of the queue.
SPECIFICATION Spec
CONSTANTS
  Workers = {w1}
  Main = main
  NoThread = none
  Kinds = {"plain", "with_amx"}
  PluginCalls = {"post", "with_instance", "set_budget", "panic", "script"}
  BacklogWarning = 2
  MaxPosts = 3
  MaxDepth = 2
INVARIANTS TypeOK PostedWhileDrainingWaits
PROPERTIES ImplementsJobQueue EveryJobSettles
