\* The plugin drains by itself too, natives included: drains inside drains.
SPECIFICATION SafeSpec
CONSTANTS
  Workers = {w1}
  Main = main
  NoThread = none
  Kinds = {"plain", "with", "other"}
  PluginCalls = {"post", "run_pending", "with_instance", "native", "native_self", "set_budget", "panic"}
  BacklogWarning = 2
  MaxPosts = 3
  MaxDepth = 4
INVARIANTS CountMirrorsQueue ExactlyOnePlace StartedOnce FlagsMatchStack LendsOnce
