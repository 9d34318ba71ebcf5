\* post_with jobs when a native drains the queue.
SPECIFICATION SafeSpec
CONSTANTS
  Workers = {w1}
  Main = main
  NoThread = none
  Kinds = {"with"}
  PluginCalls = {"native_self", "run_pending"}
  BacklogWarning = 2
  MaxPosts = 2
  MaxDepth = 2
INVARIANT NoJobThrownAway
