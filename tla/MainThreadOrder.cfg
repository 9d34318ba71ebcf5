\* Posting order when the plugin's code drains the queue from inside a job.
SPECIFICATION SafeSpec
CONSTANTS
  Workers = {w1}
  Main = main
  NoThread = none
  Kinds = {"plain"}
  PluginCalls = {"run_pending"}
  BacklogWarning = 3
  MaxPosts = 3
  MaxDepth = 3
INVARIANT StartedInPostingOrder
