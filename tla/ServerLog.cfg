\* Two workers and the main thread log; the plugin may be unloaded.
SPECIFICATION Spec
CONSTANTS
  Workers = {w1, w2}
  Main = main
  NoThread = none
  Limit = 1
  MaxLines = 3
INVARIANTS CauseBeforeEffect WrittenOnce DropsAccountedFor NothingWaitsUnmarked UnloadLeavesNothing
PROPERTIES EveryLineSettles DropsAnnounced
CHECK_DEADLOCK FALSE
