SPECIFICATION Spec
CONSTANTS
  Names = {"Get", "Read", "Send"}
  Types = {"i32", "f32", "AmxString", "Ref<i32>"}
  Additions = {"none", "value", "list", "size"}
  Callbacks = {"OnDone"}
  Crate <- TwoNatives
  SizeEndsList = TRUE
  MaxArgs = 3
  MaxPieces = 3
  MaxEdits = 3
INVARIANTS FindingsAreTheDrift RefusedForCause
CHECK_DEADLOCK FALSE
