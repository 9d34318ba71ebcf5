SPECIFICATION Spec
CONSTANTS
  Names = {"Get", "Read", "Send"}
  Types = {"i32", "f32", "AmxString", "Ref<i32>"}
  Additions = {"none", "value", "list", "size"}
  Callbacks = {"OnDone"}
  Crate <- TwoNatives
  SizeEndsList = FALSE
  MaxArgs = 3
  MaxPieces = 3
  MaxEdits = 3
INVARIANTS FindingsAreTheDrift
CHECK_DEADLOCK FALSE
