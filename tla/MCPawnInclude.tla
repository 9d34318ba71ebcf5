--------------------------- MODULE MCPawnInclude ---------------------------
(***************************************************************************)
(* A crate of two natives for PawnInclude, the second with an array and    *)
(* the size that goes with it.                                             *)
(***************************************************************************)
EXTENDS PawnInclude

Argument(type) == [type |-> type, addition |-> "none"]
TwoNatives ==
  <<[name |-> "Get", returns |-> "bool", varargs |-> FALSE, raw |-> FALSE,
     args |-> <<Argument("Ref<f32>")>>],
    [name |-> "Read", returns |-> "i32", varargs |-> FALSE, raw |-> FALSE,
     args |-> <<Argument("Buffer"), Argument("i32")>>]>>
=============================================================================
