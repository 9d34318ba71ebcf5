--------------------------- MODULE MCEventDispatch ---------------------------
(***************************************************************************)
(* A small instance of EventDispatch: a callback with two handlers, one    *)
(* with one, and a public nobody watches.                                  *)
(***************************************************************************)
EXTENDS EventDispatch

CONSTANTS Connect, Spawn

Handlers ==
  [p \in Publics |-> IF p = Connect THEN 2 ELSE IF p = Spawn THEN 1 ELSE 0]

=============================================================================
