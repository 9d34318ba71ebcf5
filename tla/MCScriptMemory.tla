--------------------------- MODULE MCScriptMemory ---------------------------
(***************************************************************************)
(* A small instance of ScriptMemory: two cells of globals, nine for the    *)
(* heap and the stack.                                                     *)
(***************************************************************************)
EXTENDS ScriptMemory

ShortTexts == {<<233>>}

\* A packed string, with a high first byte and something after its end.
ScriptLiterals == {<<<<233, 66, 67, 68>>, <<69, 0, 70, 0>>>>}

\* The globals, the heap, one that is no cell, one below all, the last cell of
\* the stack and one above it.
SomeAddresses == {0, 8, 2, -4, Stp - 4, Stp}

=============================================================================
