------------------------------ MODULE MCLogFile ------------------------------
(***************************************************************************)
(* A small instance of LogFile: a file takes two short lines or one long   *)
(* one, so that rotations come after one line and after two.               *)
(***************************************************************************)
EXTENDS LogFile

LineLengths == [l \in 1 .. MaxLines |-> IF l = 2 THEN 2 ELSE 1]

=============================================================================
