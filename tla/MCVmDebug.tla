----------------------------- MODULE MCVmDebug -----------------------------
(***************************************************************************)
(* Small scripts for VmDebug: counts of lines wrap at four.                *)
(***************************************************************************)
EXTENDS VmDebug

At(line, callee) == [line |-> line, calls |-> callee]
Function(file, body) == [file |-> file, body |-> body]
Main == <<"gamemodes", "main">>
Include == <<"include", "tools">>

\* A function that calls itself, in one file; three lines.
Recursive == [first_symbol |-> 1, functions |-> <<
  Function(Main, <<At(2, 0), At(3, 1), At(5, 0)>>)>>]

\* One line; a count that does not overflow and a symbol high up.
Small == [first_symbol |-> 90, functions |-> <<
  Function(Main, <<At(2, 0)>>)>>]

\* A file that goes on after the one it includes; six lines, two blocks.
Included == [first_symbol |-> 0, functions |-> <<
  Function(Main, <<At(1, 0), At(2, 2)>>),
  Function(Include, <<At(7, 3), At(8, 0)>>),
  Function(Main, <<At(6, 0), At(9, 1)>>)>>]

\* A file included twice; ten lines, three blocks.
Twice == [first_symbol |-> 3, functions |-> <<
  Function(Include, <<At(3, 0), At(4, 0)>>),
  Function(Main, <<At(4, 1), At(5, 3)>>),
  Function(Include, <<At(3, 0), At(4, 2), At(5, 0), At(6, 0), At(7, 0), At(8, 0)>>)>>]

\* Five lines: the count is 1.
Cut == [first_symbol |-> 1, functions |-> <<
  Function(Main, <<At(2, 0), At(3, 2)>>),
  Function(Include, <<At(2, 0), At(3, 0), At(4, 1)>>)>>]

SmallSources == {Recursive, Small, Included, Twice, Cut}

\* As in the table, from the root, without the directory, and unknown.
SomeFiles == {Main, <<"home">> \o Main, <<"tools">>, <<"other">>}

=============================================================================
