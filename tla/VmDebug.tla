------------------------------ MODULE VmDebug ------------------------------
(***************************************************************************)
(* What a debugger is told about a script (crates/samp-sdk/src/debug       *)
(* parse.rs, query.rs, stack.rs; amx.rs data_ptr, read_cell, call_stack):  *)
(* the tables the compiler appended, read back and searched, and the chain *)
(* of frames walked while the script runs, calls itself, and is entered    *)
(* again by natives.                                                       *)
(*                                                                         *)
(* The compiler and the virtual machine are external.  A script is a       *)
(* sequence of functions, each of lines that do one thing: a BREAK, then   *)
(* the call of a function or of a native, or neither.  Code addresses      *)
(* count instructions; stack addresses are bytes, as in the source.        *)
(***************************************************************************)
EXTENDS Integers, Sequences, SequencesExt

CONSTANTS
  Sources,     \* the scripts, as they are compiled
  Files,       \* the names a debugger asks for, as sequences of components
  Half,        \* what a count of the format overflows at: i16::MAX + 1
  MAX_DEPTH,   \* the callers a walk records at most
  Hea, Stp     \* the end of the heap and of the stack

\* A source has functions, of at least a line each, that call each other; the
\* symbol table begins with an unsigned address.
IsSource(source) ==
  LET functions == source.functions
  IN /\ functions \in Seq({functions[f] : f \in DOMAIN functions})
     /\ \A f \in DOMAIN functions :
          /\ functions[f].body \in Seq([line : Nat \ {0}, calls : 0 .. Len(functions)])
          /\ functions[f].body # <<>>
     /\ source.first_symbol \in Nat

ASSUME VmDebugAssumption ==
  /\ \A source \in Sources : IsSource(source)
  /\ Half \in Nat \ {0} /\ MAX_DEPTH \in Nat
  /\ Hea \in Nat /\ Stp \in Nat /\ Hea % 4 = 0 /\ Stp % 4 = 0 /\ Hea < Stp

VARIABLES
  script,     \* external: the script that is debugged
  lines,      \* AmxDbg.lines, parsed from its debug block
  frm, stk,   \* AMX.frm, AMX.stk
  memory,     \* external: the cells of the data segment
  calls       \* external: the functions running, the last on top, and where

vars == <<script, lines, frm, stk, memory, calls>>

None == -1
CELL == 4
Top == calls[Len(calls)]

-----------------------------------------------------------------------------
(* External: the compiler.  A function is PROC, two instructions for each  *)
(* line, and RETN; HALT is at 0.  Lines are stored from 0, files where     *)
(* their code begins, functions with the code they cover.                  *)

CodeStart(functions) ==
  LET start[f \in 1 .. Len(functions) + 1] ==
        IF f = 1 THEN 1 ELSE start[f - 1] + 2 + 2 * Len(functions[f - 1].body)
  IN start

LineAt(start, i) == start + 1 + 2 * (i - 1)

Compile(source) ==
  LET functions == source.functions
      start == CodeStart(functions)
      begins(f) == f = 1 \/ functions[f].file # functions[f - 1].file
  IN [functions |-> functions,
      first_symbol |-> source.first_symbol,
      lines |-> FlattenSeq([f \in DOMAIN functions |-> [i \in DOMAIN functions[f].body |->
                  [address |-> LineAt(start[f], i), line |-> functions[f].body[i].line - 1]]]),
      files |-> FlattenSeq([f \in DOMAIN functions |->
                  IF begins(f) THEN <<[address |-> start[f], name |-> functions[f].file]>> ELSE <<>>]),
      symbols |-> [f \in DOMAIN functions |-> [codestart |-> start[f], codeend |-> start[f + 1], name |-> f]]]

Scripts == {Compile(source) : source \in Sources}

Functions == script.functions
files == script.files
symbols == script.symbols
LineTable == script.lines

BreakAt(f, i) == LineAt(symbols[f].codestart, i)

\* A call, or a SYSREQ, goes on behind itself: where the next line begins.
ReturnTo(f, i) == BreakAt(f, i + 1)

\* Eight bytes at a time, what follows the file table: the lines, and then the
\* symbols, of which the first four bytes are an address too.
AfterFiles(s) == s.lines \o <<[address |-> s.first_symbol, line |-> 0], [address |-> 0, line |-> 0]>>

-----------------------------------------------------------------------------
(* parse.rs                                                                *)

\* Mutant: the count is positive at its lowest negative value.
OverflowPossibleLate(count) == count > Half

OverflowPossible(count) == count > Half - 1

\* Blocks of 2 * Half entries while addresses ascend.
ReadLineTable(entries, count) ==
  LET max_lines == Len(entries)
      more(n) == n > 0 /\ n < max_lines /\ entries[n + 1].address > entries[n].address
      min(n) == IF n < max_lines THEN n ELSE max_lines
      read[n \in 0 .. max_lines] ==
        IF OverflowPossible(count) /\ more(n) THEN read[min(n + 2 * Half)] ELSE n
  IN [i \in 1 .. read[min(count)] |-> [entries[i] EXCEPT !.line = @ + 1]]

-----------------------------------------------------------------------------
(* query.rs                                                                *)

\* take_while, then last.
LastUpTo(table, address) ==
  LET n == CHOOSE n \in 0 .. Len(table) :
             /\ \A i \in 1 .. n : table[i].address <= address
             /\ n < Len(table) => table[n + 1].address > address
  IN IF n = 0 THEN <<>> ELSE <<table[n]>>

LookupLine(address) == [i \in DOMAIN LastUpTo(lines, address) |-> LastUpTo(lines, address)[i].line]
LookupFile(address) == [i \in DOMAIN LastUpTo(files, address) |-> LastUpTo(files, address)[i].name]

\* Iterator::find, of the entries that pass the test: one or none.
FindFirst(table, hits) == IF hits = {} THEN <<>> ELSE <<table[CHOOSE i \in hits : \A j \in hits : i <= j]>>

LookupFunction(address) ==
  FindFirst(symbols, {i \in DOMAIN symbols : symbols[i].codestart <= address /\ symbols[i].codeend > address})

\* The lowest address of a line in the function, or its own.
FunctionAddress(name) ==
  LET function == FindFirst(symbols, {i \in DOMAIN symbols : symbols[i].name = name})[1]
      inside == {lines[i].address : i \in DOMAIN lines} \cap function.codestart .. function.codeend - 1
  IN IF inside = {} THEN function.codestart ELSE CHOOSE a \in inside : \A b \in inside : a <= b

\* One name is the end of the other, component by component.
FileNameMatches(tbl, want) == IsSuffix(tbl, want) \/ IsSuffix(want, tbl)

\* Mutant: a file goes on to the end of the code.
InFileOpen(i, l) == l.address >= files[i].address

\* An instance of a file ends where the next entry begins.
InFile(i, l) == l.address >= files[i].address /\ (i < Len(files) => l.address < files[i + 1].address)

\* The first instance that has a line as far down, and its first such line.
LineToAddress(line, want) ==
  LET found(i) == FindFirst(lines, {n \in DOMAIN lines : InFile(i, lines[n]) /\ lines[n].line >= line})
      instances == {i \in DOMAIN files : FileNameMatches(files[i].name, want) /\ found(i) # <<>>}
  IN IF instances = {} THEN None
     ELSE found(CHOOSE i \in instances : \A j \in instances : i <= j)[1].address

-----------------------------------------------------------------------------
(* amx.rs and stack.rs                                                     *)

\* data_ptr, which has hea and stk as they are in the hook.
DataPtr(address) == ~(Hea <= address /\ address < stk) /\ 0 <= address /\ address < Stp

ReadCell(address) == IF DataPtr(address) THEN <<memory[address \div CELL]>> ELSE <<>>

\* Mutant: the 0 that amx_Exec pushed is taken for a return address.
ReturnsThrough(ret) == ret >= 0

Returns(ret) == ret > 0

\* The walk after n callers at most: the frames, and whether it goes on.
Walk(top_cip) ==
  LET walk[n \in 0 .. MAX_DEPTH] ==
        IF n = 0 THEN [frames |-> <<[cip |-> top_cip, frm |-> frm]>>, frm |-> frm, on |-> TRUE]
        ELSE LET w == walk[n - 1]
                 ret == ReadCell(w.frm + CELL)
                 prev == ReadCell(w.frm)
             IN IF w.on /\ 0 < w.frm /\ w.frm + CELL < Stp /\ ret # <<>> /\ prev # <<>> /\ Returns(ret[1])
                THEN [frames |-> Append(w.frames, [cip |-> ret[1], frm |-> prev[1]]),
                      frm |-> prev[1], on |-> w.frm < prev[1] /\ prev[1] < Stp]
                ELSE [w EXCEPT !.on = FALSE]
  IN walk[MAX_DEPTH].frames

\* effective_address of a symbol that is local, for the first local of a function.
LocalOf(frame) == frame + (-CELL)

-----------------------------------------------------------------------------
(* External: the virtual machine.                                          *)

Init ==
  /\ script \in Scripts
  /\ lines = ReadLineTable(AfterFiles(script), Len(LineTable) % (2 * Half))
  /\ frm = 0 /\ stk = Stp
  /\ memory = [c \in 0 .. Stp \div CELL - 1 |-> 0]
  /\ calls = <<>>

\* What each call has on the stack, from the top down: its local, the caller's
\* FRM, the return address, the size of its arguments.
FrameSize == 4 * CELL

\* CALL, or amx_Exec with 0 to return to, then PROC and a local of the
\* function's; the machine refuses where the stack would meet the heap.
Enter(f, ret) ==
  /\ Hea + FrameSize <= stk
  /\ stk' = stk - FrameSize
  /\ frm' = stk' + CELL
  /\ memory' = [memory EXCEPT
       ![stk' \div CELL] = 100 + Len(calls),
       ![stk' \div CELL + 1] = frm,
       ![stk' \div CELL + 2] = ret,
       ![stk' \div CELL + 3] = 0]
  /\ calls' = Append(calls, [fn |-> f, line |-> 1, native |-> FALSE, ret |-> ret, stk |-> stk, frm |-> frm])
  /\ UNCHANGED <<script, lines>>

\* amx_Exec, by the server or by a native that is running.
Exec(f) ==
  /\ calls # <<>> => Top.native
  /\ Enter(f, 0)

AtLine == calls # <<>> /\ ~Top.native /\ Top.line <= Len(Functions[Top.fn].body)
Statement == Functions[Top.fn].body[Top.line]

Call ==
  /\ AtLine /\ Statement.calls # 0
  /\ Enter(Statement.calls, ReturnTo(Top.fn, Top.line))

OnTop(frame) ==
  /\ calls' = [calls EXCEPT ![Len(calls)] = frame]
  /\ UNCHANGED <<script, lines, frm, stk, memory>>

CallNative == AtLine /\ Statement.calls = 0 /\ OnTop([Top EXCEPT !.native = TRUE])
NativeReturns == calls # <<>> /\ Top.native /\ OnTop([Top EXCEPT !.native = FALSE, !.line = @ + 1])
NextLine == AtLine /\ Statement.calls = 0 /\ OnTop([Top EXCEPT !.line = @ + 1])

\* RETN, from the end of a function or from a return before it.
Retn ==
  /\ calls # <<>> /\ ~Top.native
  /\ stk' = Top.stk /\ frm' = Top.frm
  /\ calls' = LET below == SubSeq(calls, 1, Len(calls) - 1)
              IN IF Top.ret = 0 THEN below ELSE [below EXCEPT ![Len(below)].line = @ + 1]
  /\ UNCHANGED <<script, lines, memory>>

Next ==
  \/ \E f \in DOMAIN Functions : Exec(f)
  \/ Call \/ CallNative \/ NativeReturns \/ NextLine
  \/ Retn

Spec == Init /\ [][Next]_vars

-----------------------------------------------------------------------------
(* Properties.                                                             *)

\* The lines parsed are the lines written, for a table of any length whose count
\* shows that it overflowed: below i16::MAX, or negative as an i16, unless the
\* first symbol passes for another line (parse.rs:203 "can OVERFLOW in a large
\* gamemode").  A table of 65536 lines and some, up to 32767, is cut to those.
CountTells ==
  LET n == Len(LineTable)
  IN n < Half \/ (n % (2 * Half) >= Half /\ script.first_symbol <= LineTable[n].address)
LinesReadBack ==
  CountTells => lines = [i \in DOMAIN LineTable |-> [LineTable[i] EXCEPT !.line = @ + 1]]

\* In a debug hook the walk gives the functions that are running, the innermost
\* first, each with its file and its own frame, down to the public the server or
\* a native entered and no further, or as many as it may record: whatever else
\* lies below on the stack, and whatever was left in the cells that are free.
Entered == CHOOSE d \in DOMAIN calls : calls[d].ret = 0 /\ \A e \in d + 1 .. Len(calls) : calls[e].ret # 0
WalkIsCallChain ==
  AtLine =>
    LET frames == Walk(BreakAt(Top.fn, Top.line))
        running == Reverse(SubSeq(calls, Entered, Len(calls)))
    IN /\ Len(frames) = IF Len(running) <= MAX_DEPTH THEN Len(running) ELSE MAX_DEPTH + 1
       /\ \A n \in DOMAIN frames :
            /\ LookupFunction(frames[n].cip) = <<symbols[running[n].fn]>>
            /\ LookupFile(frames[n].cip) = <<Functions[running[n].fn].file>>
            /\ ReadCell(LocalOf(frames[n].frm)) = <<100 + Len(calls) - n>>

\* A breakpoint asked for by file and line stops in that file, at the line or
\* the nearest below it that can be stopped at (where lines ascend with the code),
\* and is refused only if there is none (query.rs:96-98), however often other
\* files come in between; one asked for by function stops at its first line.
Ascending(named) ==
  \A f, g \in named : \A i \in DOMAIN Functions[f].body, j \in DOMAIN Functions[g].body :
    f < g \/ (f = g /\ i < j) => Functions[f].body[i].line <= Functions[g].body[j].line
BreakpointLands ==
  CountTells /\ calls = <<>> =>
    /\ \A want \in Files, line \in 1 .. 9 :
         LET named == {f \in DOMAIN Functions : FileNameMatches(Functions[f].file, want)}
             below == {l \in UNION {ToSet(Functions[f].body) : f \in named} : l.line >= line}
             address == LineToAddress(line, want)
         IN IF below = {} THEN address = None
            ELSE /\ \A file \in ToSet(LookupFile(address)) : FileNameMatches(file, want)
                 /\ Ascending(named) => \A l \in below : LookupLine(address)[1] <= l.line
                 /\ LookupLine(address)[1] >= line
    /\ \A f \in DOMAIN Functions : FunctionAddress(f) = BreakAt(f, 1)

\* docs/vm-debugging.md:260 of the callers in a walk: "the `cip` is the saved
\* return address, which maps to the line of the call site".
CallSiteLine ==
  AtLine =>
    LET frames == Walk(BreakAt(Top.fn, Top.line))
        running == Reverse(SubSeq(calls, Entered, Len(calls)))
    IN \A n \in 2 .. Len(frames) :
         LookupLine(frames[n].cip) = <<Functions[running[n].fn].body[running[n].line].line>>

=============================================================================
