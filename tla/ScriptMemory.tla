---------------------------- MODULE ScriptMemory ----------------------------
(***************************************************************************)
(* The data of one script as natives and calls into Pawn share it          *)
(* (crates/samp-sdk/src/amx.rs Allocator, cell/string.rs, cell/buffer.rs,  *)
(* call.rs, macros.rs).  Globals lie below hlw, the heap from hlw to hea,  *)
(* the stack from stk to stp.  The plugin opens Allocator scopes, copies   *)
(* strings into the heap for the publics it calls, and reads and fills the *)
(* strings and arrays it is passed, while those publics call natives that  *)
(* do the same.                                                            *)
(*                                                                         *)
(* Addresses are in bytes and cells of four bytes, most significant first. *)
(* A sequence of pushes that fails half way is in EventDispatch; here the  *)
(* pushes of a call are one step with it.                                  *)
(***************************************************************************)
EXTENDS Integers, Sequences, FiniteSets

CONSTANTS
  Hlw, Stp,    \* where the heap begins and the stack ends, in bytes
  Margin,      \* STKMARGIN, what amx_Allot and amx_Push leave free
  Texts,       \* the strings natives have to pass, as encoded bytes
  Literals,    \* what the script writes into its arrays, as cells
  Addresses,   \* what the script passes for the address of a string
  MaxDepth,    \* bound of the model: calls under way
  MaxScopes,   \* bound of the model: scopes open in all natives
  MaxBlocks    \* bound of the model: blocks they hold

ASSUME ScriptMemoryAssumption ==
  /\ Hlw \in Nat /\ Stp \in Nat /\ Margin \in Nat
  /\ Hlw % 4 = 0 /\ Stp % 4 = 0 /\ Margin % 4 = 0 /\ 0 < Hlw /\ Hlw <= Stp
  /\ Texts \subseteq Seq(1 .. 255)
  /\ Literals \subseteq Seq(Seq(0 .. 255))
  /\ Addresses \subseteq Int

VARIABLES
  hea, stk,   \* AMX.hea, AMX.stk
  memory,     \* the cells of the data segment
  stack       \* the calls under way, the last is running

vars == <<hea, stk, memory, stack>>

Top == stack[Len(stack)]
WithTop(frame) == [stack EXCEPT ![Len(stack)] = frame]

-----------------------------------------------------------------------------
(* Cells and strings.                                                      *)

CellAt == 0 .. Stp \div 4 - 1
OneByte(byte) == <<0, 0, 0, byte>>
NUL == OneByte(0)

Cells(mem, address, n) == [i \in 1 .. n |-> mem[address \div 4 + i - 1]]
Overwritten(address, cells) ==
  [c \in CellAt |-> LET i == c - address \div 4 + 1
                    IN IF i \in 1 .. Len(cells) THEN cells[i] ELSE memory[c]]

\* One byte to a cell, and the terminator.
Encoded(text) == [i \in 1 .. Len(text) + 1 |-> OneByte(IF i <= Len(text) THEN text[i] ELSE 0)]

\* The first of the positions in 1 .. n that end it, or n + 1.
FirstAt(n, ends) == CHOOSE i \in ends \cup {n + 1} : \A j \in ends : i <= j

ByteOf(cells, i) == cells[((i - 1) \div 4) + 1][((i - 1) % 4) + 1]

\* Mutant: a signed comparison, by which a cell that begins with 0x80 or more is small.
IsPackedSigned(cell) == cell[1] \in 1 .. 127

\* The comparison with MAX_UNPACKED is of unsigned values.
IsPacked(cell) == cell[1] # 0

NoEnd == -1

\* Bytes before the terminator when packed, cells before it when not.
BoundedStrlen(cells) ==
  LET n == Len(cells)
      byte == FirstAt(4 * n, {i \in 1 .. 4 * n : ByteOf(cells, i) = 0})
      cell == FirstAt(n, {i \in 1 .. n : cells[i] = NUL})
  IN IF n = 0 THEN NoEnd
     ELSE IF IsPacked(cells[1]) THEN (IF byte > 4 * n THEN NoEnd ELSE byte - 1)
     ELSE IF cell > n THEN NoEnd ELSE cell - 1

\* A packed string ends at its terminator too, an unpacked one only at len.
ToBytes(cells, len) ==
  IF cells = <<>> THEN <<>>
  ELSE IF IsPacked(cells[1])
  THEN LET end == FirstAt(4 * Len(cells), {i \in 1 .. 4 * Len(cells) : ByteOf(cells, i) = 0}) - 1
       IN [i \in 1 .. IF end < len THEN end ELSE len |-> ByteOf(cells, i)]
  ELSE [i \in 1 .. IF len < Len(cells) THEN len ELSE Len(cells) |-> cells[i][4]]

\* What the string at an address says, by the definition of Pawn: bytes up to
\* the first zero where the first cell has its high byte set, cells up to the
\* first zero elsewhere.
PawnText(cells) ==
  LET packed == cells[1][1] # 0
      at(i) == IF packed THEN ByteOf(cells, i) ELSE cells[i][4]
      ends(i) == IF packed THEN at(i) = 0 ELSE cells[i] = NUL
      limit == IF packed THEN 4 * Len(cells) ELSE Len(cells)
  IN [i \in 1 .. (CHOOSE n \in 0 .. limit : (n < limit => ends(n + 1)) /\ \A j \in 1 .. n : ~ends(j)) |-> at(i)]

-----------------------------------------------------------------------------
(* Addresses.                                                              *)

\* amx_GetAddr, and get_ref's own check of the alignment.
GetRef(address) ==
  /\ address \in 0 .. Stp - 1
  /\ ~(hea <= address /\ address < stk)
  /\ address % 4 = 0

\* UnsizedBuffer: the cells from here to the top of the stack.
MaxCells(address) == (Stp - address) \div 4

IntoSizedBuffer(address, len) == IF len < MaxCells(address) THEN len ELSE MaxCells(address)

-----------------------------------------------------------------------------
(* Frames.  A native has one argument: a string, an array with its size, or*)
(* none (the plugin's own callbacks).                                      *)

NoArgument == [type |-> "none"]
StringAt(address, len) ==
  [type |-> "string", address |-> address, len |-> len, cells |-> IntoSizedBuffer(address, len + 1),
   decoded |-> <<>>,  \* the text, once it has been looked at
   said |-> PawnText(Cells(memory, address, MaxCells(address))),  \* history: what the script passed
   untouched |-> TRUE]                                            \* history: and nobody has written there
ArrayAt(array) ==
  [type |-> "array", address |-> array.address, cells |-> IntoSizedBuffer(array.address, array.cells)]

NativeFrame(argument) == [fn |-> "native", argument |-> argument, scopes |-> <<>>, stk |-> stk]

\* arrays: what the public can reach by name, with its true size; stk and hea:
\* what they are again when it returns.
PublicFrame(arrays) == [fn |-> "public", arrays |-> arrays, stk |-> stk, hea |-> hea]

Globals == [address |-> 0, cells |-> Hlw \div 4]

\* What earlier calls left on the heap and the stack.
Leftover == OneByte(1)

Init ==
  /\ hea = Hlw /\ stk = Stp
  /\ memory = [c \in CellAt |-> IF 4 * c < Hlw THEN NUL ELSE Leftover]
  /\ stack = <<NativeFrame(NoArgument)>>

Scopes(frame) == IF frame.fn = "native" THEN frame.scopes ELSE <<>>
Blocks(frame) == UNION {Scopes(frame)[s].blocks : s \in DOMAIN Scopes(frame)}
AllBlocks == UNION {Blocks(stack[d]) : d \in DOMAIN stack}
OpenScopes == UNION {{d} \X DOMAIN Scopes(stack[d]) : d \in DOMAIN stack}

LastScope == Top.scopes[Len(Top.scopes)]

-----------------------------------------------------------------------------
(* Allocator.                                                              *)

OpenScope ==
  /\ Top.fn = "native"
  /\ Cardinality(OpenScopes) < MaxScopes
  /\ stack' = WithTop([Top EXCEPT !.scopes = Append(@, [hea |-> hea, stk |-> stk, blocks |-> {}])])
  /\ UNCHANGED <<hea, stk, memory>>

\* External: amx_Allot.
Room(cells) == hea + 4 * cells + Margin <= stk

TextCells(text) == Len(text) + 1

\* History: somebody writes to an array of n cells that he was given.
Overlap(b, address, n) == b.address < address + 4 * n /\ address < b.address + 4 * b.cells
AfterWrite(b, address, n) == [b EXCEPT !.untouched = @ /\ ~Overlap(b, address, n)]
ScopeAfterWrite(scope, address, n) ==
  [scope EXCEPT !.blocks = {AfterWrite(b, address, n) : b \in scope.blocks}]
Touched(address, n) ==
  [d \in DOMAIN stack |->
     IF stack[d].fn = "public" THEN stack[d]
     ELSE [stack[d] EXCEPT
       !.argument = IF @.type = "string" /\ @.decoded = <<>> THEN AfterWrite(@, address, n) ELSE @,
       !.scopes = [s \in DOMAIN @ |-> ScopeAfterWrite(@[s], address, n)]]]

\* untouched: nobody has written to the block since it was filled.
AllotString(text) ==
  /\ Top.fn = "native" /\ Top.scopes # <<>> /\ Cardinality(AllBlocks) < MaxBlocks
  /\ Room(TextCells(text))
  /\ hea' = hea + 4 * TextCells(text)
  /\ memory' = Overwritten(hea, Encoded(text))
  /\ stack' = [Touched(hea, TextCells(text)) EXCEPT ![Len(stack)].scopes[Len(Top.scopes)].blocks =
       @ \cup {[address |-> hea, cells |-> TextCells(text), text |-> text, untouched |-> TRUE]}]
  /\ UNCHANGED stk

\* The cells hold whatever the heap held there before.
AllotBuffer(cells) ==
  /\ Top.fn = "native" /\ Top.scopes # <<>> /\ Cardinality(AllBlocks) < MaxBlocks
  /\ Room(cells)
  /\ hea' = hea + 4 * cells
  /\ stack' = [stack EXCEPT ![Len(stack)].scopes[Len(Top.scopes)].blocks =
       @ \cup {[address |-> hea, cells |-> cells, text |-> <<>>, untouched |-> FALSE]}]
  /\ UNCHANGED <<stk, memory>>

\* Mutant: a heap that has grown is left so.
ReleaseNothing(scope) == UNCHANGED <<hea, stk>>

\* release_scope
Release(scope) ==
  /\ hea' = IF hea > scope.hea THEN scope.hea ELSE hea
  /\ stk' = IF scope.stk <= Stp /\ stk < scope.stk THEN scope.stk ELSE stk

\* Scopes are dropped in the reverse order, which is Rust's own, unwinding included.
DropScope ==
  /\ Top.fn = "native" /\ Top.scopes # <<>>
  /\ Release(LastScope)
  /\ stack' = WithTop([Top EXCEPT !.scopes = SubSeq(@, 1, Len(@) - 1)])
  /\ UNCHANGED memory

-----------------------------------------------------------------------------
(* Calls.                                                                  *)

\* push for each argument, then exec; what amx_Exec keeps on the stack is one cell.
Exec(blocks) ==
  /\ Top.fn = "native"
  /\ Len(stack) < MaxDepth
  /\ hea + Margin <= stk - 4 * (Cardinality(blocks) + 1)
  /\ stk' = stk - 4 * (Cardinality(blocks) + 1)
  /\ stack' = Append(stack, PublicFrame({Globals} \cup {[address |-> b.address, cells |-> b.cells] : b \in blocks}))
  /\ UNCHANGED <<hea, memory>>

\* External: the public returns, or aborts; the stack is as it was before the
\* pushes and the public's own temporaries are off the heap.
PublicReturns ==
  /\ Top.fn = "public"
  /\ hea' = Top.hea /\ stk' = Top.stk
  /\ stack' = SubSeq(stack, 1, Len(stack) - 1)
  /\ UNCHANGED memory

\* A call of a native with what it was passed parsed; arguments that cannot be
\* are an error of the parser, and the native returns 0 at once.
CallNative(argument) ==
  /\ Len(stack) < MaxDepth
  /\ hea + Margin <= stk - 8
  /\ stk' = stk - 8
  /\ stack' = Append(stack, NativeFrame(argument))
  /\ UNCHANGED <<hea, memory>>

\* AmxString::from_raw
PassString(address) ==
  /\ Top.fn = "public"
  /\ GetRef(address)
  /\ LET len == BoundedStrlen(Cells(memory, address, MaxCells(address)))
     IN len # NoEnd /\ CallNative(StringAt(address, len))

\* UnsizedBuffer::from_raw, and sizeof for the size.
PassArray(array) ==
  /\ Top.fn = "public" /\ array \in Top.arrays
  /\ GetRef(array.address)
  /\ CallNative(ArrayAt(array))

NativeReturns ==
  /\ Top.fn = "native" /\ Len(stack) > 1
  /\ Top.scopes = <<>>
  /\ stk' = Top.stk
  /\ stack' = SubSeq(stack, 1, Len(stack) - 1)
  /\ UNCHANGED <<hea, memory>>

-----------------------------------------------------------------------------
(* Reading and writing.                                                    *)

\* Deref: decoded the first time, kept from then on.
Decode ==
  /\ Top.fn = "native" /\ Top.argument.type = "string"
  /\ Top.argument.decoded = <<>>
  /\ LET string == Top.argument
     IN stack' = WithTop([Top EXCEPT !.argument.decoded =
          <<ToBytes(Cells(memory, string.address, string.cells), string.len)>>])
  /\ UNCHANGED <<hea, stk, memory>>

\* Mutant: a string of the buffer's own length is let in, terminator and all.
FitsExactly(text, size) == Len(text) <= size

Fits(text, size) == Len(text) < size

\* write_str
WriteStr(text) ==
  /\ Top.fn = "native" /\ Top.argument.type = "array"
  /\ Fits(text, Top.argument.cells)
  /\ memory' = Overwritten(Top.argument.address, Encoded(text))
  /\ stack' = Touched(Top.argument.address, Top.argument.cells)
  /\ UNCHANGED <<hea, stk>>

\* External: the script fills an array of its own, or the beginning of one.
ScriptWrites(array, cells) ==
  /\ Top.fn = "public" /\ array \in Top.arrays /\ Len(cells) <= array.cells
  /\ memory' = Overwritten(array.address, cells)
  /\ stack' = Touched(array.address, Len(cells))
  /\ UNCHANGED <<hea, stk>>

\* External: a temporary of the script's on the heap, such as a cell passed by reference.
ScriptAllots ==
  /\ Top.fn = "public" /\ hea = Top.hea
  /\ Room(1)
  /\ hea' = hea + 4
  /\ stack' = WithTop([Top EXCEPT !.arrays = @ \cup {[address |-> hea, cells |-> 1]}])
  /\ UNCHANGED <<stk, memory>>

-----------------------------------------------------------------------------
Next ==
  \/ OpenScope \/ DropScope
  \/ \E text \in Texts : AllotString(text) \/ WriteStr(text)
  \/ AllotBuffer(2)
  \/ Top.fn = "native" /\ \E blocks \in SUBSET UNION {Top.scopes[s].blocks : s \in DOMAIN Top.scopes} : Exec(blocks)
  \/ PublicReturns \/ NativeReturns
  \/ \E address \in Addresses : PassString(address)
  \/ Top.fn = "public" /\ \E array \in Top.arrays :
       PassArray(array) \/ \E cells \in Literals : ScriptWrites(array, cells)
  \/ Decode
  \/ ScriptAllots

Spec == Init /\ [][Next]_vars

-----------------------------------------------------------------------------
(* Properties.                                                             *)

\* The registers are cells in the order the machine needs, the memory keeps its
\* extent, and what a string or an array may touch ends at the top of the stack.
TypeOK ==
  /\ hea \in Hlw .. stk /\ stk \in hea .. Stp
  /\ hea % 4 = 0 /\ stk % 4 = 0
  /\ DOMAIN memory = CellAt
  /\ \A c \in CellAt : Len(memory[c]) = 4 /\ \A i \in 1 .. 4 : memory[c][i] \in 0 .. 255
  /\ Len(stack) \in 1 .. MaxDepth
  /\ \A d \in DOMAIN stack : stack[d].fn = IF d % 2 = 1 THEN "native" ELSE "public"
  /\ \A d \in DOMAIN stack : stack[d].fn = "native" /\ stack[d].argument.type # "none" =>
       LET argument == stack[d].argument
       IN argument.address % 4 = 0 /\ argument.address + 4 * argument.cells <= Stp

\* A string copied into the heap for a call (amx.rs Allocator::allot_string) is
\* there, whole and terminated, until its scope is dropped: nothing that natives
\* and publics do underneath, with scopes of their own, takes its cells for
\* something else, and a native that fills the array before it keeps to it.
BlocksKeepText ==
  \A b \in AllBlocks :
    /\ b.address >= Hlw /\ b.address + 4 * b.cells <= hea
    /\ \A o \in AllBlocks : o.address < b.address => o.address + 4 * o.cells <= b.address
    /\ b.untouched => Cells(memory, b.address, Len(b.text) + 1) = Encoded(b.text)

\* When a callback of the plugin has dropped its scopes the heap is as low and
\* the stack as high as in the beginning (amx.rs:971 "Rewinds heap + stack to
\* the captured scope"), however the calls in between were nested.
NothingLeaks ==
  Len(stack) = 1 /\ Top.scopes = <<>> => hea = Hlw /\ stk = Stp

\* The text a native gets is the string the script passed (string.rs:8 "the SDK
\* detects it automatically"), packed or not, from wherever it lies, unless its
\* cells were written to before the native looked.
TextIsTheString ==
  \A d \in DOMAIN stack :
    LET frame == stack[d]
    IN frame.fn = "native" /\ frame.argument.type = "string"
         /\ frame.argument.decoded # <<>> /\ frame.argument.untouched
       => frame.argument.decoded = <<frame.argument.said>>

=============================================================================
