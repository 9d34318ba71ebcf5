------------------------- MODULE ScriptMemory_proofs -------------------------
(***************************************************************************)
(* Theorems on the data of a script, for memory of any size, any strings   *)
(* and arrays, any number of scopes and blocks and any depth of natives    *)
(* and publics: scopes give back what was taken, a string that is passed   *)
(* stays whole, and one that is received is the one that was passed.       *)
(***************************************************************************)
EXTENDS ScriptMemory, SequenceTheorems, FiniteSetTheorems, WellFoundedInduction, TLAPS

(***************************************************************************)
(* Sequences, of whatever elements.                                        *)
(***************************************************************************)

IsSeq(q) == q \in Seq({q[i] : i \in DOMAIN q})

LEMMA SeqIs ==
  ASSUME NEW q, IsSeq(q)
  PROVE  Len(q) \in Nat /\ DOMAIN q = 1 .. Len(q)
  BY DEF IsSeq

LEMMA FunctionIsSeq ==
  ASSUME NEW q, NEW n \in Nat, NEW r, DOMAIN r = 1 .. n, r = [i \in 1 .. n |-> r[i]]
  PROVE  IsSeq(r) /\ Len(r) = n
  <1>1. r \in [1 .. n -> {r[i] : i \in DOMAIN r}]
    OBVIOUS
  <1>2. QED
    BY <1>1 DEF IsSeq

LEMMA AppendIs ==
  ASSUME NEW q, IsSeq(q), NEW x
  PROVE  /\ IsSeq(Append(q, x)) /\ Len(Append(q, x)) = Len(q) + 1
         /\ \A i \in 1 .. Len(q) : Append(q, x)[i] = q[i]
         /\ Append(q, x)[Len(q) + 1] = x
  <1> DEFINE S == {q[i] : i \in DOMAIN q}
             r == Append(q, x)
  <1>1. q \in Seq(S \cup {x})
    BY DEF IsSeq
  <1>2. /\ r \in Seq(S \cup {x}) /\ Len(r) = Len(q) + 1
        /\ \A i \in 1 .. Len(q) : r[i] = q[i]
        /\ r[Len(q) + 1] = x
    BY <1>1, AppendProperties
  <1>3. IsSeq(r)
    <2>1. Len(q) + 1 \in Nat /\ DOMAIN r = 1 .. Len(q) + 1
      BY <1>1, <1>2
    <2> HIDE DEF r
    <2>2. r \in [1 .. Len(q) + 1 -> S \cup {x}]
      BY <1>2
    <2>3. r = [i \in 1 .. Len(q) + 1 |-> r[i]]
      BY <2>2
    <2>4. QED
      BY <2>1, <2>3, FunctionIsSeq
  <1>4. QED
    BY <1>2, <1>3

LEMMA ShorterIs ==
  ASSUME NEW q, IsSeq(q), NEW n \in Nat, n <= Len(q)
  PROVE  /\ IsSeq(SubSeq(q, 1, n)) /\ Len(SubSeq(q, 1, n)) = n
         /\ \A i \in 1 .. n : SubSeq(q, 1, n)[i] = q[i]
  <1> DEFINE r == SubSeq(q, 1, n)
  <1>1. DOMAIN r = 1 .. n /\ Len(r) = n /\ \A i \in 1 .. n : r[i] = q[i]
    BY SeqIs DEF IsSeq
  <1>2. r = [i \in 1 .. n |-> r[i]]
    BY <1>1 DEF IsSeq
  <1> HIDE DEF r
  <1>3. IsSeq(r)
    BY <1>1, <1>2, FunctionIsSeq
  <1>4. QED
    BY <1>1, <1>3 DEF r

LEMMA SetIs ==
  ASSUME NEW q, IsSeq(q), NEW n \in 1 .. Len(q), NEW x
  PROVE  /\ IsSeq([q EXCEPT ![n] = x]) /\ Len([q EXCEPT ![n] = x]) = Len(q)
         /\ [q EXCEPT ![n] = x][n] = x
         /\ \A i \in 1 .. Len(q) : i # n => [q EXCEPT ![n] = x][i] = q[i]
  <1> DEFINE r == [q EXCEPT ![n] = x]
  <1>1. /\ Len(q) \in Nat /\ DOMAIN r = 1 .. Len(q)
        /\ r[n] = x /\ \A i \in 1 .. Len(q) : i # n => r[i] = q[i]
    BY SeqIs
  <1>2. r = [i \in 1 .. Len(q) |-> r[i]]
    BY SeqIs
  <1> HIDE DEF r
  <1>3. IsSeq(r) /\ Len(r) = Len(q)
    BY <1>1, <1>2, FunctionIsSeq
  <1>4. QED
    BY <1>1, <1>3 DEF r

(***************************************************************************)
(* Addresses, and the first of some positions.                             *)
(***************************************************************************)

LEMMA Aligned ==
  ASSUME NEW a \in Nat, a % 4 = 0
  PROVE  a \div 4 \in Nat /\ a = 4 * (a \div 4)
  OBVIOUS

LEMMA AlignedAfter ==
  ASSUME NEW a \in Nat, a % 4 = 0, NEW n \in Nat
  PROVE  a + 4 * n \in Nat /\ (a + 4 * n) % 4 = 0
  OBVIOUS

LessThan == {pair \in Nat \X Nat : pair[1] < pair[2]}

LEMMA LeastNumber ==
  ASSUME NEW S \in SUBSET Nat, S # {}
  PROVE  \E i \in S : \A j \in S : i <= j
  <1>1. OpToRel(<, Nat) = LessThan
    BY DEF OpToRel, LessThan
  <1>2. IsWellFoundedOn(LessThan, Nat)
    BY <1>1, NatLessThanWellFounded
  <1>3. PICK i \in S : \A j \in S : ~(<<j, i>> \in LessThan)
    BY <1>2, WFMin
  <1>4. ASSUME NEW j \in S
        PROVE  i <= j
    <2>1. <<j, i>> \notin LessThan /\ <<j, i>> \in Nat \X Nat /\ i \in Nat /\ j \in Nat
      BY <1>3
    <2>2. ~(j < i)
      BY <2>1 DEF LessThan
    <2>3. QED
      BY <2>1, <2>2
  <1>5. QED
    BY <1>4

\* FirstAt is the first end, and the only position before which there is none.
LEMMA FirstAtIs ==
  ASSUME NEW n \in Nat, NEW ends \in SUBSET (1 .. n)
  PROVE  /\ FirstAt(n, ends) \in ends \cup {n + 1}
         /\ \A j \in ends : FirstAt(n, ends) <= j
         /\ \A i \in ends : (\A j \in ends : i <= j) => i = FirstAt(n, ends)
  <1> DEFINE P(i) == i \in ends \cup {n + 1} /\ \A j \in ends : i <= j
  <1>1. \E i \in ends \cup {n + 1} : \A j \in ends : i <= j
    <2>1. CASE ends = {}
      BY <2>1
    <2>2. CASE ends # {}
      <3>1. ends \in SUBSET Nat
        OBVIOUS
      <3>2. QED
        BY <2>2, <3>1, LeastNumber
    <2>3. QED
      BY <2>1, <2>2
  <1>2. P(FirstAt(n, ends))
    BY <1>1 DEF FirstAt
  <1>3. \A i, j : P(i) /\ P(j) => i = j
    OBVIOUS
  <1> HIDE DEF P
  <1>4. QED
    BY <1>2, <1>3 DEF P

(***************************************************************************)
(* The invariant.  q is the stack, h the top of the heap, k that of the    *)
(* stack and m the memory.                                                 *)
(***************************************************************************)

CellAddress == {address \in 0 .. Stp : address % 4 = 0}
Heap == {address \in CellAddress : Hlw <= address}

Block == [address : Heap, cells : Nat, text : Seq(1 .. 255), untouched : BOOLEAN]
Blockset == {blocks \in SUBSET Block : IsFiniteSet(blocks)}
Scope == [hea : Heap, stk : Int, blocks : Blockset]
Array == [address : CellAddress, cells : Nat]
ArrayArgument == [type : {"array"}, address : CellAddress, cells : Nat]

IsString(argument) ==
  /\ argument.type = "string"
  /\ DOMAIN argument = {"type", "address", "len", "cells", "decoded", "said", "untouched"}
  /\ argument.address \in CellAddress /\ argument.cells \in Nat
  /\ argument.address + 4 * argument.cells <= Stp
  /\ argument.untouched \in BOOLEAN

IsNative(frame) ==
  /\ frame.fn = "native" /\ DOMAIN frame = {"fn", "argument", "scopes", "stk"}
  /\ frame.argument = NoArgument \/ frame.argument \in ArrayArgument \/ IsString(frame.argument)
  /\ frame.scopes \in Seq(Scope)
  /\ frame.stk \in Int /\ frame.stk <= Stp

IsPublic(frame) ==
  /\ frame \in [fn : {"public"}, arrays : SUBSET Array, stk : Int, hea : Heap]
  /\ frame.stk <= Stp

\* What the registers and the frames are.
Shape(q, h, k) ==
  /\ h \in Heap /\ k \in Int /\ k <= Stp
  /\ IsSeq(q) /\ Len(q) >= 1
  /\ \A d \in 1 .. Len(q) : IsNative(q[d]) \/ IsPublic(q[d])

\* The callback of the plugin gave its first scope an empty heap and all of them
\* an empty stack, and each call it makes gives back the registers it found.
Bottom(q, h, k) ==
  LET scopes == q[1].scopes
      top == IF Len(q) = 1 THEN h ELSE q[2].hea
  IN /\ q[1].fn = "native" /\ (Len(q) > 1 => q[2].fn = "public")
     /\ (IF Len(q) = 1 THEN k ELSE q[2].stk) = Stp
     /\ (IF Len(scopes) = 0 THEN top ELSE scopes[1].hea) = Hlw
     /\ \A s \in 1 .. Len(scopes) :
          /\ scopes[s].stk = Stp /\ scopes[s].hea <= top
          /\ \A t \in 1 .. Len(scopes) : s < t => scopes[s].hea <= scopes[t].hea

End(b) == b.address + 4 * b.cells

\* The block b is in the scope s of the frame d.
BlockAt(q, d, s, b) ==
  d \in 1 .. Len(q) /\ q[d].fn = "native" /\ s \in 1 .. Len(q[d].scopes) /\ b \in q[d].scopes[s].blocks

\* The top of the heap goes back to a when the public e returns, where t is 0,
\* or when the scope t of the native e is dropped.
MarkAt(q, e, t, a) ==
  /\ e \in 1 .. Len(q)
  /\ \/ q[e].fn = "public" /\ t = 0 /\ a = q[e].hea
     \/ q[e].fn = "native" /\ t \in 1 .. Len(q[e].scopes) /\ a = q[e].scopes[t].hea

Before(d, s, e, t) == d < e \/ (d = e /\ s < t)

\* No block reaches over the top of the heap, nor over what a later public or
\* scope will set it back to; and no block reaches into another.
Placed(q, h) == \A d, s, b : BlockAt(q, d, s, b) => End(b) <= h
Under(q) ==
  \A d, s, b, e, t, a :
    BlockAt(q, d, s, b) /\ MarkAt(q, e, t, a) /\ Before(d, s, e, t) => End(b) <= a
Apart(q) ==
  \A d, s, b, e, t, o :
    BlockAt(q, d, s, b) /\ BlockAt(q, e, t, o) /\ o.address < b.address => End(o) <= b.address

\* A block that nobody has written to holds its text.
HoldsText(b, m) == b.untouched => b.cells = Len(b.text) + 1 /\ Cells(m, b.address, b.cells) = Encoded(b.text)
Whole(q, m) == \A d, s, b : BlockAt(q, d, s, b) => HoldsText(b, m)

BlocksInv(q, h, m) == Placed(q, h) /\ Under(q) /\ Apart(q) /\ Whole(q, m)

\* A string that nobody has written to says what it said, or has been read.
SaysIt(string, m) ==
  string.untouched =>
    IF string.decoded = <<>> THEN ToBytes(Cells(m, string.address, string.cells), string.len) = string.said
    ELSE string.decoded = <<string.said>>
Passes(q, m) ==
  \A d \in 1 .. Len(q) : q[d].fn = "native" /\ q[d].argument.type = "string" => SaysIt(q[d].argument, m)

IInv ==
  /\ Shape(stack, hea, stk) /\ Bottom(stack, hea, stk)
  /\ BlocksInv(stack, hea, memory) /\ Passes(stack, memory)

(***************************************************************************)
(* From one stack to the next.                                             *)
(***************************************************************************)

\* b is the block a after m has become m2.
Survives(a, b, m, m2) ==
  /\ b.address = a.address /\ b.cells = a.cells /\ b.text = a.text
  /\ b.untouched => a.untouched /\ Cells(m2, a.address, a.cells) = Cells(m, a.address, a.cells)
Kept(q, r, m, m2) ==
  \A d, s, b : BlockAt(r, d, s, b) => \E a : BlockAt(q, d, s, a) /\ Survives(a, b, m, m2)

\* The calls and the scopes are the same, whatever they hold.
Alike(q, r) ==
  /\ Len(r) = Len(q)
  /\ \A d \in 1 .. Len(q) :
       /\ r[d].fn = q[d].fn
       /\ q[d].fn = "public" => r[d].hea = q[d].hea /\ r[d].stk = q[d].stk
       /\ q[d].fn = "native" =>
            /\ Len(r[d].scopes) = Len(q[d].scopes)
            /\ \A s \in 1 .. Len(q[d].scopes) :
                 r[d].scopes[s].hea = q[d].scopes[s].hea /\ r[d].scopes[s].stk = q[d].scopes[s].stk

LEMMA FrameIs ==
  ASSUME NEW q, NEW h, NEW k, Shape(q, h, k), NEW d \in 1 .. Len(q)
  PROVE  /\ q[d].fn = "native" => IsNative(q[d])
         /\ q[d].fn = "public" => IsPublic(q[d])
         /\ q[d].fn \in {"native", "public"}
         /\ Len(q) \in Nat \ {0} /\ DOMAIN q = 1 .. Len(q)
  <1>1. Len(q) \in Nat /\ DOMAIN q = 1 .. Len(q)
    BY SeqIs DEF Shape
  <1>2. QED
    BY <1>1 DEF Shape, IsNative, IsPublic

LEMMA ScopeIs ==
  ASSUME NEW q, NEW h, NEW k, Shape(q, h, k), NEW d \in 1 .. Len(q), q[d].fn = "native"
  PROVE  /\ Len(q[d].scopes) \in Nat /\ q[d].scopes \in Seq(Scope)
         /\ \A s \in 1 .. Len(q[d].scopes) :
              q[d].scopes[s] \in Scope /\ q[d].scopes[s].hea \in Heap /\ q[d].scopes[s].stk \in Int
  <1>1. q[d].scopes \in Seq(Scope)
    BY FrameIs DEF IsNative
  <1>2. \A scope \in Scope : scope.hea \in Heap /\ scope.stk \in Int
    BY DEF Scope
  <1>3. QED
    BY <1>1, <1>2

LEMMA BlockIs ==
  ASSUME NEW q, NEW h, NEW k, Shape(q, h, k), NEW d, NEW s, NEW b, BlockAt(q, d, s, b)
  PROVE  /\ b \in Block /\ b.address \in Heap /\ b.cells \in Nat /\ End(b) \in Nat
         /\ d \in Nat /\ s \in Nat \ {0} /\ b.address \in Nat
  <1>1. d \in 1 .. Len(q) /\ Len(q) \in Nat /\ q[d].fn = "native"
    BY FrameIs DEF BlockAt
  <1>2. b \in Block /\ d \in Nat /\ s \in Nat \ {0}
    <2>1. s \in 1 .. Len(q[d].scopes) /\ b \in q[d].scopes[s].blocks
      BY DEF BlockAt
    <2>2. q[d].scopes[s] \in Scope /\ Len(q[d].scopes) \in Nat
      BY <1>1, <2>1, ScopeIs
    <2>3. q[d].scopes[s].blocks \in SUBSET Block
      BY <2>2 DEF Scope, Blockset
    <2>4. QED
      BY <1>1, <2>1, <2>2, <2>3
  <1>3. QED
    BY <1>2, ScriptMemoryAssumption DEF Block, Heap, CellAddress, End

LEMMA MarkIs ==
  ASSUME NEW q, NEW h, NEW k, Shape(q, h, k), NEW e, NEW t, NEW a, MarkAt(q, e, t, a)
  PROVE  a \in Heap /\ a \in Nat /\ e \in Nat /\ t \in Nat
  <1>1. e \in 1 .. Len(q) /\ Len(q) \in Nat
    BY FrameIs DEF MarkAt
  <1>2. a \in Heap /\ t \in Nat
    <2>1. CASE q[e].fn = "public"
      BY <1>1, <2>1, FrameIs DEF MarkAt, IsPublic
    <2>2. CASE q[e].fn = "native"
      BY <1>1, <2>2, ScopeIs DEF MarkAt
    <2>3. QED
      BY <2>1, <2>2 DEF MarkAt
  <1>3. QED
    BY <1>1, <1>2, ScriptMemoryAssumption DEF Heap, CellAddress

LEMMA AlikeMarks ==
  ASSUME NEW q, NEW r, NEW h, NEW k, Shape(q, h, k), Alike(q, r), NEW e, NEW t, NEW a, MarkAt(r, e, t, a)
  PROVE  MarkAt(q, e, t, a)
  <1>1. e \in 1 .. Len(q) /\ q[e].fn = r[e].fn
    BY DEF Alike, MarkAt
  <1>2. QED
    BY <1>1 DEF Alike, MarkAt

\* Where no block is new and what is left of the heap reaches over all of them.
LEMMA BlocksStay ==
  ASSUME NEW q, NEW r, NEW h, NEW h2, NEW k, NEW k2, NEW m, NEW m2,
         Shape(q, h, k), Shape(r, h2, k2), BlocksInv(q, h, m), Kept(q, r, m, m2),
         \A e, t, a : MarkAt(r, e, t, a) => MarkAt(q, e, t, a) \/ a = h,
         \A d, s, b : BlockAt(q, d, s, b) /\ (\E o : BlockAt(r, d, s, o)) => End(b) <= h2
  PROVE  BlocksInv(r, h2, m2)
  <1>1. ASSUME NEW d, NEW s, NEW b, BlockAt(r, d, s, b)
        PROVE  \E a : BlockAt(q, d, s, a) /\ Survives(a, b, m, m2) /\ End(a) = End(b)
    BY <1>1 DEF Kept, Survives, End
  <1>2. Placed(r, h2)
    BY <1>1 DEF Placed
  <1>3. ASSUME NEW d, NEW s, NEW b, BlockAt(r, d, s, b),
               NEW e, NEW t, NEW a, MarkAt(r, e, t, a), Before(d, s, e, t)
        PROVE  End(b) <= a
    <2>1. PICK o : BlockAt(q, d, s, o) /\ End(o) = End(b)
      BY <1>3, <1>1
    <2>2. CASE a = h
      BY <2>1, <2>2 DEF BlocksInv, Placed
    <2>3. CASE MarkAt(q, e, t, a)
      BY <2>1, <2>3, <1>3 DEF BlocksInv, Under
    <2>4. QED
      BY <1>3, <2>2, <2>3
  <1>4. ASSUME NEW d, NEW s, NEW b, BlockAt(r, d, s, b),
               NEW e, NEW t, NEW o, BlockAt(r, e, t, o), o.address < b.address
        PROVE  End(o) <= b.address
    <2>1. PICK a : BlockAt(q, d, s, a) /\ a.address = b.address
      BY <1>4, <1>1 DEF Survives
    <2>2. PICK c : BlockAt(q, e, t, c) /\ c.address = o.address /\ End(c) = End(o)
      BY <1>4, <1>1 DEF Survives
    <2>3. QED
      BY <1>4, <2>1, <2>2 DEF BlocksInv, Apart
  <1>5. ASSUME NEW d, NEW s, NEW b, BlockAt(r, d, s, b)
        PROVE  HoldsText(b, m2)
    <2>1. PICK a : BlockAt(q, d, s, a) /\ Survives(a, b, m, m2)
      BY <1>5, <1>1
    <2>2. HoldsText(a, m)
      BY <2>1 DEF BlocksInv, Whole
    <2>3. QED
      BY <2>1, <2>2 DEF Survives, HoldsText
  <1>6. QED
    BY <1>2, <1>3, <1>4, <1>5 DEF BlocksInv, Under, Apart, Whole

LEMMA BottomAlike ==
  ASSUME NEW q, NEW r, NEW h, NEW h2, NEW k,
         Shape(q, h, k), Shape(r, h2, k), Bottom(q, h, k), Alike(q, r),
         h2 = h \/ (h <= h2 /\ (Len(q) = 1 => Len(q[1].scopes) > 0))
  PROVE  Bottom(r, h2, k)
  <1>1. Len(q) \in Nat \ {0} /\ Len(r) = Len(q) /\ q[1].fn = "native" /\ r[1].fn = "native"
    BY FrameIs DEF Alike, Bottom, Shape
  <1>2. 1 \in 1 .. Len(q) /\ (Len(q) > 1 => 2 \in 1 .. Len(q))
    BY <1>1
  <1>3. /\ Len(r[1].scopes) = Len(q[1].scopes)
        /\ \A s \in 1 .. Len(q[1].scopes) :
             r[1].scopes[s].hea = q[1].scopes[s].hea /\ r[1].scopes[s].stk = q[1].scopes[s].stk
    BY <1>1, <1>2 DEF Alike
  <1>4. Len(q) > 1 => r[2].fn = "public" /\ r[2].hea = q[2].hea /\ r[2].stk = q[2].stk
    BY <1>2 DEF Alike, Bottom
  <1>5. Len(q[1].scopes) \in Nat /\ \A s \in 1 .. Len(q[1].scopes) : q[1].scopes[s].hea \in Int
    <2>1. \A s \in 1 .. Len(q[1].scopes) : q[1].scopes[s].hea \in Heap
      BY <1>1, <1>2, ScopeIs
    <2>2. Len(q[1].scopes) \in Nat
      BY <1>1, <1>2, ScopeIs
    <2>3. QED
      BY <2>1, <2>2, ScriptMemoryAssumption DEF Heap, CellAddress
  <1>6. h \in Int /\ h2 \in Int
    BY ScriptMemoryAssumption DEF Shape, Heap, CellAddress
  <1>7. CASE Len(q) = 1
    <2>1. /\ k = Stp /\ (IF Len(q[1].scopes) = 0 THEN h ELSE q[1].scopes[1].hea) = Hlw
          /\ \A s \in 1 .. Len(q[1].scopes) :
               /\ q[1].scopes[s].stk = Stp /\ q[1].scopes[s].hea <= h
               /\ \A t \in 1 .. Len(q[1].scopes) : s < t => q[1].scopes[s].hea <= q[1].scopes[t].hea
      BY <1>7 DEF Bottom
    <2>2. h2 = h \/ (h <= h2 /\ Len(q[1].scopes) > 0)
      BY <1>7
    <2>3. \A s \in 1 .. Len(q[1].scopes) : q[1].scopes[s].hea <= h2
      BY <2>1, <2>2, <1>5, <1>6
    <2>4. (IF Len(q[1].scopes) = 0 THEN h2 ELSE q[1].scopes[1].hea) = Hlw
      BY <2>1, <2>2
    <2>5. (IF Len(r[1].scopes) = 0 THEN h2 ELSE r[1].scopes[1].hea) = Hlw
      <3>1. CASE Len(q[1].scopes) = 0
        BY <3>1, <2>4, <1>3
      <3>2. CASE Len(q[1].scopes) # 0
        <4>1. 1 \in 1 .. Len(q[1].scopes)
          BY <3>2, <1>5
        <4>2. QED
          BY <3>2, <4>1, <2>4, <1>3
      <3>3. QED
        BY <3>1, <3>2
    <2>6. QED
      BY <1>1, <1>3, <1>7, <2>1, <2>3, <2>5 DEF Bottom
  <1>8. CASE Len(q) > 1
    BY <1>1, <1>3, <1>4, <1>5, <1>8 DEF Bottom
  <1>9. QED
    BY <1>1, <1>7, <1>8

(***************************************************************************)
(* Memory.                                                                 *)
(***************************************************************************)

LEMMA CellsApart ==
  ASSUME NEW a \in CellAddress, NEW n \in Nat, a + 4 * n <= Stp,
         NEW address \in CellAddress, NEW size \in Nat,
         NEW cells, Len(cells) \in Nat, Len(cells) <= size,
         ~(a < address + 4 * size /\ address < a + 4 * n)
  PROVE  Cells(Overwritten(address, cells), a, n) = Cells(memory, a, n)
  <1>1. /\ a \in Nat /\ a = 4 * (a \div 4) /\ a \div 4 \in Nat
        /\ address \in Nat /\ address = 4 * (address \div 4) /\ address \div 4 \in Nat
        /\ Stp \in Nat /\ Stp = 4 * (Stp \div 4) /\ Stp \div 4 \in Nat
    BY Aligned, ScriptMemoryAssumption DEF CellAddress
  <1> DEFINE p == a \div 4
             t == address \div 4
             e == Stp \div 4
  <1> HIDE DEF p, t, e
  <1>2. /\ p \in Nat /\ t \in Nat /\ e \in Nat /\ a = 4 * p /\ address = 4 * t /\ Stp = 4 * e
    BY <1>1 DEF p, t, e
  <1>3. ASSUME NEW i \in 1 .. n
        PROVE  p + i - 1 \in 0 .. e - 1 /\ ~((p + i - 1) - t + 1 \in 1 .. Len(cells))
    BY <1>2
  <1>4. ASSUME NEW i \in 1 .. n
        PROVE  Overwritten(address, cells)[a \div 4 + i - 1] = memory[a \div 4 + i - 1]
    BY <1>3 DEF Overwritten, CellAt, p, t, e
  <1>5. QED
    BY <1>4 DEF Cells

LEMMA CellsWritten ==
  ASSUME NEW address \in CellAddress, NEW cells, Len(cells) \in Nat,
         cells = [i \in 1 .. Len(cells) |-> cells[i]], address + 4 * Len(cells) <= Stp
  PROVE  Cells(Overwritten(address, cells), address, Len(cells)) = cells
  <1>1. /\ address \in Nat /\ address = 4 * (address \div 4) /\ address \div 4 \in Nat
        /\ Stp \in Nat /\ Stp = 4 * (Stp \div 4) /\ Stp \div 4 \in Nat
    BY Aligned, ScriptMemoryAssumption DEF CellAddress
  <1> DEFINE t == address \div 4
             e == Stp \div 4
  <1> HIDE DEF t, e
  <1>2. /\ t \in Nat /\ e \in Nat /\ address = 4 * t /\ Stp = 4 * e
    BY <1>1 DEF t, e
  <1>3. ASSUME NEW i \in 1 .. Len(cells)
        PROVE  t + i - 1 \in 0 .. e - 1 /\ (t + i - 1) - t + 1 = i
    BY <1>2
  <1>4. ASSUME NEW i \in 1 .. Len(cells)
        PROVE  Overwritten(address, cells)[address \div 4 + i - 1] = cells[i]
    BY <1>3 DEF Overwritten, CellAt, t, e
  <1>5. QED
    BY <1>4 DEF Cells

LEMMA EncodedIs ==
  ASSUME NEW text \in Seq(1 .. 255)
  PROVE  /\ Len(text) \in Nat /\ Len(Encoded(text)) = Len(text) + 1
         /\ Encoded(text) = [i \in 1 .. Len(Encoded(text)) |-> Encoded(text)[i]]
  <1>1. Len(text) + 1 \in Nat /\ DOMAIN Encoded(text) = 1 .. Len(text) + 1
    BY DEF Encoded
  <1>2. Encoded(text) = [i \in 1 .. Len(text) + 1 |-> Encoded(text)[i]]
    BY DEF Encoded
  <1>3. Len(Encoded(text)) = Len(text) + 1
    BY <1>1, <1>2, FunctionIsSeq
  <1>4. QED
    BY <1>2, <1>3

(***************************************************************************)
(* Calls.                                                                  *)
(***************************************************************************)

LEMMA SurvivesSame ==
  ASSUME NEW q, NEW r, NEW m, \A d, s, b : BlockAt(r, d, s, b) => BlockAt(q, d, s, b)
  PROVE  Kept(q, r, m, m)
  BY DEF Kept, Survives

LEMMA HeapIs == \A a \in Heap : a \in Nat /\ a \in Int /\ Hlw <= a /\ a <= Stp /\ a % 4 = 0
  BY ScriptMemoryAssumption DEF Heap, CellAddress

\* A call keeps what is below it, whether it is of a public or of a native.
LEMMA CallMade ==
  ASSUME NEW q, NEW h, NEW k, NEW m, Shape(q, h, k), Bottom(q, h, k), BlocksInv(q, h, m), Passes(q, m),
         NEW f, NEW k2 \in Int, k2 <= Stp,
         \/ IsPublic(f) /\ f.hea = h /\ f.stk = k
         \/ /\ IsNative(f) /\ f.scopes = <<>> /\ Len(q) > 1
            /\ f.argument.type = "string" => SaysIt(f.argument, m)
  PROVE  LET r == Append(q, f)
         IN Shape(r, h, k2) /\ Bottom(r, h, k2) /\ BlocksInv(r, h, m) /\ Passes(r, m)
  <1> DEFINE r == Append(q, f)
             n == Len(q)
  <1>1. /\ IsSeq(r) /\ Len(r) = n + 1 /\ n \in Nat \ {0} /\ r[n + 1] = f
        /\ \A i \in 1 .. n : r[i] = q[i]
    BY AppendIs, SeqIs DEF Shape
  <1> HIDE DEF r, n
  <1>2. Shape(r, h, k2)
    <2>1. \A d \in 1 .. Len(r) : IsNative(r[d]) \/ IsPublic(r[d])
      BY <1>1 DEF Shape, n
    <2>2. QED
      BY <1>1, <2>1 DEF Shape
  <1>3. f.fn = "native" => f.scopes = <<>> /\ n > 1 /\ (f.argument.type = "string" => SaysIt(f.argument, m))
    BY DEF IsPublic, n
  <1>4. f.fn = "public" => IsPublic(f) /\ f.hea = h /\ f.stk = k
    BY DEF IsNative
  <1>4a. f.fn = "public" \/ f.fn = "native"
    BY DEF IsNative, IsPublic
  <1>5. ASSUME NEW d, NEW s, NEW b, BlockAt(r, d, s, b)
        PROVE  BlockAt(q, d, s, b)
    <2>1. d \in 1 .. n \/ d = n + 1
      BY <1>5, <1>1 DEF BlockAt
    <2>2. CASE d \in 1 .. n
      BY <1>5, <2>2, <1>1 DEF BlockAt, n
    <2>3. CASE d = n + 1
      BY <1>5, <2>3, <1>1, <1>3 DEF BlockAt
    <2>4. QED
      BY <2>1, <2>2, <2>3
  <1>6. ASSUME NEW e, NEW t, NEW a, MarkAt(r, e, t, a)
        PROVE  MarkAt(q, e, t, a) \/ a = h
    <2>1. e \in 1 .. n \/ e = n + 1
      BY <1>6, <1>1 DEF MarkAt
    <2>2. CASE e \in 1 .. n
      BY <1>6, <2>2, <1>1 DEF MarkAt, n
    <2>3. CASE e = n + 1
      BY <1>6, <2>3, <1>1, <1>3, <1>4 DEF MarkAt
    <2>4. QED
      BY <2>1, <2>2, <2>3
  <1>7. BlocksInv(r, h, m)
    <2>1. Kept(q, r, m, m)
      BY <1>5, SurvivesSame
    <2>2. \A d, s, b : BlockAt(q, d, s, b) => End(b) <= h
      BY DEF BlocksInv, Placed
    <2>3. QED
      BY <1>2, <1>6, <2>1, <2>2, BlocksStay
  <1>8. Passes(r, m)
    BY <1>1, <1>3 DEF Passes, n
  <1>9. Bottom(r, h, k2)
    <2>1. CASE n = 1
      <3>1. r[1] = q[1] /\ r[2] = f /\ Len(r) = 2 /\ f.fn = "public" /\ f.hea = h /\ f.stk = k
        BY <2>1, <1>1, <1>3, <1>4, <1>4a
      <3>2. QED
        BY <2>1, <3>1 DEF Bottom, n
    <2>2. CASE n > 1
      <3>1. r[1] = q[1] /\ r[2] = q[2] /\ Len(r) # 1 /\ Len(q) # 1 /\ Len(q) > 1
        BY <2>2, <1>1 DEF n
      <3>2. QED
        BY <3>1 DEF Bottom
    <2>3. QED
      BY <1>1, <2>1, <2>2
  <1>10. QED
    BY <1>2, <1>7, <1>8, <1>9 DEF r

\* A return gives back what the call found.
LEMMA CallEnds ==
  ASSUME NEW q, NEW h, NEW k, NEW m, Shape(q, h, k), Bottom(q, h, k), BlocksInv(q, h, m), Passes(q, m),
         Len(q) > 1,
         NEW h2, h2 = IF q[Len(q)].fn = "public" THEN q[Len(q)].hea ELSE h
  PROVE  LET r == SubSeq(q, 1, Len(q) - 1)
             k2 == q[Len(q)].stk
         IN Shape(r, h2, k2) /\ Bottom(r, h2, k2) /\ BlocksInv(r, h2, m) /\ Passes(r, m)
  <1> DEFINE n == Len(q) - 1
             r == SubSeq(q, 1, n)
             k2 == q[Len(q)].stk
  <1>1. n \in Nat \ {0} /\ Len(q) = n + 1 /\ n + 1 \in 1 .. Len(q)
    BY SeqIs DEF Shape
  <1>2. /\ IsSeq(r) /\ Len(r) = n /\ \A i \in 1 .. n : r[i] = q[i]
    <2> HIDE DEF n
    <2>1. QED
      BY <1>1, ShorterIs DEF Shape
  <1> HIDE DEF r, n
  <1>3. h2 \in Heap /\ k2 \in Int /\ k2 <= Stp
    <2>1. CASE q[n + 1].fn = "public"
      BY <2>1, <1>1, FrameIs DEF IsPublic
    <2>2. CASE q[n + 1].fn = "native"
      BY <2>2, <1>1, FrameIs DEF IsNative, Shape
    <2>3. QED
      BY <1>1, <2>1, <2>2, FrameIs
  <1>4. Shape(r, h2, k2)
    <2>1. \A d \in 1 .. Len(r) : IsNative(r[d]) \/ IsPublic(r[d])
      BY <1>1, <1>2 DEF Shape
    <2> HIDE DEF k2
    <2>2. QED
      BY <1>1, <1>2, <1>3, <2>1 DEF Shape
  <1>5. ASSUME NEW d, NEW s, NEW b, BlockAt(r, d, s, b)
        PROVE  BlockAt(q, d, s, b) /\ d \in 1 .. n
    <2>1. d \in 1 .. n /\ d \in 1 .. Len(q)
      BY <1>5, <1>1, <1>2 DEF BlockAt
    <2>2. QED
      BY <1>5, <1>2, <2>1 DEF BlockAt
  <1>6. ASSUME NEW e, NEW t, NEW a, MarkAt(r, e, t, a)
        PROVE  MarkAt(q, e, t, a)
    <2>1. e \in 1 .. n /\ e \in 1 .. Len(q)
      BY <1>6, <1>1, <1>2 DEF MarkAt
    <2>2. QED
      BY <1>6, <1>2, <2>1 DEF MarkAt
  <1>7. ASSUME NEW d, NEW s, NEW b, BlockAt(q, d, s, b), NEW o, BlockAt(r, d, s, o)
        PROVE  End(b) <= h2
    <2>1. CASE q[n + 1].fn = "public"
      <3>1. MarkAt(q, n + 1, 0, h2)
        BY <2>1, <1>1 DEF MarkAt
      <3>2. Before(d, s, n + 1, 0)
        BY <1>5, <1>7, <1>1 DEF Before
      <3>3. QED
        BY <1>7, <3>1, <3>2 DEF BlocksInv, Under
    <2>2. CASE q[n + 1].fn = "native"
      BY <2>2, <1>1, <1>7 DEF BlocksInv, Placed
    <2>3. QED
      BY <1>1, <2>1, <2>2, FrameIs
  <1>8. BlocksInv(r, h2, m)
    <2>1. Kept(q, r, m, m)
      BY <1>5, SurvivesSame
    <2> HIDE DEF k2
    <2>2. QED
      BY <1>4, <1>6, <1>7, <2>1, BlocksStay
  <1>9. Passes(r, m)
    BY <1>1, <1>2 DEF Passes
  <1>10. Bottom(r, h2, k2)
    <2>1. CASE n = 1
      <3>1. r[1] = q[1] /\ Len(r) = 1 /\ Len(q) = 2 /\ q[2].fn = "public" /\ h2 = q[2].hea /\ k2 = q[2].stk
        BY <2>1, <1>1, <1>2 DEF Bottom
      <3> HIDE DEF k2
      <3>2. QED
        BY <3>1 DEF Bottom
    <2>2. CASE n > 1
      <3>1. r[1] = q[1] /\ r[2] = q[2] /\ Len(r) # 1 /\ Len(q) # 1 /\ Len(q) > 1
        BY <2>2, <1>1, <1>2
      <3>2. QED
        BY <3>1 DEF Bottom
    <2>3. QED
      BY <1>1, <2>1, <2>2
  <1>11. QED
    BY <1>4, <1>8, <1>9, <1>10 DEF r, n

(***************************************************************************)
(* Scopes.                                                                 *)
(***************************************************************************)

\* r is q after its last frame has become f.
LastBecomes(q, r, f) ==
  /\ Len(r) = Len(q) /\ r[Len(q)] = f /\ Len(q) \in Nat \ {0}
  /\ \A d \in 1 .. Len(q) : d # Len(q) => r[d] = q[d]
  /\ \A d, s, b : BlockAt(r, d, s, b) =>
       \/ d < Len(q) /\ BlockAt(q, d, s, b)
       \/ d = Len(q) /\ s \in 1 .. Len(f.scopes) /\ b \in f.scopes[s].blocks
  /\ \A e, t, a : MarkAt(r, e, t, a) =>
       \/ e < Len(q) /\ MarkAt(q, e, t, a)
       \/ e = Len(q) /\ t \in 1 .. Len(f.scopes) /\ a = f.scopes[t].hea

LEMMA NativeBecomes ==
  ASSUME NEW q, NEW h, NEW k, Shape(q, h, k), q[Len(q)].fn = "native", NEW f, IsNative(f),
         NEW h2 \in Heap, NEW k2 \in Int, k2 <= Stp
  PROVE  Shape([q EXCEPT ![Len(q)] = f], h2, k2) /\ LastBecomes(q, [q EXCEPT ![Len(q)] = f], f)
  <1> DEFINE n == Len(q)
             r == [q EXCEPT ![n] = f]
  <1>1. n \in Nat \ {0} /\ n \in 1 .. Len(q)
    BY SeqIs DEF Shape
  <1>2. IsSeq(r) /\ Len(r) = n /\ r[n] = f /\ \A d \in 1 .. n : d # n => r[d] = q[d]
    <2>1. IsSeq(q)
      BY DEF Shape
    <2>2. QED
      BY <1>1, <2>1, SetIs
  <1> HIDE DEF r
  <1>3. Shape(r, h2, k2)
    <2>1. \A d \in 1 .. Len(r) : IsNative(r[d]) \/ IsPublic(r[d])
      BY <1>2 DEF Shape
    <2>2. QED
      BY <1>1, <1>2, <2>1 DEF Shape
  <1>4. ASSUME NEW d, NEW s, NEW b, BlockAt(r, d, s, b)
        PROVE  \/ d < n /\ BlockAt(q, d, s, b)
               \/ d = n /\ s \in 1 .. Len(f.scopes) /\ b \in f.scopes[s].blocks
    <2>1. CASE d = n
      BY <1>4, <2>1, <1>2 DEF BlockAt
    <2>2. CASE d # n
      <3>1. d \in 1 .. n /\ r[d] = q[d] /\ d < n
        BY <1>4, <2>2, <1>1, <1>2 DEF BlockAt
      <3>2. QED
        BY <1>4, <3>1 DEF BlockAt
    <2>3. QED
      BY <2>1, <2>2
  <1>5. ASSUME NEW e, NEW t, NEW a, MarkAt(r, e, t, a)
        PROVE  \/ e < n /\ MarkAt(q, e, t, a)
               \/ e = n /\ t \in 1 .. Len(f.scopes) /\ a = f.scopes[t].hea
    <2>1. CASE e = n
      <3>1. f.fn # "public"
        BY DEF IsNative
      <3>2. QED
        BY <1>5, <2>1, <1>2, <3>1 DEF MarkAt
    <2>2. CASE e # n
      <3>1. e \in 1 .. n /\ r[e] = q[e] /\ e < n
        BY <1>5, <2>2, <1>1, <1>2 DEF MarkAt
      <3>2. QED
        BY <1>5, <3>1 DEF MarkAt
    <2>3. QED
      BY <2>1, <2>2
  <1>6. QED
    BY <1>1, <1>2, <1>3, <1>4, <1>5 DEF r, LastBecomes

\* A scope is opened: the native's scopes and one more, with nothing in it.
LEMMA ScopeOpened ==
  ASSUME NEW q, NEW h, NEW k, NEW m, Shape(q, h, k), Bottom(q, h, k), BlocksInv(q, h, m), Passes(q, m),
         q[Len(q)].fn = "native"
  PROVE  LET top == q[Len(q)]
             f == [top EXCEPT !.scopes = Append(top.scopes, [hea |-> h, stk |-> k, blocks |-> {}])]
             r == [q EXCEPT ![Len(q)] = f]
         IN Shape(r, h, k) /\ Bottom(r, h, k) /\ BlocksInv(r, h, m) /\ Passes(r, m)
  <1> DEFINE n == Len(q)
             top == q[n]
             new == [hea |-> h, stk |-> k, blocks |-> {}]
             f == [top EXCEPT !.scopes = Append(top.scopes, new)]
             r == [q EXCEPT ![n] = f]
             l == Len(top.scopes)
  <1>1. n \in 1 .. Len(q) /\ IsNative(top) /\ n \in Nat \ {0}
    <2>1. n \in Nat \ {0} /\ n \in 1 .. Len(q)
      BY SeqIs DEF Shape
    <2>2. QED
      BY <2>1, FrameIs
  <1>2. h \in Heap /\ k \in Int /\ k <= Stp
    BY DEF Shape
  <1>3. new \in Scope
    BY <1>2, FS_EmptySet DEF Scope, Blockset
  <1>4. top.scopes \in Seq(Scope) /\ l \in Nat
    BY <1>1 DEF IsNative
  <1>5. /\ f.scopes \in Seq(Scope) /\ Len(f.scopes) = l + 1 /\ f.scopes[l + 1] = new
        /\ \A s \in 1 .. l : f.scopes[s] = top.scopes[s]
        /\ f.argument = top.argument /\ f.stk = top.stk /\ f.fn = "native"
        /\ DOMAIN f = DOMAIN top
    <2>1. f.scopes = Append(top.scopes, new)
      BY <1>1 DEF IsNative
    <2> HIDE DEF new
    <2>2. /\ Append(top.scopes, new) \in Seq(Scope) /\ Len(Append(top.scopes, new)) = l + 1
          /\ Append(top.scopes, new)[l + 1] = new
          /\ \A s \in 1 .. l : Append(top.scopes, new)[s] = top.scopes[s]
      BY <1>3, <1>4, AppendProperties
    <2>3. QED
      BY <1>1, <2>1, <2>2 DEF IsNative
  <1>6. IsNative(f)
    <2> HIDE DEF f, top, new
    <2>1. QED
      BY <1>1, <1>5 DEF IsNative
  <1>7. new.hea = h /\ new.stk = k /\ new.blocks = {}
    OBVIOUS
  <1> HIDE DEF f, new
  <1>8. /\ Shape(r, h, k) /\ Len(r) = n /\ r[n] = f
        /\ \A d \in 1 .. n : d # n => r[d] = q[d]
        /\ \A d, s, b : BlockAt(r, d, s, b) =>
             \/ d < n /\ BlockAt(q, d, s, b)
             \/ d = n /\ s \in 1 .. Len(f.scopes) /\ b \in f.scopes[s].blocks
        /\ \A e, t, a : MarkAt(r, e, t, a) =>
             \/ e < n /\ MarkAt(q, e, t, a)
             \/ e = n /\ t \in 1 .. Len(f.scopes) /\ a = f.scopes[t].hea
    <2>1. Shape(r, h, k) /\ LastBecomes(q, r, f)
      BY <1>2, <1>6, NativeBecomes
    <2> HIDE DEF r
    <2>2. QED
      BY <2>1 DEF LastBecomes
  <1> HIDE DEF r, n
  <1>9. ASSUME NEW d, NEW s, NEW b, BlockAt(r, d, s, b)
        PROVE  BlockAt(q, d, s, b)
    <2>1. CASE d < n /\ BlockAt(q, d, s, b)
      BY <2>1
    <2>2. CASE d = n /\ s \in 1 .. Len(f.scopes) /\ b \in f.scopes[s].blocks
      <3>1. s \in 1 .. l \/ s = l + 1
        BY <2>2, <1>4, <1>5
      <3>2. CASE s \in 1 .. l
        BY <3>2, <2>2, <1>1, <1>5 DEF BlockAt, n
      <3>3. CASE s = l + 1
        BY <3>3, <2>2, <1>5, <1>7
      <3>4. QED
        BY <3>1, <3>2, <3>3
    <2>3. QED
      BY <1>8, <1>9, <2>1, <2>2
  <1>10. ASSUME NEW e, NEW t, NEW a, MarkAt(r, e, t, a)
         PROVE  MarkAt(q, e, t, a) \/ a = h
    <2>1. CASE e < n /\ MarkAt(q, e, t, a)
      BY <2>1
    <2>2. CASE e = n /\ t \in 1 .. Len(f.scopes) /\ a = f.scopes[t].hea
      <3>1. t \in 1 .. l \/ t = l + 1
        BY <2>2, <1>4, <1>5
      <3>2. CASE t \in 1 .. l
        BY <3>2, <2>2, <1>1, <1>5 DEF MarkAt, n
      <3>3. CASE t = l + 1
        BY <3>3, <2>2, <1>5, <1>7
      <3>4. QED
        BY <3>1, <3>2, <3>3
    <2>3. QED
      BY <1>8, <1>10, <2>1, <2>2
  <1>11. BlocksInv(r, h, m)
    <2>1. Kept(q, r, m, m)
      BY <1>9, SurvivesSame
    <2>2. \A d, s, b : BlockAt(q, d, s, b) => End(b) <= h
      BY DEF BlocksInv, Placed
    <2>3. QED
      BY <1>8, <1>10, <2>1, <2>2, BlocksStay
  <1>12. Passes(r, m)
    BY <1>1, <1>5, <1>8 DEF Passes, n
  <1>13. Bottom(r, h, k)
    <2>1. CASE n = 1
      <3>1. /\ k = Stp /\ (IF l = 0 THEN h ELSE top.scopes[1].hea) = Hlw
            /\ \A s \in 1 .. l :
                 /\ top.scopes[s].stk = Stp /\ top.scopes[s].hea <= h
                 /\ \A t \in 1 .. l : s < t => top.scopes[s].hea <= top.scopes[t].hea
        BY <2>1 DEF Bottom, n
      <3>2. Len(r) = 1 /\ r[1] = f
        BY <2>1, <1>8
      <3>3. f.scopes[1].hea = Hlw
        <4>1. CASE l = 0
          BY <4>1, <3>1, <1>5, <1>7
        <4>2. CASE l > 0
          BY <4>2, <3>1, <1>5
        <4>3. QED
          BY <4>1, <4>2, <1>4
      <3>4. ASSUME NEW s \in 1 .. l + 1
            PROVE  /\ f.scopes[s].stk = Stp /\ f.scopes[s].hea <= h
                   /\ \A t \in 1 .. l + 1 : s < t => f.scopes[s].hea <= f.scopes[t].hea
        <4>1. h \in Int
          BY <1>2, HeapIs
        <4>2. CASE s = l + 1
          BY <4>1, <4>2, <3>1, <1>4, <1>5, <1>7
        <4>3. CASE s \in 1 .. l
          <5>1. f.scopes[s] = top.scopes[s]
            BY <4>3, <1>5
          <5>2. ASSUME NEW t \in 1 .. l + 1, s < t
                PROVE  f.scopes[s].hea <= f.scopes[t].hea
            <6>1. CASE t = l + 1
              BY <4>3, <5>1, <6>1, <3>1, <1>5, <1>7
            <6>2. CASE t \in 1 .. l
              BY <4>3, <5>1, <5>2, <6>2, <3>1, <1>5
            <6>3. QED
              BY <6>1, <6>2, <1>4
          <5>3. QED
            BY <4>3, <5>1, <5>2, <3>1
        <4>4. QED
          BY <4>2, <4>3, <1>4
      <3>5. QED
        BY <3>1, <3>2, <3>3, <3>4, <1>4, <1>5 DEF Bottom, n
    <2>2. CASE n > 1
      <3>1. 1 \in 1 .. n /\ 2 \in 1 .. n
        BY <2>2, <1>1
      <3>2. q[2].fn = "public" /\ r[1] = q[1]
        BY <2>2, <3>1, <1>8 DEF Bottom, n
      <3>3. n # 2
        BY <3>2 DEF n
      <3>4. r[2] = q[2]
        BY <3>1, <3>3, <1>8
      <3>5. QED
        BY <2>2, <3>2, <3>4, <1>8 DEF Bottom, n
    <2>3. n = 1 \/ n > 1
      BY <1>1
    <2>4. QED
      BY <2>1, <2>2, <2>3
  <1>14. QED
    BY <1>8, <1>11, <1>12, <1>13 DEF r, n, f, new

\* A scope is dropped: what it gives back is above every block that stays.
LEMMA ScopeDropped ==
  ASSUME NEW q, NEW h, NEW k, NEW m, Shape(q, h, k), Bottom(q, h, k), BlocksInv(q, h, m), Passes(q, m),
         q[Len(q)].fn = "native", q[Len(q)].scopes # <<>>,
         NEW scope, scope = q[Len(q)].scopes[Len(q[Len(q)].scopes)],
         NEW h2, h2 = IF h > scope.hea THEN scope.hea ELSE h,
         NEW k2, k2 = IF scope.stk <= Stp /\ k < scope.stk THEN scope.stk ELSE k
  PROVE  LET top == q[Len(q)]
             f == [top EXCEPT !.scopes = SubSeq(top.scopes, 1, Len(top.scopes) - 1)]
             r == [q EXCEPT ![Len(q)] = f]
         IN Shape(r, h2, k2) /\ Bottom(r, h2, k2) /\ BlocksInv(r, h2, m) /\ Passes(r, m)
  <1> DEFINE n == Len(q)
             top == q[n]
             l == Len(top.scopes) - 1
             f == [top EXCEPT !.scopes = SubSeq(top.scopes, 1, l)]
             r == [q EXCEPT ![n] = f]
  <1>1. n \in 1 .. Len(q) /\ IsNative(top) /\ n \in Nat \ {0}
    <2>1. n \in Nat \ {0} /\ n \in 1 .. Len(q)
      BY SeqIs DEF Shape
    <2>2. QED
      BY <2>1, FrameIs
  <1>2. top.scopes \in Seq(Scope) /\ l \in Nat /\ Len(top.scopes) = l + 1 /\ scope = top.scopes[l + 1]
    <2>1. top.scopes \in Seq(Scope) /\ Len(top.scopes) \in Nat \ {0}
      <3>1. top.scopes \in Seq(Scope) /\ top.scopes # <<>>
        BY <1>1 DEF IsNative
      <3>2. QED
        BY <3>1, EmptySeq
    <2>2. QED
      BY <2>1
  <1>3. /\ scope \in Scope /\ scope.hea \in Heap /\ scope.stk \in Int
        /\ \A s \in 1 .. l + 1 : top.scopes[s].hea \in Heap
    <2>1. \A s \in 1 .. l + 1 : top.scopes[s] \in Scope
      BY <1>2
    <2>2. \A x \in Scope : x.hea \in Heap /\ x.stk \in Int
      BY DEF Scope
    <2>3. l + 1 \in 1 .. l + 1
      BY <1>2
    <2>4. QED
      BY <1>2, <2>1, <2>2, <2>3
  <1>4. /\ h \in Heap /\ h \in Int /\ k \in Int /\ k <= Stp /\ scope.hea \in Int
    BY <1>3, HeapIs DEF Shape
  <1>5. h2 \in Heap /\ k2 \in Int /\ k2 <= Stp /\ h2 \in Int
    BY <1>3, <1>4
  <1>6. /\ f.scopes \in Seq(Scope) /\ Len(f.scopes) = l
        /\ \A s \in 1 .. l : f.scopes[s] = top.scopes[s]
        /\ f.argument = top.argument /\ f.stk = top.stk /\ f.fn = "native"
        /\ DOMAIN f = DOMAIN top
    <2>1. f.scopes = SubSeq(top.scopes, 1, l)
      BY <1>1 DEF IsNative
    <2>2. /\ SubSeq(top.scopes, 1, l) \in Seq(Scope) /\ Len(SubSeq(top.scopes, 1, l)) = l
          /\ \A s \in 1 .. l : SubSeq(top.scopes, 1, l)[s] = top.scopes[s]
      <3> HIDE DEF l, top
      <3>1. QED
        BY <1>2
    <2>3. QED
      BY <1>1, <2>1, <2>2 DEF IsNative
  <1>7. IsNative(f)
    <2> HIDE DEF f, top
    <2>1. QED
      BY <1>1, <1>6 DEF IsNative
  <1> HIDE DEF f
  <1>8. /\ Shape(r, h2, k2) /\ Len(r) = n /\ r[n] = f
        /\ \A d \in 1 .. n : d # n => r[d] = q[d]
        /\ \A d, s, b : BlockAt(r, d, s, b) =>
             \/ d < n /\ BlockAt(q, d, s, b)
             \/ d = n /\ s \in 1 .. Len(f.scopes) /\ b \in f.scopes[s].blocks
        /\ \A e, t, a : MarkAt(r, e, t, a) =>
             \/ e < n /\ MarkAt(q, e, t, a)
             \/ e = n /\ t \in 1 .. Len(f.scopes) /\ a = f.scopes[t].hea
    <2>1. Shape(r, h2, k2) /\ LastBecomes(q, r, f)
      BY <1>5, <1>7, NativeBecomes
    <2> HIDE DEF r
    <2>2. QED
      BY <2>1 DEF LastBecomes
  <1>9. top.fn = "native" /\ top = q[n] /\ n = Len(q)
    OBVIOUS
  <1> HIDE DEF r, n, top, l
  <1>10. ASSUME NEW d, NEW s, NEW b, BlockAt(r, d, s, b)
         PROVE  BlockAt(q, d, s, b) /\ Before(d, s, n, l + 1)
    <2>1. CASE d < n /\ BlockAt(q, d, s, b)
      BY <2>1 DEF Before
    <2>2. CASE d = n /\ s \in 1 .. Len(f.scopes) /\ b \in f.scopes[s].blocks
      BY <2>2, <1>1, <1>2, <1>6, <1>9 DEF BlockAt, Before
    <2>3. QED
      BY <1>8, <1>10, <2>1, <2>2
  <1>11. ASSUME NEW e, NEW t, NEW a, MarkAt(r, e, t, a)
         PROVE  MarkAt(q, e, t, a)
    <2>1. CASE e < n /\ MarkAt(q, e, t, a)
      BY <2>1
    <2>2. CASE e = n /\ t \in 1 .. Len(f.scopes) /\ a = f.scopes[t].hea
      BY <2>2, <1>1, <1>2, <1>6, <1>9 DEF MarkAt
    <2>3. QED
      BY <1>8, <1>11, <2>1, <2>2
  <1>12. ASSUME NEW d, NEW s, NEW b, BlockAt(q, d, s, b), NEW o, BlockAt(r, d, s, o)
         PROVE  End(b) <= h2
    <2>1. MarkAt(q, n, l + 1, scope.hea)
      BY <1>1, <1>2, <1>9 DEF MarkAt
    <2>2. Before(d, s, n, l + 1)
      BY <1>10, <1>12
    <2>3. End(b) <= scope.hea /\ End(b) <= h
      BY <1>12, <2>1, <2>2 DEF BlocksInv, Under, Placed
    <2>4. QED
      BY <2>3
  <1>13. BlocksInv(r, h2, m)
    <2>1. Kept(q, r, m, m)
      BY <1>10, SurvivesSame
    <2>2. QED
      BY <1>8, <1>11, <1>12, <2>1, BlocksStay
  <1>14. Passes(r, m)
    BY <1>1, <1>6, <1>8, <1>9 DEF Passes
  <1>15. Bottom(r, h2, k2)
    <2>1. CASE n = 1
      <3>1. /\ k = Stp /\ top.scopes[1].hea = Hlw
            /\ \A s \in 1 .. l + 1 :
                 /\ top.scopes[s].stk = Stp /\ top.scopes[s].hea <= h
                 /\ \A t \in 1 .. l + 1 : s < t => top.scopes[s].hea <= top.scopes[t].hea
        BY <2>1, <1>2, <1>9 DEF Bottom
      <3>2. Len(r) = 1 /\ r[1] = f
        BY <2>1, <1>8
      <3>3. h2 = scope.hea /\ k2 = Stp
        <4>1. scope.hea <= h /\ scope.stk = Stp
          BY <3>1, <1>2
        <4>2. QED
          BY <3>1, <4>1, <1>4
      <3>4. (IF l = 0 THEN h2 ELSE f.scopes[1].hea) = Hlw
        BY <3>1, <3>3, <1>2, <1>6
      <3>5. ASSUME NEW s \in 1 .. l
            PROVE  /\ f.scopes[s].stk = Stp /\ f.scopes[s].hea <= h2
                   /\ \A t \in 1 .. l : s < t => f.scopes[s].hea <= f.scopes[t].hea
        BY <3>1, <3>3, <1>2, <1>6
      <3>6. QED
        BY <3>2, <3>3, <3>4, <3>5, <1>6 DEF Bottom
    <2>2. CASE n > 1
      <3>1. 1 \in 1 .. n /\ 2 \in 1 .. n
        BY <2>2, <1>1
      <3>2. q[2].fn = "public" /\ r[1] = q[1]
        BY <2>2, <3>1, <1>8, <1>9 DEF Bottom
      <3>3. n # 2
        BY <3>2, <1>9
      <3>4. r[2] = q[2]
        BY <3>1, <3>3, <1>8
      <3>5. QED
        BY <2>2, <3>2, <3>4, <1>8, <1>9 DEF Bottom
    <2>3. QED
      BY <1>1, <2>1, <2>2
  <1>16. QED
    BY <1>8, <1>13, <1>14, <1>15 DEF r, f, n, top, l

\* The native has read its argument.
LEMMA ArgumentRead ==
  ASSUME NEW q, NEW h, NEW k, NEW m, Shape(q, h, k), Bottom(q, h, k), BlocksInv(q, h, m), Passes(q, m),
         q[Len(q)].fn = "native", NEW f, IsNative(f), f.scopes = q[Len(q)].scopes,
         f.argument.type = "string" => SaysIt(f.argument, m)
  PROVE  LET r == [q EXCEPT ![Len(q)] = f]
         IN Shape(r, h, k) /\ Bottom(r, h, k) /\ BlocksInv(r, h, m) /\ Passes(r, m)
  <1> DEFINE n == Len(q)
             r == [q EXCEPT ![n] = f]
  <1>1. h \in Heap /\ k \in Int /\ k <= Stp
    BY DEF Shape
  <1>2. Shape(r, h, k) /\ LastBecomes(q, r, f)
    BY <1>1, NativeBecomes
  <1>3. n = Len(q)
    OBVIOUS
  <1> HIDE DEF r, n
  <1>4. /\ Len(r) = n /\ r[n] = f /\ n \in Nat \ {0}
        /\ \A d \in 1 .. n : d # n => r[d] = q[d]
    BY <1>2, <1>3 DEF LastBecomes
  <1>5. f.fn = "native"
    BY DEF IsNative
  <1>6. Alike(q, r)
    BY <1>3, <1>4, <1>5 DEF Alike
  <1>7. \A d, s, b : BlockAt(r, d, s, b) => BlockAt(q, d, s, b)
    BY <1>3, <1>4 DEF BlockAt
  <1>8. BlocksInv(r, h, m)
    <2>1. Kept(q, r, m, m)
      BY <1>7, SurvivesSame
    <2>2. \A d, s, b : BlockAt(q, d, s, b) => End(b) <= h
      BY DEF BlocksInv, Placed
    <2>3. \A e, t, a : MarkAt(r, e, t, a) => MarkAt(q, e, t, a)
      BY <1>6, AlikeMarks
    <2>4. QED
      BY <1>2, <2>1, <2>2, <2>3, BlocksStay
  <1>9. Bottom(r, h, k)
    BY <1>2, <1>6, BottomAlike
  <1>10. Passes(r, m)
    BY <1>3, <1>4 DEF Passes
  <1>11. QED
    BY <1>2, <1>8, <1>9, <1>10 DEF r, n

(***************************************************************************)
(* Writing.                                                                *)
(***************************************************************************)

LEMMA AfterWriteIs ==
  ASSUME NEW b \in Block, NEW address, NEW n
  PROVE  LET c == AfterWrite(b, address, n)
         IN /\ c \in Block /\ c.address = b.address /\ c.cells = b.cells /\ c.text = b.text
            /\ c.untouched => b.untouched /\ ~Overlap(b, address, n)
  BY DEF AfterWrite, Block, Overlap

LEMMA ScopeAfterWriteIs ==
  ASSUME NEW scope \in Scope, NEW address, NEW n
  PROVE  LET c == ScopeAfterWrite(scope, address, n)
         IN /\ c \in Scope /\ c.hea = scope.hea /\ c.stk = scope.stk
            /\ c.blocks = {AfterWrite(b, address, n) : b \in scope.blocks}
  <1>1. /\ scope.blocks \in SUBSET Block /\ IsFiniteSet(scope.blocks)
        /\ scope.hea \in Heap /\ scope.stk \in Int
    BY DEF Scope, Blockset
  <1> DEFINE blocks == {AfterWrite(b, address, n) : b \in scope.blocks}
  <1>2. blocks \in Blockset
    <2>1. blocks \in SUBSET Block
      BY <1>1, AfterWriteIs
    <2> DEFINE f == [b \in scope.blocks |-> AfterWrite(b, address, n)]
    <2>2. f \in Surjection(scope.blocks, blocks)
      BY DEF Surjection
    <2> HIDE DEF f, blocks
    <2>3. IsFiniteSet(blocks)
      BY <1>1, <2>2, FS_Surjection
    <2>4. QED
      BY <2>1, <2>3 DEF Blockset
  <1>3. QED
    BY <1>1, <1>2 DEF ScopeAfterWrite, Scope

LEMMA TouchedNative ==
  ASSUME Shape(stack, hea, stk), NEW address, NEW n,
         NEW d \in 1 .. Len(stack), stack[d].fn = "native"
  PROVE  LET f == stack[d]
             g == Touched(address, n)[d]
         IN /\ IsNative(g)
            /\ g.scopes = [s \in 1 .. Len(f.scopes) |-> ScopeAfterWrite(f.scopes[s], address, n)]
            /\ Len(g.scopes) = Len(f.scopes)
            /\ g.stk = f.stk
  <1> DEFINE f == stack[d]
             g == Touched(address, n)[d]
             argument == IF f.argument.type = "string" /\ f.argument.decoded = <<>>
                         THEN AfterWrite(f.argument, address, n) ELSE f.argument
             scopes == [s \in 1 .. Len(f.scopes) |-> ScopeAfterWrite(f.scopes[s], address, n)]
  <1>1. IsNative(f) /\ DOMAIN stack = 1 .. Len(stack)
    BY FrameIs
  <1>2. f.scopes \in Seq(Scope) /\ Len(f.scopes) \in Nat /\ DOMAIN f.scopes = 1 .. Len(f.scopes)
    BY <1>1 DEF IsNative
  <1>3. /\ g.argument = argument /\ g.scopes = scopes /\ g.stk = f.stk /\ g.fn = f.fn
        /\ DOMAIN g = DOMAIN f
    <2>1. /\ DOMAIN f = {"fn", "argument", "scopes", "stk"} /\ f.fn # "public"
          /\ d \in DOMAIN stack
      BY <1>1 DEF IsNative
    <2>2. DOMAIN g = DOMAIN f /\ g.stk = f.stk /\ g.fn = f.fn
      BY <2>1 DEF Touched
    <2>3. g.argument = argument
      BY <2>1 DEF Touched, AfterWrite
    <2>4. g.scopes = scopes
      BY <2>1, <1>2 DEF Touched, AfterWrite, ScopeAfterWrite
    <2>5. QED
      BY <2>2, <2>3, <2>4
  <1>4. scopes \in Seq(Scope) /\ Len(scopes) = Len(f.scopes)
    <2>1. \A s \in 1 .. Len(f.scopes) : ScopeAfterWrite(f.scopes[s], address, n) \in Scope
      BY <1>2, ScopeAfterWriteIs
    <2>2. QED
      BY <1>2, <2>1
  <1>5. argument = NoArgument \/ argument \in ArrayArgument \/ IsString(argument)
    <2>1. CASE f.argument.type = "string" /\ f.argument.decoded = <<>>
      <3>1. IsString(f.argument)
        BY <2>1, <1>1 DEF IsNative, NoArgument, ArrayArgument
      <3>2. IsString(AfterWrite(f.argument, address, n))
        BY <3>1 DEF IsString, AfterWrite
      <3>3. QED
        BY <2>1, <3>2
    <2>2. CASE ~(f.argument.type = "string" /\ f.argument.decoded = <<>>)
      BY <2>2, <1>1 DEF IsNative
    <2>3. QED
      BY <2>1, <2>2
  <1> HIDE DEF argument, scopes
  <1>6. IsNative(g)
    <2> HIDE DEF f, g
    <2>1. QED
      BY <1>1, <1>3, <1>4, <1>5 DEF IsNative
  <1>7. QED
    BY <1>3, <1>4, <1>6 DEF scopes

Unread(argument) == argument.type = "string" /\ argument.decoded = <<>>

LEMMA TouchedArgument ==
  ASSUME Shape(stack, hea, stk), NEW address, NEW n,
         NEW d \in 1 .. Len(stack), stack[d].fn = "native"
  PROVE  /\ Unread(stack[d].argument) =>
              Touched(address, n)[d].argument = AfterWrite(stack[d].argument, address, n)
         /\ ~Unread(stack[d].argument) => Touched(address, n)[d].argument = stack[d].argument
  <1>1. IsNative(stack[d]) /\ d \in DOMAIN stack
    BY FrameIs
  <1>2. DOMAIN stack[d] = {"fn", "argument", "scopes", "stk"} /\ stack[d].fn # "public"
    BY <1>1 DEF IsNative
  <1>3. QED
    BY <1>1, <1>2 DEF Touched, Unread

LEMMA TouchedPublic ==
  ASSUME Shape(stack, hea, stk), NEW address, NEW n,
         NEW d \in 1 .. Len(stack), stack[d].fn = "public"
  PROVE  Touched(address, n)[d] = stack[d]
  BY FrameIs DEF Touched

LEMMA TouchedIs ==
  ASSUME Shape(stack, hea, stk), NEW address, NEW n
  PROVE  /\ Shape(Touched(address, n), hea, stk) /\ Alike(stack, Touched(address, n))
         /\ \A d, s, b : BlockAt(Touched(address, n), d, s, b) =>
              \E a : BlockAt(stack, d, s, a) /\ b = AfterWrite(a, address, n)
  <1> DEFINE r == Touched(address, n)
  <1>1. Len(stack) \in Nat \ {0} /\ DOMAIN stack = 1 .. Len(stack)
    BY SeqIs DEF Shape
  <1>2. IsSeq(r) /\ Len(r) = Len(stack)
    <2>1. DOMAIN r = 1 .. Len(stack) /\ r = [d \in 1 .. Len(stack) |-> r[d]]
      BY <1>1 DEF Touched
    <2> HIDE DEF r
    <2>2. QED
      BY <1>1, <2>1, FunctionIsSeq
  <1> HIDE DEF r
  <1>3. ASSUME NEW d \in 1 .. Len(stack)
        PROVE  /\ IsNative(r[d]) \/ IsPublic(r[d])
               /\ r[d].fn = stack[d].fn
    <2>1. CASE stack[d].fn = "native"
      <3>1. IsNative(r[d])
        BY <2>1, TouchedNative DEF r
      <3>2. QED
        BY <2>1, <3>1 DEF IsNative
    <2>2. CASE stack[d].fn = "public"
      <3>1. r[d] = stack[d]
        BY <2>2, TouchedPublic DEF r
      <3>2. QED
        BY <3>1 DEF Shape
    <2>3. QED
      BY <2>1, <2>2, FrameIs
  <1>4. Shape(r, hea, stk)
    BY <1>1, <1>2, <1>3 DEF Shape
  <1>5. ASSUME NEW d \in 1 .. Len(stack), stack[d].fn = "native"
        PROVE  /\ Len(r[d].scopes) = Len(stack[d].scopes)
               /\ \A s \in 1 .. Len(stack[d].scopes) :
                    /\ r[d].scopes[s].hea = stack[d].scopes[s].hea
                    /\ r[d].scopes[s].stk = stack[d].scopes[s].stk
                    /\ r[d].scopes[s].blocks = {AfterWrite(b, address, n) : b \in stack[d].scopes[s].blocks}
    <2>1. /\ r[d].scopes = [s \in 1 .. Len(stack[d].scopes) |-> ScopeAfterWrite(stack[d].scopes[s], address, n)]
          /\ Len(r[d].scopes) = Len(stack[d].scopes)
      BY <1>5, TouchedNative DEF r
    <2>2. \A s \in 1 .. Len(stack[d].scopes) : stack[d].scopes[s] \in Scope
      BY <1>5, ScopeIs
    <2>3. ASSUME NEW s \in 1 .. Len(stack[d].scopes)
          PROVE  /\ r[d].scopes[s].hea = stack[d].scopes[s].hea
                 /\ r[d].scopes[s].stk = stack[d].scopes[s].stk
                 /\ r[d].scopes[s].blocks = {AfterWrite(b, address, n) : b \in stack[d].scopes[s].blocks}
      <3>1. r[d].scopes[s] = ScopeAfterWrite(stack[d].scopes[s], address, n)
        BY <2>1
      <3>2. stack[d].scopes[s] \in Scope
        BY <2>2
      <3>3. QED
        BY <3>1, <3>2, ScopeAfterWriteIs
    <2>4. QED
      BY <2>1, <2>3
  <1>6. Alike(stack, r)
    <2>1. \A d \in 1 .. Len(stack) : stack[d].fn = "public" => r[d] = stack[d]
      BY TouchedPublic DEF r
    <2>2. QED
      BY <1>2, <1>3, <1>5, <2>1 DEF Alike
  <1>7. ASSUME NEW d, NEW s, NEW b, BlockAt(r, d, s, b)
        PROVE  \E a : BlockAt(stack, d, s, a) /\ b = AfterWrite(a, address, n)
    <2>1. d \in 1 .. Len(stack) /\ stack[d].fn = "native" /\ b \in r[d].scopes[s].blocks
          /\ s \in 1 .. Len(r[d].scopes)
      BY <1>7, <1>2, <1>3 DEF BlockAt
    <2>2. s \in 1 .. Len(stack[d].scopes) /\ b \in {AfterWrite(a, address, n) : a \in stack[d].scopes[s].blocks}
      BY <2>1, <1>5
    <2>3. QED
      BY <2>1, <2>2 DEF BlockAt
  <1>8. QED
    BY <1>4, <1>6, <1>7 DEF r

LEMMA Written ==
  ASSUME IInv, NEW address \in CellAddress, NEW n \in Nat,
         NEW cells, Len(cells) \in Nat, Len(cells) <= n
  PROVE  LET r == Touched(address, n)
             m == Overwritten(address, cells)
         IN Shape(r, hea, stk) /\ Bottom(r, hea, stk) /\ BlocksInv(r, hea, m) /\ Passes(r, m)
  <1> DEFINE r == Touched(address, n)
             m == Overwritten(address, cells)
  <1>1. /\ Shape(stack, hea, stk) /\ Bottom(stack, hea, stk)
        /\ BlocksInv(stack, hea, memory) /\ Passes(stack, memory)
    BY DEF IInv
  <1>2. /\ Shape(r, hea, stk) /\ Alike(stack, r)
        /\ \A d, s, b : BlockAt(r, d, s, b) =>
             \E a : BlockAt(stack, d, s, a) /\ b = AfterWrite(a, address, n)
    BY <1>1, TouchedIs
  <1>3. hea \in Nat /\ hea <= Stp
    BY <1>1, HeapIs DEF Shape
  <1>4. ASSUME NEW a \in CellAddress, NEW c \in Nat, a + 4 * c <= Stp,
               ~(a < address + 4 * n /\ address < a + 4 * c)
        PROVE  Cells(m, a, c) = Cells(memory, a, c)
    BY <1>4, CellsApart
  <1> HIDE DEF m
  <1>5. Kept(stack, r, memory, m)
    <2> SUFFICES ASSUME NEW d, NEW s, NEW b, BlockAt(r, d, s, b)
                 PROVE  \E a : BlockAt(stack, d, s, a) /\ Survives(a, b, memory, m)
      BY DEF Kept
    <2>1. PICK a : BlockAt(stack, d, s, a) /\ b = AfterWrite(a, address, n)
      BY <1>2
    <2>2. a \in Block /\ a.address \in Heap /\ a.cells \in Nat /\ End(a) <= hea
      BY <1>1, <2>1, BlockIs DEF BlocksInv, Placed
    <2>3. /\ b.address = a.address /\ b.cells = a.cells /\ b.text = a.text
          /\ b.untouched => a.untouched /\ ~Overlap(a, address, n)
      BY <2>1, <2>2, AfterWriteIs
    <2>4. a.address \in CellAddress /\ a.address \in Nat /\ a.address + 4 * a.cells <= Stp
      <3>1. a.address \in CellAddress /\ a.address \in Nat
        BY <2>2, HeapIs DEF Heap
      <3>2. QED
        BY <3>1, <2>2, <1>3, ScriptMemoryAssumption DEF End
    <2>5. ~Overlap(a, address, n) => Cells(m, a.address, a.cells) = Cells(memory, a.address, a.cells)
      BY <2>2, <2>4, <1>4 DEF Overlap
    <2>6. QED
      BY <2>1, <2>3, <2>5 DEF Survives
  <1>6. BlocksInv(r, hea, m)
    <2>1. \A d, s, b : BlockAt(stack, d, s, b) => End(b) <= hea
      BY <1>1 DEF BlocksInv, Placed
    <2>2. \A e, t, a : MarkAt(r, e, t, a) => MarkAt(stack, e, t, a)
      BY <1>1, <1>2, AlikeMarks
    <2> HIDE DEF r
    <2>3. QED
      BY <1>1, <1>2, <1>5, <2>1, <2>2, BlocksStay
  <1>7. Bottom(r, hea, stk)
    BY <1>1, <1>2, BottomAlike
  <1>8. Passes(r, m)
    <2> SUFFICES ASSUME NEW d \in 1 .. Len(r), r[d].fn = "native", r[d].argument.type = "string",
                        r[d].argument.untouched
                 PROVE  SaysIt(r[d].argument, m)
      BY DEF Passes, SaysIt
    <2>1. d \in 1 .. Len(stack) /\ stack[d].fn = "native"
      BY <1>2 DEF Alike
    <2> DEFINE old == stack[d].argument
               new == r[d].argument
    <2>2. /\ Unread(old) => new = AfterWrite(old, address, n)
          /\ ~Unread(old) => new = old
      <3>1. Shape(stack, hea, stk)
        BY <1>1
      <3>2. QED
        BY <2>1, <3>1, TouchedArgument
    <2>3. IsNative(stack[d])
      BY <1>1, <2>1, FrameIs
    <2>4. CASE Unread(old)
      <3>1. IsString(old)
        BY <2>3, <2>4 DEF Unread, IsNative, NoArgument, ArrayArgument
      <3>2. new = AfterWrite(old, address, n)
        BY <2>2, <2>4
      <3>3. SaysIt(old, memory)
        BY <1>1, <2>1, <2>4 DEF Passes, Unread
      <3> HIDE DEF old, new
      <3>4. /\ new.address = old.address /\ new.cells = old.cells /\ new.len = old.len
            /\ new.decoded = old.decoded /\ new.said = old.said
            /\ new.untouched = (old.untouched /\ ~Overlap(old, address, n))
        BY <3>1, <3>2 DEF IsString, AfterWrite
      <3>5. old.untouched /\ ~Overlap(old, address, n)
        BY <3>4 DEF new
      <3>6. Cells(m, old.address, old.cells) = Cells(memory, old.address, old.cells)
        BY <3>1, <3>5, <1>4 DEF IsString, Overlap
      <3>7. SaysIt(new, m)
        BY <2>4, <3>3, <3>4, <3>5, <3>6 DEF SaysIt, Unread, old
      <3>8. QED
        BY <3>7 DEF new
    <2>5. CASE ~Unread(old)
      <3>1. new = old
        BY <2>2, <2>5
      <3>2. old.type = "string" /\ old.decoded # <<>>
        BY <3>1, <2>5 DEF Unread
      <3>3. SaysIt(old, memory)
        BY <1>1, <2>1, <3>2 DEF Passes
      <3> HIDE DEF old, new
      <3>4. SaysIt(new, m)
        BY <3>1, <3>2, <3>3 DEF SaysIt
      <3>5. QED
        BY <3>4 DEF new
    <2>6. QED
      BY <2>4, <2>5
  <1>9. QED
    BY <1>2, <1>6, <1>7, <1>8 DEF m

(***************************************************************************)
(* Allotting.                                                              *)
(***************************************************************************)

\* A block at the top of the heap is under every mark and apart from the rest.
LEMMA BlockAdded ==
  ASSUME NEW q, NEW h, NEW k, NEW m, Shape(q, h, k), Bottom(q, h, k), BlocksInv(q, h, m), Passes(q, m),
         q[Len(q)].fn = "native", q[Len(q)].scopes # <<>>,
         NEW new \in Block, new.address = h, HoldsText(new, m), NEW h2 \in Heap, h2 = End(new)
  PROVE  LET r == [q EXCEPT ![Len(q)].scopes[Len(q[Len(q)].scopes)].blocks = @ \cup {new}]
         IN Shape(r, h2, k) /\ Bottom(r, h2, k) /\ BlocksInv(r, h2, m) /\ Passes(r, m)
  <1> DEFINE n == Len(q)
             top == q[n]
             l == Len(top.scopes)
             last == [top.scopes[l] EXCEPT !.blocks = top.scopes[l].blocks \cup {new}]
             f == [top EXCEPT !.scopes = [top.scopes EXCEPT ![l] = last]]
             r == [q EXCEPT ![n].scopes[l].blocks = @ \cup {new}]
  <1>1. n \in 1 .. Len(q) /\ IsNative(top) /\ n \in Nat \ {0}
    <2>1. n \in Nat \ {0} /\ n \in 1 .. Len(q)
      BY SeqIs DEF Shape
    <2>2. QED
      BY <2>1, FrameIs
  <1>2. top.scopes \in Seq(Scope) /\ l \in Nat \ {0} /\ l \in 1 .. l
    <2>1. top.scopes \in Seq(Scope) /\ top.scopes # <<>>
      BY <1>1 DEF IsNative
    <2>2. QED
      BY <2>1, EmptySeq
  <1>3. /\ h \in Heap /\ h \in Int /\ k \in Int /\ k <= Stp /\ h2 \in Int
        /\ h2 = h + 4 * new.cells /\ new.cells \in Nat /\ h <= h2
    <2>1. h \in Heap /\ h \in Int /\ k \in Int /\ k <= Stp /\ h2 \in Int
      BY HeapIs DEF Shape
    <2>2. new.cells \in Nat /\ h2 = h + 4 * new.cells
      BY DEF Block, End
    <2>3. QED
      BY <2>1, <2>2
  <1>4. /\ last \in Scope /\ last.hea = top.scopes[l].hea /\ last.stk = top.scopes[l].stk
        /\ last.blocks = top.scopes[l].blocks \cup {new}
    <2>1. top.scopes[l] \in Scope
      BY <1>2
    <2>2. top.scopes[l].blocks \in SUBSET Block /\ IsFiniteSet(top.scopes[l].blocks)
      BY <2>1 DEF Scope, Blockset
    <2>3. top.scopes[l].blocks \cup {new} \in Blockset
      BY <2>2, FS_AddElement DEF Blockset
    <2>4. QED
      BY <2>1, <2>3 DEF Scope
  <1>5. /\ f.scopes \in Seq(Scope) /\ Len(f.scopes) = l /\ f.scopes[l] = last
        /\ \A s \in 1 .. l : s # l => f.scopes[s] = top.scopes[s]
        /\ f.argument = top.argument /\ f.stk = top.stk /\ f.fn = "native"
        /\ DOMAIN f = DOMAIN top
    <2> HIDE DEF last
    <2>1. f.scopes = [top.scopes EXCEPT ![l] = last]
      BY <1>1 DEF IsNative
    <2>2. /\ [top.scopes EXCEPT ![l] = last] \in Seq(Scope)
          /\ Len([top.scopes EXCEPT ![l] = last]) = l
          /\ [top.scopes EXCEPT ![l] = last][l] = last
          /\ \A s \in 1 .. l : s # l => [top.scopes EXCEPT ![l] = last][s] = top.scopes[s]
      <3>1. l = Len(top.scopes)
        OBVIOUS
      <3> HIDE DEF top, l
      <3>2. QED
        BY <1>2, <1>4, <3>1
    <2>3. QED
      BY <1>1, <2>1, <2>2 DEF IsNative
  <1>6. IsNative(f)
    <2> HIDE DEF f, top
    <2>1. QED
      BY <1>1, <1>5 DEF IsNative
  <1>7. r = [q EXCEPT ![n] = f]
    OBVIOUS
  <1>8. n = Len(q) /\ top = q[n] /\ l = Len(top.scopes) /\ top.fn = "native"
    OBVIOUS
  <1> HIDE DEF f, r, last, top, l
  <1>9. Shape(r, h2, k) /\ LastBecomes(q, r, f)
    BY <1>3, <1>6, <1>7, NativeBecomes
  <1> HIDE DEF n
  <1>10. /\ Len(r) = n /\ r[n] = f
         /\ \A d \in 1 .. n : d # n => r[d] = q[d]
         /\ \A d, s, b : BlockAt(r, d, s, b) =>
              \/ d < n /\ BlockAt(q, d, s, b)
              \/ d = n /\ s \in 1 .. Len(f.scopes) /\ b \in f.scopes[s].blocks
         /\ \A e, t, a : MarkAt(r, e, t, a) =>
              \/ e < n /\ MarkAt(q, e, t, a)
              \/ e = n /\ t \in 1 .. Len(f.scopes) /\ a = f.scopes[t].hea
    BY <1>8, <1>9 DEF LastBecomes
  <1>11. Alike(q, r)
    <2>1. \A s \in 1 .. l : f.scopes[s].hea = top.scopes[s].hea /\ f.scopes[s].stk = top.scopes[s].stk
      BY <1>4, <1>5
    <2>2. QED
      BY <2>1, <1>5, <1>8, <1>10 DEF Alike
  <1>12. Bottom(r, h2, k)
    <2>1. Len(q) = 1 => Len(q[1].scopes) > 0
      BY <1>2, <1>8
    <2>2. QED
      BY <2>1, <1>3, <1>9, <1>11, BottomAlike
  <1>13. ASSUME NEW d, NEW s, NEW b, BlockAt(r, d, s, b)
         PROVE  BlockAt(q, d, s, b) \/ (d = n /\ s = l /\ b = new)
    <2>1. CASE d < n /\ BlockAt(q, d, s, b)
      BY <2>1
    <2>2. CASE d = n /\ s \in 1 .. Len(f.scopes) /\ b \in f.scopes[s].blocks
      <3>1. CASE s # l
        BY <2>2, <3>1, <1>1, <1>5, <1>8 DEF BlockAt
      <3>2. CASE s = l
        BY <2>2, <3>2, <1>1, <1>2, <1>4, <1>5, <1>8 DEF BlockAt
      <3>3. QED
        BY <3>1, <3>2
    <2>3. QED
      BY <1>10, <1>13, <2>1, <2>2
  <1>14. ASSUME NEW e, NEW t, NEW a, MarkAt(r, e, t, a)
         PROVE  MarkAt(q, e, t, a) /\ ~Before(n, l, e, t)
    <2>1. MarkAt(q, e, t, a)
      BY <1>11, <1>14, AlikeMarks
    <2>2. e < n \/ (e = n /\ t \in 1 .. l)
      BY <1>5, <1>10, <1>14
    <2>3. QED
      BY <2>1, <2>2, <1>1, <1>2, MarkIs DEF Before
  <1>15. \A d, s, b : BlockAt(q, d, s, b) => End(b) <= h /\ b.address <= h /\ End(b) \in Nat /\ b.address \in Nat
    <2> SUFFICES ASSUME NEW d, NEW s, NEW b, BlockAt(q, d, s, b)
                 PROVE  End(b) <= h /\ b.address <= h /\ End(b) \in Nat /\ b.address \in Nat
      OBVIOUS
    <2>1. b.address \in Nat /\ b.cells \in Nat /\ End(b) \in Nat
      BY BlockIs
    <2>2. End(b) <= h
      BY DEF BlocksInv, Placed
    <2>3. b.address <= End(b)
      BY <2>1 DEF End
    <2>4. QED
      BY <2>1, <2>2, <2>3, <1>3
  <1>16. Placed(r, h2)
    <2> SUFFICES ASSUME NEW d, NEW s, NEW b, BlockAt(r, d, s, b)
                 PROVE  End(b) <= h2
      BY DEF Placed
    <2>1. CASE BlockAt(q, d, s, b)
      BY <2>1, <1>3, <1>15
    <2>2. CASE b = new
      BY <2>2, <1>3
    <2>3. QED
      BY <1>13, <2>1, <2>2
  <1>17. Under(r)
    <2> SUFFICES ASSUME NEW d, NEW s, NEW b, BlockAt(r, d, s, b),
                        NEW e, NEW t, NEW a, MarkAt(r, e, t, a), Before(d, s, e, t)
                 PROVE  End(b) <= a
      BY DEF Under
    <2>1. MarkAt(q, e, t, a) /\ BlockAt(q, d, s, b)
      BY <1>13, <1>14
    <2>2. QED
      BY <2>1 DEF BlocksInv, Under
  <1>18. Apart(r)
    <2> SUFFICES ASSUME NEW d, NEW s, NEW b, BlockAt(r, d, s, b),
                        NEW e, NEW t, NEW o, BlockAt(r, e, t, o), o.address < b.address
                 PROVE  End(o) <= b.address
      BY DEF Apart
    <2>1. CASE BlockAt(q, d, s, b) /\ BlockAt(q, e, t, o)
      BY <2>1 DEF BlocksInv, Apart
    <2>2. CASE b = new /\ BlockAt(q, e, t, o)
      BY <2>2, <1>15
    <2>3. CASE o = new /\ BlockAt(q, d, s, b)
      BY <2>3, <1>3, <1>15
    <2>4. CASE o = new /\ b = new
      BY <2>4, <1>3
    <2>5. QED
      BY <1>13, <2>1, <2>2, <2>3, <2>4
  <1>19. Whole(r, m)
    BY <1>13 DEF BlocksInv, Whole
  <1>20. Passes(r, m)
    <2> SUFFICES ASSUME NEW d \in 1 .. Len(r), r[d].fn = "native", r[d].argument.type = "string"
                 PROVE  SaysIt(r[d].argument, m)
      BY DEF Passes
    <2>1. d \in 1 .. Len(q) /\ r[d].argument = q[d].argument /\ q[d].fn = "native"
      BY <1>5, <1>8, <1>10
    <2>2. QED
      BY <2>1 DEF Passes
  <1>21. QED
    BY <1>9, <1>12, <1>16, <1>17, <1>18, <1>19, <1>20 DEF BlocksInv, r, n, top, l

(***************************************************************************)
(* The text of a string.                                                   *)
(***************************************************************************)

\* What Pawn reads, where the first zero byte, or cell, is known.
LEMMA PackedText ==
  ASSUME NEW cells, Len(cells) \in Nat, cells[1][1] # 0,
         NEW len \in Nat, len < 4 * Len(cells),
         ByteOf(cells, len + 1) = 0, \A j \in 1 .. len : ByteOf(cells, j) # 0
  PROVE  PawnText(cells) = [i \in 1 .. len |-> ByteOf(cells, i)]
  <1> DEFINE limit == 4 * Len(cells)
             Q(n) == (n < limit => ByteOf(cells, n + 1) = 0) /\ \A j \in 1 .. n : ~(ByteOf(cells, j) = 0)
  <1>1. len \in 0 .. limit /\ Q(len)
    OBVIOUS
  <1>2. ASSUME NEW n \in 0 .. limit, Q(n)
        PROVE  n = len
    <2>1. CASE n < len
      <3>1. n + 1 \in 1 .. len /\ n < limit
        BY <2>1, <1>1
      <3>2. QED
        BY <3>1, <1>2
    <2>2. CASE len < n
      <3>1. len + 1 \in 1 .. n
        BY <2>2, <1>1
      <3>2. QED
        BY <3>1, <1>2
    <2>3. QED
      BY <2>1, <2>2, <1>1
  <1> HIDE DEF Q
  <1>3. (CHOOSE n \in 0 .. limit : Q(n)) = len
    BY <1>1, <1>2
  <1>4. PawnText(cells) = [i \in 1 .. (CHOOSE n \in 0 .. limit : Q(n)) |-> ByteOf(cells, i)]
    BY DEF PawnText, Q
  <1>5. QED
    BY <1>3, <1>4

LEMMA UnpackedText ==
  ASSUME NEW cells, Len(cells) \in Nat, cells[1][1] = 0,
         NEW len \in Nat, len < Len(cells),
         cells[len + 1] = NUL, \A j \in 1 .. len : cells[j] # NUL
  PROVE  PawnText(cells) = [i \in 1 .. len |-> cells[i][4]]
  <1> DEFINE limit == Len(cells)
             Q(n) == (n < limit => cells[n + 1] = NUL) /\ \A j \in 1 .. n : ~(cells[j] = NUL)
  <1>1. len \in 0 .. limit /\ Q(len)
    OBVIOUS
  <1>2. ASSUME NEW n \in 0 .. limit, Q(n)
        PROVE  n = len
    <2>1. CASE n < len
      <3>1. n + 1 \in 1 .. len /\ n < limit
        BY <2>1, <1>1
      <3>2. QED
        BY <3>1, <1>2
    <2>2. CASE len < n
      <3>1. len + 1 \in 1 .. n
        BY <2>2, <1>1
      <3>2. QED
        BY <3>1, <1>2
    <2>3. QED
      BY <2>1, <2>2, <1>1
  <1> HIDE DEF Q
  <1>3. (CHOOSE n \in 0 .. limit : Q(n)) = len
    BY <1>1, <1>2
  <1>4. PawnText(cells) = [i \in 1 .. (CHOOSE n \in 0 .. limit : Q(n)) |-> cells[i][4]]
    BY DEF PawnText, Q
  <1>5. QED
    BY <1>3, <1>4

\* A length is a number where there is one.
LEMMA LengthIs ==
  ASSUME NEW c, NEW n \in Nat \ {0}, Len(c) = n, BoundedStrlen(c) # NoEnd
  PROVE  BoundedStrlen(c) \in Nat
  <1> DEFINE zeros == {i \in 1 .. 4 * n : ByteOf(c, i) = 0}
             nuls == {i \in 1 .. n : c[i] = NUL}
             byte == FirstAt(4 * n, zeros)
             cell == FirstAt(n, nuls)
  <1>1. byte \in zeros \cup {4 * n + 1} /\ cell \in nuls \cup {n + 1}
    <2>1. 4 * n \in Nat /\ zeros \in SUBSET (1 .. 4 * n) /\ nuls \in SUBSET (1 .. n)
      OBVIOUS
    <2>2. QED
      BY <2>1, FirstAtIs
  <1>2. BoundedStrlen(c) = IF IsPacked(c[1]) THEN (IF byte > 4 * n THEN NoEnd ELSE byte - 1)
                           ELSE IF cell > n THEN NoEnd ELSE cell - 1
    BY DEF BoundedStrlen
  <1> HIDE DEF byte, cell
  <1>3. byte - 1 \in Nat /\ cell - 1 \in Nat
    BY <1>1
  <1>4. QED
    BY <1>2, <1>3

\* What is left to read of a string is what the script passed: the buffer of
\* from_raw is long enough, and to_bytes ends where the string does.
LEMMA StringIsText ==
  ASSUME NEW c, NEW n \in Nat \ {0}, Len(c) = n,
         NEW len, len = BoundedStrlen(c), len # NoEnd,
         NEW m, m = IF len + 1 < n THEN len + 1 ELSE n,
         NEW p, Len(p) = m, p # <<>>, \A i \in 1 .. m : p[i] = c[i]
  PROVE  len \in Nat /\ m \in 1 .. n /\ ToBytes(p, len) = PawnText(c)
  <1> DEFINE zeros == {i \in 1 .. 4 * n : ByteOf(c, i) = 0}
             nuls == {i \in 1 .. n : c[i] = NUL}
  <1>1. CASE IsPacked(c[1])
    <2> DEFINE byte == FirstAt(4 * n, zeros)
    <2>1. 4 * n \in Nat /\ zeros \in SUBSET (1 .. 4 * n)
      OBVIOUS
    <2>2. byte \in zeros \cup {4 * n + 1} /\ \A j \in zeros : byte <= j
      BY <2>1, FirstAtIs
    <2>3. byte <= 4 * n /\ len = byte - 1
      <3>1. len = IF byte > 4 * n THEN NoEnd ELSE byte - 1
        BY <1>1 DEF BoundedStrlen
      <3>2. byte \in Int
        BY <2>2
      <3> HIDE DEF byte
      <3>3. QED
        BY <3>1, <3>2
    <2> HIDE DEF byte
    <2>4. byte \in zeros /\ byte \in 1 .. 4 * n
      BY <2>2, <2>3
    <2>5. /\ len \in Nat /\ len + 1 = byte /\ len < 4 * n /\ m \in 1 .. n
          /\ len + 1 \in 1 .. 4 * m
      BY <2>3, <2>4
    <2>6. ByteOf(c, len + 1) = 0 /\ \A j \in 1 .. len : ByteOf(c, j) # 0
      <3>1. \A j \in 1 .. len : j \in 1 .. 4 * n /\ ~(byte <= j)
        BY <2>5
      <3>2. QED
        BY <2>2, <2>4, <2>5, <3>1
    <2>7. PawnText(c) = [i \in 1 .. len |-> ByteOf(c, i)]
      BY <1>1, <2>5, <2>6, PackedText DEF IsPacked
    <2>8. ASSUME NEW i \in 1 .. 4 * m
          PROVE  ByteOf(p, i) = ByteOf(c, i)
      <3>1. ((i - 1) \div 4) + 1 \in 1 .. m
        BY <2>5
      <3>2. QED
        BY <3>1 DEF ByteOf
    <2> DEFINE ends == {i \in 1 .. 4 * m : ByteOf(p, i) = 0}
    <2>9. FirstAt(4 * m, ends) = len + 1
      <3>1. 4 * m \in Nat /\ ends \in SUBSET (1 .. 4 * m)
        BY <2>5
      <3>2. len + 1 \in ends
        BY <2>5, <2>6, <2>8
      <3>3. ASSUME NEW j \in ends
            PROVE  len + 1 <= j
        <4>1. j \in 1 .. 4 * m /\ j \in 1 .. 4 * n /\ ByteOf(c, j) = 0
          BY <2>5, <2>8
        <4>2. QED
          BY <4>1, <2>2, <2>5
      <3> HIDE DEF ends
      <3>4. QED
        BY <3>1, <3>2, <3>3, FirstAtIs
    <2>10. p[1] = c[1]
      BY <2>5
    <2>11. ToBytes(p, len) = [i \in 1 .. len |-> ByteOf(p, i)]
      <3>1. ToBytes(p, len) = [i \in 1 .. IF FirstAt(4 * m, ends) - 1 < len
                                          THEN FirstAt(4 * m, ends) - 1 ELSE len |-> ByteOf(p, i)]
        BY <1>1, <2>10 DEF ToBytes
      <3>2. FirstAt(4 * m, ends) - 1 = len
        BY <2>9, <2>5
      <3>3. QED
        BY <3>1, <3>2
    <2>12. \A i \in 1 .. len : ByteOf(p, i) = ByteOf(c, i)
      BY <2>5, <2>8
    <2>13. QED
      BY <2>5, <2>7, <2>11, <2>12
  <1>2. CASE ~IsPacked(c[1])
    <2> DEFINE cell == FirstAt(n, nuls)
    <2>1. n \in Nat /\ nuls \in SUBSET (1 .. n)
      OBVIOUS
    <2>2. cell \in nuls \cup {n + 1} /\ \A j \in nuls : cell <= j
      BY <2>1, FirstAtIs
    <2>3. cell <= n /\ len = cell - 1
      <3>1. len = IF cell > n THEN NoEnd ELSE cell - 1
        BY <1>2 DEF BoundedStrlen
      <3>2. cell \in Int
        BY <2>2
      <3> HIDE DEF cell
      <3>3. QED
        BY <3>1, <3>2
    <2> HIDE DEF cell
    <2>4. cell \in nuls /\ cell \in 1 .. n
      BY <2>2, <2>3
    <2>5. len \in Nat /\ len + 1 = cell /\ len < n /\ m = len + 1 /\ m \in 1 .. n
      BY <2>3, <2>4
    <2>6. c[len + 1] = NUL /\ \A j \in 1 .. len : c[j] # NUL
      <3>1. \A j \in 1 .. len : j \in 1 .. n /\ ~(cell <= j)
        BY <2>5
      <3>2. QED
        BY <2>2, <2>4, <2>5, <3>1
    <2>7. PawnText(c) = [i \in 1 .. len |-> c[i][4]]
      BY <1>2, <2>5, <2>6, UnpackedText DEF IsPacked
    <2>8. p[1] = c[1] /\ \A i \in 1 .. len : p[i] = c[i]
      BY <2>5
    <2>9. ToBytes(p, len) = [i \in 1 .. len |-> p[i][4]]
      <3>1. ToBytes(p, len) = [i \in 1 .. IF len < Len(p) THEN len ELSE Len(p) |-> p[i][4]]
        BY <1>2, <2>8 DEF ToBytes
      <3>2. QED
        BY <3>1, <2>5
    <2>10. QED
      BY <2>5, <2>7, <2>8, <2>9
  <1>3. QED
    BY <1>1, <1>2

(***************************************************************************)
(* The invariant is one.                                                   *)
(***************************************************************************)

LEMMA InitIInv == Init => IInv
  <1> SUFFICES ASSUME Init
               PROVE  IInv
    OBVIOUS
  <1> DEFINE frame == [fn |-> "native", argument |-> NoArgument, scopes |-> <<>>, stk |-> Stp]
  <1>1. stack = <<frame>> /\ hea = Hlw /\ stk = Stp
    BY DEF Init, NativeFrame
  <1>2. IsNative(frame) /\ frame.scopes = <<>> /\ frame.fn = "native" /\ frame.argument.type = "none"
    <2>1. <<>> \in Seq(Scope)
      OBVIOUS
    <2>2. QED
      BY <2>1, ScriptMemoryAssumption DEF IsNative, NoArgument
  <1> HIDE DEF frame
  <1>3. IsSeq(stack) /\ Len(stack) = 1 /\ stack[1] = frame
    <2>1. stack \in Seq({frame}) /\ Len(stack) = 1 /\ stack[1] = frame
      BY <1>1
    <2>2. DOMAIN stack = 1 .. 1 /\ stack = [i \in 1 .. 1 |-> stack[i]] /\ 1 \in Nat
      BY <2>1
    <2>3. QED
      BY <2>1, <2>2, FunctionIsSeq
  <1>4. hea \in Heap
    BY <1>1, ScriptMemoryAssumption DEF Heap, CellAddress
  <1>5. Shape(stack, hea, stk)
    <2>1. \A d \in 1 .. Len(stack) : stack[d] = frame
      BY <1>3
    <2>2. QED
      BY <1>1, <1>2, <1>3, <1>4, <2>1, ScriptMemoryAssumption DEF Shape
  <1>6. Bottom(stack, hea, stk)
    <2>1. Len(stack[1].scopes) = 0 /\ stack[1].fn = "native"
      BY <1>2, <1>3
    <2>2. QED
      BY <1>1, <1>3, <2>1 DEF Bottom
  <1>7. \A d, s, b : ~BlockAt(stack, d, s, b)
    <2>1. \A d \in 1 .. Len(stack) : Len(stack[d].scopes) = 0
      BY <1>2, <1>3
    <2>2. QED
      BY <2>1 DEF BlockAt
  <1>8. BlocksInv(stack, hea, memory)
    BY <1>7 DEF BlocksInv, Placed, Under, Apart, Whole
  <1>9. Passes(stack, memory)
    BY <1>2, <1>3 DEF Passes
  <1>10. QED
    BY <1>5, <1>6, <1>8, <1>9 DEF IInv

LEMMA TopIs ==
  ASSUME IInv
  PROVE  /\ Len(stack) \in Nat \ {0} /\ Len(stack) \in 1 .. Len(stack)
         /\ Top.fn = "native" => IsNative(Top)
         /\ Top.fn = "public" => IsPublic(Top) /\ Len(stack) > 1
         /\ hea \in Heap /\ hea \in Nat /\ hea <= Stp /\ stk \in Int /\ stk <= Stp
  <1>1. Shape(stack, hea, stk) /\ Bottom(stack, hea, stk)
    BY DEF IInv
  <1>2. Len(stack) \in Nat \ {0} /\ Len(stack) \in 1 .. Len(stack)
    BY <1>1, SeqIs DEF Shape
  <1>3. /\ Top.fn = "native" => IsNative(Top)
        /\ Top.fn = "public" => IsPublic(Top)
    BY <1>1, <1>2, FrameIs DEF Top
  <1>4. Top.fn = "public" => Len(stack) > 1
    <2>1. Top.fn = "public" => Len(stack) # 1
      BY <1>1 DEF Top, Bottom
    <2>2. QED
      BY <1>2, <2>1
  <1>5. hea \in Heap /\ hea \in Nat /\ hea <= Stp /\ stk \in Int /\ stk <= Stp
    BY <1>1, HeapIs DEF Shape
  <1>6. QED
    BY <1>2, <1>3, <1>4, <1>5

LEMMA OpenScopeStep == IInv /\ OpenScope => IInv'
  <1> SUFFICES ASSUME IInv, OpenScope
               PROVE  IInv'
    OBVIOUS
  <1>1. /\ Shape(stack, hea, stk) /\ Bottom(stack, hea, stk)
        /\ BlocksInv(stack, hea, memory) /\ Passes(stack, memory)
    BY DEF IInv
  <1>2. /\ stack[Len(stack)].fn = "native" /\ hea' = hea /\ stk' = stk /\ memory' = memory
        /\ stack' = [stack EXCEPT ![Len(stack)] =
             [stack[Len(stack)] EXCEPT !.scopes =
               Append(stack[Len(stack)].scopes, [hea |-> hea, stk |-> stk, blocks |-> {}])]]
    BY DEF OpenScope, WithTop, Top
  <1>3. /\ Shape(stack', hea, stk) /\ Bottom(stack', hea, stk)
        /\ BlocksInv(stack', hea, memory) /\ Passes(stack', memory)
    BY <1>1, <1>2, ScopeOpened
  <1>4. QED
    BY <1>2, <1>3 DEF IInv

LEMMA DropScopeStep == IInv /\ DropScope => IInv'
  <1> SUFFICES ASSUME IInv, DropScope
               PROVE  IInv'
    OBVIOUS
  <1>1. /\ Shape(stack, hea, stk) /\ Bottom(stack, hea, stk)
        /\ BlocksInv(stack, hea, memory) /\ Passes(stack, memory)
    BY DEF IInv
  <1> DEFINE top == stack[Len(stack)]
             scope == top.scopes[Len(top.scopes)]
  <1>2. /\ top.fn = "native" /\ top.scopes # <<>> /\ memory' = memory
        /\ hea' = IF hea > scope.hea THEN scope.hea ELSE hea
        /\ stk' = IF scope.stk <= Stp /\ stk < scope.stk THEN scope.stk ELSE stk
        /\ stack' = [stack EXCEPT ![Len(stack)] =
             [top EXCEPT !.scopes = SubSeq(top.scopes, 1, Len(top.scopes) - 1)]]
    BY DEF DropScope, Release, LastScope, WithTop, Top
  <1>3. /\ Shape(stack', hea', stk') /\ Bottom(stack', hea', stk')
        /\ BlocksInv(stack', hea', memory) /\ Passes(stack', memory)
    BY <1>1, <1>2, ScopeDropped
  <1>4. QED
    BY <1>2, <1>3 DEF IInv

LEMMA AllotStringStep == ASSUME NEW text \in Texts PROVE IInv /\ AllotString(text) => IInv'
  <1> SUFFICES ASSUME IInv, AllotString(text)
               PROVE  IInv'
    OBVIOUS
  <1> DEFINE cells == Encoded(text)
             n == TextCells(text)
             q == Touched(hea, n)
             m == Overwritten(hea, cells)
             top == stack[Len(stack)]
             new == [address |-> hea, cells |-> n, text |-> text, untouched |-> TRUE]
  <1>1. text \in Seq(1 .. 255) /\ Len(text) \in Nat /\ n = Len(text) + 1 /\ n \in Nat
    BY ScriptMemoryAssumption DEF TextCells
  <1>2. /\ Len(cells) = n /\ Len(cells) \in Nat
        /\ cells = [i \in 1 .. Len(cells) |-> cells[i]]
    BY <1>1, EncodedIs
  <1>3. hea \in Heap /\ hea \in Nat /\ hea \in CellAddress /\ stk \in Int /\ stk <= Stp /\ hea % 4 = 0
    BY TopIs, HeapIs DEF Heap
  <1>4. hea + 4 * n <= Stp /\ hea + 4 * n \in Heap
    <2>1. hea + 4 * n + Margin <= stk
      BY DEF AllotString, Room
    <2>2. hea + 4 * n <= Stp
      <3>1. n \in Nat
        BY <1>1
      <3> HIDE DEF n
      <3>2. QED
        BY <2>1, <3>1, <1>3, ScriptMemoryAssumption
    <2>3. (hea + 4 * n) % 4 = 0 /\ hea + 4 * n \in Nat
      BY <1>1, <1>3, AlignedAfter
    <2>4. Hlw <= hea + 4 * n
      BY <1>1, <1>3, HeapIs, ScriptMemoryAssumption
    <2>5. QED
      BY <2>2, <2>3, <2>4, ScriptMemoryAssumption DEF Heap, CellAddress
  <1>5. /\ top.fn = "native" /\ top.scopes # <<>> /\ hea' = hea + 4 * n /\ stk' = stk /\ memory' = m
        /\ stack' = [q EXCEPT ![Len(stack)].scopes[Len(top.scopes)].blocks = @ \cup {new}]
    BY DEF AllotString, Top
  <1>6. Shape(q, hea, stk) /\ Bottom(q, hea, stk) /\ BlocksInv(q, hea, m) /\ Passes(q, m)
    BY <1>1, <1>2, <1>3, Written
  <1>7. Alike(stack, q) /\ Len(stack) \in 1 .. Len(stack)
    BY TopIs, TouchedIs DEF IInv
  <1>8. HoldsText(new, m) /\ new \in Block /\ new.address = hea /\ End(new) = hea + 4 * n
    <2>1. Cells(m, hea, Len(cells)) = cells
      BY <1>2, <1>3, <1>4, CellsWritten
    <2> HIDE DEF m, cells
    <2>2. HoldsText(new, m)
      BY <2>1, <1>1, <1>2 DEF HoldsText, cells
    <2>3. new \in Block
      BY <1>1, <1>3 DEF Block
    <2>4. QED
      BY <2>2, <2>3 DEF End
  <1> HIDE DEF q, m, new, cells, n
  <1>9. /\ Len(q) = Len(stack) /\ q[Len(q)].fn = "native"
        /\ Len(q[Len(q)].scopes) = Len(top.scopes) /\ q[Len(q)].scopes # <<>>
    <2>1. Len(q) = Len(stack) /\ q[Len(q)].fn = "native" /\ Len(q[Len(q)].scopes) = Len(top.scopes)
      BY <1>5, <1>7 DEF Alike
    <2>2. Len(top.scopes) # 0
      <3>1. top.scopes \in Seq(Scope)
        BY <1>5, TopIs DEF Top, IsNative
      <3>2. QED
        BY <3>1, <1>5, EmptySeq
    <2>3. QED
      BY <2>1, <2>2
  <1>10. stack' = [q EXCEPT ![Len(q)].scopes[Len(q[Len(q)].scopes)].blocks = @ \cup {new}]
    BY <1>5, <1>9
  <1>11. /\ Shape(stack', hea + 4 * n, stk) /\ Bottom(stack', hea + 4 * n, stk)
         /\ BlocksInv(stack', hea + 4 * n, m) /\ Passes(stack', m)
    BY <1>4, <1>6, <1>8, <1>9, <1>10, BlockAdded
  <1>12. QED
    BY <1>5, <1>11 DEF IInv

LEMMA AllotBufferStep == ASSUME NEW cells \in Nat PROVE IInv /\ AllotBuffer(cells) => IInv'
  <1> SUFFICES ASSUME IInv, AllotBuffer(cells)
               PROVE  IInv'
    OBVIOUS
  <1> DEFINE top == stack[Len(stack)]
             new == [address |-> hea, cells |-> cells, text |-> <<>>, untouched |-> FALSE]
  <1>1. hea \in Heap /\ hea \in Nat /\ hea \in CellAddress /\ stk \in Int /\ stk <= Stp /\ hea % 4 = 0
    BY TopIs, HeapIs DEF Heap
  <1>2. hea + 4 * cells \in Heap
    <2>1. hea + 4 * cells + Margin <= stk
      BY DEF AllotBuffer, Room
    <2>2. hea + 4 * cells <= Stp
      BY <2>1, <1>1, ScriptMemoryAssumption
    <2>3. (hea + 4 * cells) % 4 = 0 /\ hea + 4 * cells \in Nat
      BY <1>1, AlignedAfter
    <2>4. Hlw <= hea + 4 * cells
      BY <1>1, HeapIs, ScriptMemoryAssumption
    <2>5. QED
      BY <2>2, <2>3, <2>4, ScriptMemoryAssumption DEF Heap, CellAddress
  <1>3. /\ top.fn = "native" /\ top.scopes # <<>> /\ hea' = hea + 4 * cells /\ stk' = stk /\ memory' = memory
        /\ stack' = [stack EXCEPT ![Len(stack)].scopes[Len(top.scopes)].blocks = @ \cup {new}]
    BY DEF AllotBuffer, Top
  <1>4. /\ Shape(stack, hea, stk) /\ Bottom(stack, hea, stk)
        /\ BlocksInv(stack, hea, memory) /\ Passes(stack, memory)
    BY DEF IInv
  <1>5. HoldsText(new, memory) /\ new \in Block /\ new.address = hea /\ End(new) = hea + 4 * cells
    <2>1. <<>> \in Seq(1 .. 255)
      OBVIOUS
    <2>2. QED
      BY <2>1, <1>1 DEF HoldsText, Block, End
  <1> HIDE DEF new
  <1>6. /\ Shape(stack', hea + 4 * cells, stk) /\ Bottom(stack', hea + 4 * cells, stk)
        /\ BlocksInv(stack', hea + 4 * cells, memory) /\ Passes(stack', memory)
    BY <1>2, <1>3, <1>4, <1>5, BlockAdded
  <1>7. QED
    BY <1>3, <1>6 DEF IInv

LEMMA ExecStep ==
  ASSUME NEW blocks \in SUBSET UNION {Top.scopes[s].blocks : s \in DOMAIN Top.scopes}
  PROVE  IInv /\ Exec(blocks) => IInv'
  <1> SUFFICES ASSUME IInv, Exec(blocks)
               PROVE  IInv'
    OBVIOUS
  <1> DEFINE arrays == {[address |-> b.address, cells |-> b.cells] : b \in blocks}
             f == [fn |-> "public", arrays |-> {Globals} \cup arrays, stk |-> stk, hea |-> hea]
             k == stk - 4 * (Cardinality(blocks) + 1)
  <1>1. /\ Top.fn = "native" /\ hea' = hea /\ stk' = k /\ memory' = memory
        /\ stack' = Append(stack, f)
    BY DEF Exec, PublicFrame
  <1>2. hea \in Heap /\ hea \in Nat /\ stk \in Int /\ stk <= Stp /\ IsNative(Top)
    BY <1>1, TopIs
  <1>3. blocks \in SUBSET Block /\ IsFiniteSet(blocks)
    <2> DEFINE S == DOMAIN Top.scopes
               g == [s \in S |-> Top.scopes[s].blocks]
               B == {Top.scopes[s].blocks : s \in S}
    <2>1. Top.scopes \in Seq(Scope) /\ S = 1 .. Len(Top.scopes) /\ Len(Top.scopes) \in Nat
      BY <1>2 DEF IsNative
    <2>2. IsFiniteSet(S)
      BY <2>1, FS_Interval
    <2>3. \A b \in B : b \in SUBSET Block /\ IsFiniteSet(b)
      <3>1. \A s \in S : Top.scopes[s] \in Scope
        BY <2>1
      <3>2. \A x \in Scope : x.blocks \in SUBSET Block /\ IsFiniteSet(x.blocks)
        BY DEF Scope, Blockset
      <3>3. QED
        BY <3>1, <3>2
    <2>4. IsFiniteSet(B)
      <3>1. g \in Surjection(S, B)
        BY DEF Surjection
      <3> HIDE DEF g, B, S
      <3>2. QED
        BY <2>2, <3>1, FS_Surjection
    <2>5. IsFiniteSet(UNION B)
      <3> HIDE DEF B
      <3>1. QED
        BY <2>3, <2>4, FS_UNION
    <2>6. blocks \subseteq UNION B
      OBVIOUS
    <2> HIDE DEF B
    <2>7. QED
      BY <2>3, <2>5, <2>6, FS_Subset
  <1>4. k \in Int /\ k <= Stp
    <2>1. Cardinality(blocks) \in Nat
      BY <1>3, FS_CardinalityType
    <2>2. QED
      BY <2>1, <1>2, ScriptMemoryAssumption
  <1>5. IsPublic(f) /\ f.hea = hea /\ f.stk = stk
    <2>1. Globals \in Array
      <3>1. Hlw \div 4 \in Nat /\ 0 \in CellAddress
        BY ScriptMemoryAssumption, Aligned DEF CellAddress
      <3>2. QED
        BY <3>1 DEF Globals, Array
    <2>2. arrays \in SUBSET Array
      <3>1. \A b \in Block : b.address \in CellAddress /\ b.cells \in Nat
        BY DEF Block, Heap
      <3>2. QED
        BY <1>3, <3>1 DEF Array
    <2>3. {Globals} \cup arrays \in SUBSET Array
      BY <2>1, <2>2
    <2> HIDE DEF arrays
    <2>4. QED
      BY <1>2, <2>3 DEF IsPublic
  <1> HIDE DEF f, k
  <1>6. /\ Shape(stack, hea, stk) /\ Bottom(stack, hea, stk)
        /\ BlocksInv(stack, hea, memory) /\ Passes(stack, memory)
    BY DEF IInv
  <1>7. /\ Shape(Append(stack, f), hea, k) /\ Bottom(Append(stack, f), hea, k)
        /\ BlocksInv(Append(stack, f), hea, memory) /\ Passes(Append(stack, f), memory)
    BY <1>4, <1>5, <1>6, CallMade
  <1>8. QED
    BY <1>1, <1>7 DEF IInv

LEMMA PublicReturnsStep == IInv /\ PublicReturns => IInv'
  <1> SUFFICES ASSUME IInv, PublicReturns
               PROVE  IInv'
    OBVIOUS
  <1>1. /\ stack[Len(stack)].fn = "public" /\ hea' = stack[Len(stack)].hea /\ stk' = stack[Len(stack)].stk
        /\ memory' = memory /\ stack' = SubSeq(stack, 1, Len(stack) - 1) /\ Len(stack) > 1
    BY TopIs DEF PublicReturns, Top
  <1>2. /\ Shape(stack, hea, stk) /\ Bottom(stack, hea, stk)
        /\ BlocksInv(stack, hea, memory) /\ Passes(stack, memory)
    BY DEF IInv
  <1>3. hea' = IF stack[Len(stack)].fn = "public" THEN stack[Len(stack)].hea ELSE hea
    BY <1>1
  <1>4. /\ Shape(stack', hea', stk') /\ Bottom(stack', hea', stk')
        /\ BlocksInv(stack', hea', memory) /\ Passes(stack', memory)
    BY <1>1, <1>2, <1>3, CallEnds
  <1>5. QED
    BY <1>1, <1>4 DEF IInv

LEMMA NativeReturnsStep == IInv /\ NativeReturns => IInv'
  <1> SUFFICES ASSUME IInv, NativeReturns
               PROVE  IInv'
    OBVIOUS
  <1>1. /\ stack[Len(stack)].fn = "native" /\ hea' = hea /\ stk' = stack[Len(stack)].stk
        /\ memory' = memory /\ stack' = SubSeq(stack, 1, Len(stack) - 1) /\ Len(stack) > 1
    BY DEF NativeReturns, Top
  <1>2. /\ Shape(stack, hea, stk) /\ Bottom(stack, hea, stk)
        /\ BlocksInv(stack, hea, memory) /\ Passes(stack, memory)
    BY DEF IInv
  <1>3. hea' = IF stack[Len(stack)].fn = "public" THEN stack[Len(stack)].hea ELSE hea
    BY <1>1
  <1>4. /\ Shape(stack', hea', stk') /\ Bottom(stack', hea', stk')
        /\ BlocksInv(stack', hea', memory) /\ Passes(stack', memory)
    BY <1>1, <1>2, <1>3, CallEnds
  <1>5. QED
    BY <1>1, <1>4 DEF IInv

\* A native is called with an argument that is what it should be.
LEMMA CallNativeStep ==
  ASSUME NEW argument,
         argument \in ArrayArgument \/ IsString(argument),
         argument.type = "string" => SaysIt(argument, memory)
  PROVE  IInv /\ Top.fn = "public" /\ CallNative(argument) => IInv'
  <1> SUFFICES ASSUME IInv, Top.fn = "public", CallNative(argument)
               PROVE  IInv'
    OBVIOUS
  <1> DEFINE f == [fn |-> "native", argument |-> argument, scopes |-> <<>>, stk |-> stk]
  <1>1. hea' = hea /\ stk' = stk - 8 /\ memory' = memory /\ stack' = Append(stack, f)
    BY DEF CallNative, NativeFrame
  <1>2. /\ stk \in Int /\ stk <= Stp /\ Len(stack) > 1 /\ stk - 8 \in Int /\ stk - 8 <= Stp
    <2>1. stk \in Int /\ stk <= Stp /\ Len(stack) > 1
      BY TopIs
    <2>2. QED
      BY <2>1, ScriptMemoryAssumption
  <1>3. /\ IsNative(f) /\ f.scopes = <<>>
        /\ f.argument.type = "string" => SaysIt(f.argument, memory)
    <2>1. <<>> \in Seq(Scope)
      OBVIOUS
    <2>2. IsNative(f)
      BY <1>2, <2>1 DEF IsNative
    <2>3. QED
      BY <2>2
  <1> HIDE DEF f
  <1>4. /\ Shape(stack, hea, stk) /\ Bottom(stack, hea, stk)
        /\ BlocksInv(stack, hea, memory) /\ Passes(stack, memory)
    BY DEF IInv
  <1>5. /\ Shape(Append(stack, f), hea, stk - 8) /\ Bottom(Append(stack, f), hea, stk - 8)
        /\ BlocksInv(Append(stack, f), hea, memory) /\ Passes(Append(stack, f), memory)
    BY <1>2, <1>3, <1>4, CallMade
  <1>6. QED
    BY <1>1, <1>5 DEF IInv

\* From an address that get_ref allows there is a cell to the top of the stack.
LEMMA GetRefIs ==
  ASSUME NEW address, GetRef(address)
  PROVE  /\ address \in CellAddress /\ address \in Nat
         /\ MaxCells(address) \in Nat \ {0} /\ address + 4 * MaxCells(address) <= Stp
  <1>1. address \in Nat /\ address % 4 = 0 /\ address < Stp /\ Stp \in Nat /\ Stp % 4 = 0
    BY ScriptMemoryAssumption DEF GetRef
  <1>2. /\ address = 4 * (address \div 4) /\ address \div 4 \in Nat
        /\ Stp = 4 * (Stp \div 4) /\ Stp \div 4 \in Nat
    BY <1>1, Aligned
  <1> DEFINE t == address \div 4
             e == Stp \div 4
  <1> HIDE DEF t, e
  <1>3. t \in Nat /\ e \in Nat /\ address = 4 * t /\ Stp = 4 * e
    BY <1>2 DEF t, e
  <1>4. (4 * e - 4 * t) \div 4 = e - t
    BY <1>3
  <1>5. MaxCells(address) = e - t
    BY <1>3, <1>4 DEF MaxCells
  <1>6. QED
    BY <1>1, <1>3, <1>5 DEF CellAddress

LEMMA CellsAre ==
  ASSUME NEW m, NEW address, NEW n \in Nat
  PROVE  /\ Len(Cells(m, address, n)) = n
         /\ n > 0 => Cells(m, address, n) # <<>>
         /\ \A i \in 1 .. n : Cells(m, address, n)[i] = m[address \div 4 + i - 1]
  <1> DEFINE r == Cells(m, address, n)
  <1>1. DOMAIN r = 1 .. n /\ r = [i \in 1 .. n |-> r[i]]
        /\ \A i \in 1 .. n : r[i] = m[address \div 4 + i - 1]
    BY DEF Cells
  <1> HIDE DEF r
  <1>2. Len(r) = n
    BY <1>1, FunctionIsSeq
  <1>3. n > 0 => r # <<>>
    BY <1>2
  <1>4. QED
    BY <1>1, <1>2, <1>3 DEF r

LEMMA PassStringStep == ASSUME NEW address PROVE IInv /\ PassString(address) => IInv'
  <1> SUFFICES ASSUME IInv, PassString(address)
               PROVE  IInv'
    OBVIOUS
  <1> DEFINE n == MaxCells(address)
             c == Cells(memory, address, n)
             len == BoundedStrlen(c)
             m == IntoSizedBuffer(address, len + 1)
             p == Cells(memory, address, m)
             string == StringAt(address, len)
  <1>1. Top.fn = "public" /\ GetRef(address) /\ len # NoEnd /\ CallNative(string)
    BY DEF PassString
  <1>2. address \in CellAddress /\ address \in Nat /\ n \in Nat \ {0} /\ address + 4 * n <= Stp
    BY <1>1, GetRefIs
  <1>3. Len(c) = n /\ \A i \in 1 .. n : c[i] = memory[address \div 4 + i - 1]
    BY <1>2, CellsAre
  <1>4. m = IF len + 1 < n THEN len + 1 ELSE n
    BY DEF IntoSizedBuffer
  <1> HIDE DEF n, c, len
  <1>5. len \in Nat /\ m \in 1 .. n
    <2>1. len \in Nat
      BY <1>1, <1>2, <1>3, LengthIs DEF len
    <2> HIDE DEF m
    <2>2. QED
      BY <2>1, <1>2, <1>4
  <1> HIDE DEF m
  <1>6. /\ Len(p) = m /\ p # <<>> /\ \A i \in 1 .. m : p[i] = c[i]
    <2>1. m \in Nat /\ m > 0 /\ \A i \in 1 .. m : i \in 1 .. n
      BY <1>2, <1>5
    <2>2. Len(p) = m /\ p # <<>> /\ \A i \in 1 .. m : p[i] = memory[address \div 4 + i - 1]
      BY <2>1, CellsAre
    <2>3. QED
      BY <1>3, <2>1, <2>2
  <1> HIDE DEF p
  <1>7. ToBytes(p, len) = PawnText(c)
    BY <1>1, <1>2, <1>3, <1>4, <1>6, StringIsText DEF len
  <1>8. /\ IsString(string)
        /\ SaysIt(string, memory)
    <2>1. /\ string = [type |-> "string", address |-> address, len |-> len, cells |-> m,
                       decoded |-> <<>>, said |-> PawnText(c), untouched |-> TRUE]
      BY DEF StringAt, m, c, n
    <2> HIDE DEF string
    <2>2. /\ string.type = "string" /\ string.address = address /\ string.len = len /\ string.cells = m
          /\ string.decoded = <<>> /\ string.said = PawnText(c) /\ string.untouched = TRUE
          /\ DOMAIN string = {"type", "address", "len", "cells", "decoded", "said", "untouched"}
      BY <2>1
    <2>3. m \in Nat /\ address + 4 * m <= Stp
      BY <1>2, <1>5, ScriptMemoryAssumption
    <2>4. IsString(string)
      BY <1>2, <2>2, <2>3 DEF IsString
    <2>5. SaysIt(string, memory)
      BY <1>7, <2>2 DEF SaysIt, p
    <2>6. QED
      BY <2>4, <2>5
  <1> HIDE DEF string
  <1>9. QED
    BY <1>1, <1>8, CallNativeStep

LEMMA PassArrayStep == ASSUME NEW array \in Top.arrays PROVE IInv /\ PassArray(array) => IInv'
  <1> SUFFICES ASSUME IInv, PassArray(array)
               PROVE  IInv'
    OBVIOUS
  <1>1. Top.fn = "public" /\ GetRef(array.address) /\ CallNative(ArrayAt(array))
    BY DEF PassArray
  <1>2. IsPublic(Top)
    BY <1>1, TopIs
  <1>3. array.address \in CellAddress /\ array.cells \in Nat
    BY <1>2 DEF IsPublic, Array
  <1>4. MaxCells(array.address) \in Nat
    BY <1>1, GetRefIs
  <1>5. ArrayAt(array) \in ArrayArgument /\ ArrayAt(array).type = "array"
    <2>1. IntoSizedBuffer(array.address, array.cells) \in Nat
      BY <1>3, <1>4 DEF IntoSizedBuffer
    <2>2. QED
      BY <1>3, <2>1 DEF ArrayAt, ArrayArgument
  <1>6. QED
    BY <1>1, <1>5, CallNativeStep

LEMMA DecodeStep == IInv /\ Decode => IInv'
  <1> SUFFICES ASSUME IInv, Decode
               PROVE  IInv'
    OBVIOUS
  <1> DEFINE top == stack[Len(stack)]
             old == top.argument
             text == ToBytes(Cells(memory, old.address, old.cells), old.len)
             new == [old EXCEPT !.decoded = <<text>>]
             f == [top EXCEPT !.argument = new]
  <1>1. /\ top.fn = "native" /\ old.type = "string" /\ old.decoded = <<>>
        /\ hea' = hea /\ stk' = stk /\ memory' = memory
        /\ stack' = [stack EXCEPT ![Len(stack)] = f]
    BY DEF Decode, WithTop, Top
  <1>2. IsNative(top)
    BY <1>1, TopIs DEF Top
  <1>3. IsString(old)
    BY <1>1, <1>2 DEF IsNative, NoArgument, ArrayArgument
  <1>4. SaysIt(old, memory)
    BY <1>1, TopIs DEF IInv, Passes
  <1>5. /\ DOMAIN top = {"fn", "argument", "scopes", "stk"} /\ top.scopes \in Seq(Scope)
        /\ top.stk \in Int /\ top.stk <= Stp
    BY <1>2 DEF IsNative
  <1>6. IsString(new) /\ SaysIt(new, memory)
    <2>1. /\ new.type = old.type /\ new.address = old.address /\ new.len = old.len /\ new.cells = old.cells
          /\ new.said = old.said /\ new.untouched = old.untouched /\ new.decoded = <<text>>
          /\ DOMAIN new = DOMAIN old
      BY <1>3 DEF IsString
    <2>2. old.untouched => text = old.said
      BY <1>1, <1>4 DEF SaysIt
    <2> HIDE DEF new, text
    <2>3. IsString(new)
      BY <1>3, <2>1 DEF IsString
    <2>4. <<text>> # <<>>
      OBVIOUS
    <2>5. SaysIt(new, memory)
      BY <2>1, <2>2, <2>4 DEF SaysIt
    <2>6. QED
      BY <2>3, <2>5
  <1> HIDE DEF new
  <1>7. /\ f.fn = "native" /\ f.argument = new /\ f.scopes = top.scopes /\ f.stk = top.stk
        /\ DOMAIN f = DOMAIN top
    BY <1>1, <1>5
  <1>8. IsNative(f)
    <2> HIDE DEF f, top
    <2>1. QED
      BY <1>5, <1>6, <1>7 DEF IsNative
  <1>9. /\ Shape(stack, hea, stk) /\ Bottom(stack, hea, stk)
        /\ BlocksInv(stack, hea, memory) /\ Passes(stack, memory)
    BY DEF IInv
  <1> HIDE DEF f
  <1>10. /\ Shape(stack', hea, stk) /\ Bottom(stack', hea, stk)
         /\ BlocksInv(stack', hea, memory) /\ Passes(stack', memory)
    BY <1>1, <1>6, <1>7, <1>8, <1>9, ArgumentRead
  <1>11. QED
    BY <1>1, <1>10 DEF IInv

LEMMA WriteStrStep == ASSUME NEW text \in Texts PROVE IInv /\ WriteStr(text) => IInv'
  <1> SUFFICES ASSUME IInv, WriteStr(text)
               PROVE  IInv'
    OBVIOUS
  <1> DEFINE argument == Top.argument
             cells == Encoded(text)
  <1>1. /\ Top.fn = "native" /\ argument.type = "array" /\ Len(text) < argument.cells
        /\ memory' = Overwritten(argument.address, cells)
        /\ stack' = Touched(argument.address, argument.cells)
        /\ hea' = hea /\ stk' = stk
    BY DEF WriteStr, Fits
  <1>2. argument.address \in CellAddress /\ argument.cells \in Nat
    <2>1. argument \in ArrayArgument
      BY <1>1, TopIs DEF IsNative, IsString, NoArgument
    <2>2. QED
      BY <2>1 DEF ArrayArgument
  <1>3. Len(cells) = Len(text) + 1 /\ Len(text) \in Nat
    BY EncodedIs, ScriptMemoryAssumption
  <1> HIDE DEF argument, cells
  <1>4. Len(cells) \in Nat /\ Len(cells) <= argument.cells
    BY <1>1, <1>2, <1>3
  <1>5. /\ Shape(stack', hea, stk) /\ Bottom(stack', hea, stk)
        /\ BlocksInv(stack', hea, memory') /\ Passes(stack', memory')
    BY <1>1, <1>2, <1>4, Written
  <1>6. QED
    BY <1>1, <1>5 DEF IInv

LEMMA ScriptWritesStep ==
  ASSUME NEW array \in Top.arrays, NEW cells \in Literals
  PROVE  IInv /\ ScriptWrites(array, cells) => IInv'
  <1> SUFFICES ASSUME IInv, ScriptWrites(array, cells)
               PROVE  IInv'
    OBVIOUS
  <1>1. /\ Top.fn = "public" /\ memory' = Overwritten(array.address, cells)
        /\ stack' = Touched(array.address, Len(cells)) /\ hea' = hea /\ stk' = stk
    BY DEF ScriptWrites
  <1>2. array.address \in CellAddress
    BY <1>1, TopIs DEF IsPublic, Array
  <1>3. Len(cells) \in Nat /\ Len(cells) <= Len(cells)
    BY ScriptMemoryAssumption
  <1>4. /\ Shape(stack', hea, stk) /\ Bottom(stack', hea, stk)
        /\ BlocksInv(stack', hea, memory') /\ Passes(stack', memory')
    BY <1>1, <1>2, <1>3, Written
  <1>5. QED
    BY <1>1, <1>4 DEF IInv

LEMMA ScriptAllotsStep == IInv /\ ScriptAllots => IInv'
  <1> SUFFICES ASSUME IInv, ScriptAllots
               PROVE  IInv'
    OBVIOUS
  <1> DEFINE n == Len(stack)
             top == stack[n]
             f == [top EXCEPT !.arrays = top.arrays \cup {[address |-> hea, cells |-> 1]}]
  <1>1. /\ top.fn = "public" /\ hea' = hea + 4 /\ stk' = stk /\ memory' = memory
        /\ stack' = [stack EXCEPT ![n] = f] /\ hea + 4 * 1 + Margin <= stk
    BY DEF ScriptAllots, WithTop, Top, Room
  <1>2. /\ Shape(stack, hea, stk) /\ Bottom(stack, hea, stk)
        /\ BlocksInv(stack, hea, memory) /\ Passes(stack, memory)
    BY DEF IInv
  <1>3. /\ n \in Nat \ {0} /\ n \in 1 .. n /\ n > 1 /\ IsPublic(top)
        /\ hea \in Heap /\ hea \in Nat /\ stk \in Int /\ stk <= Stp
    BY <1>1, TopIs DEF Top
  <1>4. hea + 4 \in Heap
    <2>1. hea + 4 <= Stp /\ Hlw <= hea + 4 /\ hea % 4 = 0
      BY <1>1, <1>3, HeapIs, ScriptMemoryAssumption
    <2>2. hea + 4 * 1 \in Nat /\ (hea + 4 * 1) % 4 = 0
      BY <1>3, <2>1, AlignedAfter
    <2>3. QED
      BY <1>3, <2>1, <2>2, ScriptMemoryAssumption DEF Heap, CellAddress
  <1>5. IsPublic(f) /\ f.fn = "public" /\ f.hea = top.hea /\ f.stk = top.stk
    <2>1. [address |-> hea, cells |-> 1] \in Array
      BY <1>3 DEF Array, Heap
    <2>2. QED
      BY <1>3, <2>1 DEF IsPublic
  <1> HIDE DEF f
  <1>6. /\ IsSeq(stack') /\ Len(stack') = n /\ stack'[n] = f
        /\ \A d \in 1 .. n : d # n => stack'[d] = stack[d]
    <2>1. IsSeq(stack)
      BY <1>2 DEF Shape
    <2>2. n \in 1 .. Len(stack)
      BY <1>3
    <2>3. /\ IsSeq([stack EXCEPT ![n] = f]) /\ Len([stack EXCEPT ![n] = f]) = n
          /\ [stack EXCEPT ![n] = f][n] = f
          /\ \A d \in 1 .. n : d # n => [stack EXCEPT ![n] = f][d] = stack[d]
      BY <2>1, <2>2, SetIs
    <2>4. QED
      BY <1>1, <2>3
  <1>7. Shape(stack', hea + 4, stk)
    <2>1. \A d \in 1 .. Len(stack') : IsNative(stack'[d]) \/ IsPublic(stack'[d])
      BY <1>2, <1>5, <1>6 DEF Shape
    <2>2. QED
      BY <1>3, <1>4, <1>6, <2>1 DEF Shape
  <1>8. Alike(stack, stack')
    BY <1>1, <1>5, <1>6 DEF Alike
  <1>9. \A d, s, b : BlockAt(stack', d, s, b) => BlockAt(stack, d, s, b)
    BY <1>1, <1>5, <1>6 DEF BlockAt
  <1>10. BlocksInv(stack', hea + 4, memory)
    <2>1. Kept(stack, stack', memory, memory)
      BY <1>9, SurvivesSame
    <2>2. ASSUME NEW d, NEW s, NEW b, BlockAt(stack, d, s, b)
          PROVE  End(b) <= hea + 4
      <3>1. End(b) \in Nat /\ End(b) <= hea
        BY <1>2, <2>2, BlockIs DEF BlocksInv, Placed
      <3>2. QED
        BY <3>1, <1>3
    <2>3. \A e, t, a : MarkAt(stack', e, t, a) => MarkAt(stack, e, t, a)
      BY <1>2, <1>8, AlikeMarks
    <2>4. QED
      BY <1>2, <1>7, <2>1, <2>2, <2>3, BlocksStay
  <1>11. Bottom(stack', hea + 4, stk)
    <2>1. hea <= hea + 4
      BY <1>3
    <2>2. QED
      BY <1>2, <1>3, <1>7, <1>8, <2>1, BottomAlike
  <1>12. Passes(stack', memory)
    <2> SUFFICES ASSUME NEW d \in 1 .. n, stack'[d].fn = "native", stack'[d].argument.type = "string"
                 PROVE  SaysIt(stack'[d].argument, memory)
      BY <1>6 DEF Passes
    <2>1. stack'[d] = stack[d]
      BY <1>5, <1>6
    <2>2. QED
      BY <1>2, <2>1 DEF Passes
  <1>13. QED
    BY <1>1, <1>7, <1>10, <1>11, <1>12 DEF IInv

LEMMA NextIInv == IInv /\ [Next]_vars => IInv'
  <1> SUFFICES ASSUME IInv, [Next]_vars
               PROVE  IInv'
    OBVIOUS
  <1>1. CASE OpenScope
    BY <1>1, OpenScopeStep
  <1>2. CASE DropScope
    BY <1>2, DropScopeStep
  <1>3. CASE \E text \in Texts : AllotString(text)
    BY <1>3, AllotStringStep
  <1>4. CASE \E text \in Texts : WriteStr(text)
    BY <1>4, WriteStrStep
  <1>5. CASE AllotBuffer(2)
    BY <1>5, AllotBufferStep
  <1>6. CASE \E blocks \in SUBSET UNION {Top.scopes[s].blocks : s \in DOMAIN Top.scopes} : Exec(blocks)
    BY <1>6, ExecStep
  <1>7. CASE PublicReturns
    BY <1>7, PublicReturnsStep
  <1>8. CASE NativeReturns
    BY <1>8, NativeReturnsStep
  <1>9. CASE \E address \in Addresses : PassString(address)
    BY <1>9, PassStringStep
  <1>10. CASE \E array \in Top.arrays : PassArray(array)
    BY <1>10, PassArrayStep
  <1>11. CASE \E array \in Top.arrays : \E cells \in Literals : ScriptWrites(array, cells)
    BY <1>11, ScriptWritesStep
  <1>12. CASE Decode
    BY <1>12, DecodeStep
  <1>13. CASE ScriptAllots
    BY <1>13, ScriptAllotsStep
  <1>14. CASE UNCHANGED vars
    BY <1>14 DEF IInv, vars
  <1>15. QED
    BY <1>1, <1>2, <1>3, <1>4, <1>5, <1>6, <1>7, <1>8, <1>9, <1>10, <1>11, <1>12, <1>13, <1>14 DEF Next

LEMMA Invariant == Spec => []IInv
  BY InitIInv, NextIInv, PTL DEF Spec

(***************************************************************************)
(* The results.                                                            *)
(***************************************************************************)

\* However natives, publics, scopes and their blocks were nested, when the
\* callback of the plugin that began it has dropped its scopes the heap is as
\* low and the stack as high as before (amx.rs release_scope).
THEOREM ScopesGiveBack == Spec => []NothingLeaks
  <1>1. IInv => NothingLeaks
    <2> SUFFICES ASSUME IInv, Len(stack) = 1, Top.scopes = <<>>
                 PROVE  hea = Hlw /\ stk = Stp
      BY DEF NothingLeaks
    <2>1. Len(stack[1].scopes) = 0
      BY DEF Top
    <2>2. QED
      BY <2>1 DEF IInv, Bottom
  <1>2. QED
    BY <1>1, Invariant, PTL

\* A string that was copied into the heap lies there whole, apart from every
\* other block and below the top of the heap, until its scope is dropped,
\* whatever is allotted, called, released and written underneath
\* (amx.rs Allocator::allot_string, cell/buffer.rs write_str).
THEOREM BlocksAreWhole == Spec => []BlocksKeepText
  <1>1. IInv => BlocksKeepText
    <2> SUFFICES ASSUME IInv, NEW b \in AllBlocks
                 PROVE  /\ b.address >= Hlw /\ b.address + 4 * b.cells <= hea
                        /\ \A o \in AllBlocks : o.address < b.address => o.address + 4 * o.cells <= b.address
                        /\ b.untouched => Cells(memory, b.address, Len(b.text) + 1) = Encoded(b.text)
      BY DEF BlocksKeepText
    <2>1. Shape(stack, hea, stk) /\ BlocksInv(stack, hea, memory)
      BY DEF IInv
    <2>2. ASSUME NEW o \in AllBlocks
          PROVE  \E d, s : BlockAt(stack, d, s, o)
      <3>1. PICK d \in DOMAIN stack : o \in Blocks(stack[d])
        BY DEF AllBlocks
      <3>2. d \in 1 .. Len(stack)
        BY <2>1, SeqIs DEF Shape
      <3>3. PICK s \in DOMAIN Scopes(stack[d]) : o \in Scopes(stack[d])[s].blocks
        BY <3>1 DEF Blocks
      <3>4. stack[d].fn = "native"
        BY <3>3 DEF Scopes
      <3>5. s \in 1 .. Len(stack[d].scopes) /\ o \in stack[d].scopes[s].blocks
        <4>1. stack[d].scopes \in Seq(Scope)
          BY <2>1, <3>2, <3>4, ScopeIs
        <4>2. QED
          BY <3>3, <3>4, <4>1 DEF Scopes
      <3>6. QED
        BY <3>2, <3>4, <3>5 DEF BlockAt
    <2>3. PICK d, s : BlockAt(stack, d, s, b)
      BY <2>2
    <2>4. b.address >= Hlw /\ b.address + 4 * b.cells <= hea
      <3>1. b.address \in Heap /\ End(b) <= hea
        BY <2>1, <2>3, BlockIs DEF BlocksInv, Placed
      <3>2. Hlw <= b.address /\ b.address \in Int /\ Hlw \in Int
        BY <3>1, HeapIs, ScriptMemoryAssumption
      <3>3. QED
        BY <3>1, <3>2 DEF End
    <2>5. ASSUME NEW o \in AllBlocks, o.address < b.address
          PROVE  o.address + 4 * o.cells <= b.address
      BY <2>1, <2>2, <2>3, <2>5 DEF BlocksInv, Apart, End
    <2>6. ASSUME b.untouched
          PROVE  Cells(memory, b.address, Len(b.text) + 1) = Encoded(b.text)
      BY <2>1, <2>3, <2>6 DEF BlocksInv, Whole, HoldsText
    <2>7. QED
      BY <2>4, <2>5, <2>6
  <1>2. QED
    BY <1>1, Invariant, PTL

\* The text that a native reads is the string the script passed, packed or not,
\* whatever lies behind it and whatever was written elsewhere between the call
\* and the first look (cell/string.rs from_raw and to_bytes).
THEOREM StringsArrive == Spec => []TextIsTheString
  <1>1. IInv => TextIsTheString
    <2> SUFFICES ASSUME IInv, NEW d \in DOMAIN stack,
                        stack[d].fn = "native", stack[d].argument.type = "string",
                        stack[d].argument.decoded # <<>>, stack[d].argument.untouched
                 PROVE  stack[d].argument.decoded = <<stack[d].argument.said>>
      BY DEF TextIsTheString
    <2>1. d \in 1 .. Len(stack)
      BY SeqIs DEF IInv, Shape
    <2>2. SaysIt(stack[d].argument, memory)
      BY <2>1 DEF IInv, Passes
    <2>3. QED
      BY <2>2 DEF SaysIt
  <1>2. QED
    BY <1>1, Invariant, PTL

=============================================================================
