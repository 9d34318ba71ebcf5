------------------------- MODULE OmpLifecycle_proofs -------------------------
(***************************************************************************)
(* Theorems on the registry of scripts and on the component's life cycle,  *)
(* for any number of scripts and addresses, any nesting and any order in   *)
(* which the server frees its components.                                  *)
(***************************************************************************)
EXTENDS OmpLifecycle, SequenceTheorems, WellFoundedInduction, TLAPS

(***************************************************************************)
(* Sequences: what Append, Tail and a removed last element do to the set   *)
(* of a sequence's elements.                                               *)
(***************************************************************************)

LEMMA EmptyElements == ToSet(<<>>) = {} /\ DOMAIN <<>> = {} /\ Len(<<>>) = 0
  BY DEF ToSet

LEMMA AppendElements ==
  ASSUME NEW S, NEW q \in Seq(S), NEW x \in S
  PROVE  /\ Append(q, x) \in Seq(S) /\ Len(Append(q, x)) = Len(q) + 1
         /\ DOMAIN Append(q, x) = 1 .. Len(q) + 1
         /\ Append(q, x)[Len(q) + 1] = x
         /\ \A i \in 1 .. Len(q) : Append(q, x)[i] = q[i]
         /\ ToSet(Append(q, x)) = ToSet(q) \cup {x}
  <1>1. /\ Append(q, x) \in Seq(S) /\ Len(Append(q, x)) = Len(q) + 1
        /\ Append(q, x)[Len(q) + 1] = x
        /\ \A i \in 1 .. Len(q) : Append(q, x)[i] = q[i]
    BY AppendProperties
  <1>2. Len(q) \in Nat /\ DOMAIN q = 1 .. Len(q) /\ DOMAIN Append(q, x) = 1 .. Len(q) + 1
    BY <1>1, LenProperties
  <1>3. ToSet(Append(q, x)) = ToSet(q) \cup {x}
    <2>1. ASSUME NEW y \in ToSet(Append(q, x))
          PROVE  y \in ToSet(q) \cup {x}
      <3>1. PICK i \in 1 .. Len(q) + 1 : y = Append(q, x)[i]
        BY <1>2, <2>1 DEF ToSet
      <3>2. i \in 1 .. Len(q) \/ i = Len(q) + 1
        BY <1>2
      <3>3. QED
        BY <1>1, <1>2, <3>1, <3>2 DEF ToSet
    <2>2. ASSUME NEW i \in 1 .. Len(q)
          PROVE  q[i] \in ToSet(Append(q, x))
      <3>1. i \in 1 .. Len(q) + 1 /\ Append(q, x)[i] = q[i]
        BY <1>1, <1>2
      <3>2. QED
        BY <1>2, <3>1 DEF ToSet
    <2>3. x \in ToSet(Append(q, x))
      <3>1. Len(q) + 1 \in 1 .. Len(q) + 1
        BY <1>2
      <3>2. QED
        BY <1>1, <1>2, <3>1 DEF ToSet
    <2>4. ToSet(q) \subseteq ToSet(Append(q, x))
      BY <1>2, <2>2 DEF ToSet
    <2>5. QED
      BY <2>1, <2>3, <2>4
  <1>4. QED
    BY <1>1, <1>2, <1>3

LEMMA WithoutLast ==
  ASSUME NEW S, NEW q \in Seq(S), q # <<>>
  PROVE  LET p == SubSeq(q, 1, Len(q) - 1)
         IN  /\ p \in Seq(S) /\ q[Len(q)] \in S /\ Len(p) = Len(q) - 1
             /\ Len(q) \in Nat \ {0} /\ DOMAIN p = 1 .. Len(q) - 1 /\ DOMAIN q = 1 .. Len(q)
             /\ \A i \in 1 .. Len(q) - 1 : p[i] = q[i]
  <1>1. Len(q) \in Nat \ {0} /\ DOMAIN q = 1 .. Len(q)
    BY EmptySeq, LenProperties
  <1> DEFINE p == SubSeq(q, 1, Len(q) - 1)
  <1>2. /\ p \in Seq(S) /\ Len(p) = IF 1 <= Len(q) - 1 THEN (Len(q) - 1) - 1 + 1 ELSE 0
        /\ \A i \in 1 .. (Len(q) - 1) - 1 + 1 : p[i] = q[1 + i - 1]
    <2>1. \A i \in 1 .. Len(q) - 1 : q[i] \in S
      BY <1>1, ElementOfSeq
    <2>2. QED
      BY <1>1, <2>1, SubSeqProperties
  <1>3. Len(p) = Len(q) - 1 /\ \A i \in 1 .. Len(q) - 1 : p[i] = q[i]
    BY <1>1, <1>2
  <1>4. DOMAIN p = 1 .. Len(q) - 1
    BY <1>2, <1>3, LenProperties
  <1>5. q[Len(q)] \in S
    BY <1>1, ElementOfSeq
  <1>6. QED
    BY <1>1, <1>2, <1>3, <1>4, <1>5

LEMMA HeadAndTail ==
  ASSUME NEW S, NEW q \in Seq(S), q # <<>>
  PROVE  /\ Head(q) \in S /\ Tail(q) \in Seq(S)
         /\ ToSet(q) = {Head(q)} \cup ToSet(Tail(q))
  <1>1. /\ Head(q) \in S /\ Tail(q) \in Seq(S) /\ Len(Tail(q)) = Len(q) - 1
        /\ Head(q) = q[1]
        /\ \A i \in 1 .. Len(Tail(q)) : Tail(q)[i] = q[i + 1]
    BY HeadTailProperties
  <1>2. Len(q) \in Nat \ {0} /\ DOMAIN q = 1 .. Len(q) /\ DOMAIN Tail(q) = 1 .. Len(q) - 1
    BY <1>1, EmptySeq, LenProperties
  <1>3. ASSUME NEW i \in 1 .. Len(q)
        PROVE  q[i] \in {Head(q)} \cup ToSet(Tail(q))
    <2>1. CASE i = 1
      BY <1>1, <2>1
    <2>2. CASE i # 1
      <3>1. i - 1 \in 1 .. Len(q) - 1 /\ (i - 1) + 1 = i
        BY <1>2, <2>2
      <3>2. Tail(q)[i - 1] = q[i]
        BY <1>1, <3>1
      <3>3. QED
        BY <1>2, <3>1, <3>2 DEF ToSet
    <2>3. QED
      BY <2>1, <2>2
  <1>4. ASSUME NEW i \in 1 .. Len(q) - 1
        PROVE  Tail(q)[i] \in ToSet(q)
    <2>1. i + 1 \in 1 .. Len(q) /\ Tail(q)[i] = q[i + 1]
      BY <1>1, <1>2
    <2>2. QED
      BY <1>2, <2>1 DEF ToSet
  <1>5. Head(q) \in ToSet(q)
    <2>1. 1 \in 1 .. Len(q)
      BY <1>2
    <2>2. QED
      BY <1>1, <1>2, <2>1 DEF ToSet
  <1>6. ToSet(q) \subseteq {Head(q)} \cup ToSet(Tail(q))
    BY <1>2, <1>3 DEF ToSet
  <1>7. ToSet(Tail(q)) \subseteq ToSet(q)
    BY <1>2, <1>4 DEF ToSet
  <1>8. QED
    BY <1>1, <1>5, <1>6, <1>7

(***************************************************************************)
(* What the calls on a stack are about: the scripts they unload, the ones  *)
(* on_ready has still to load, and the ones any frame still lists.         *)
(***************************************************************************)

Unloads(q, s) == \E d \in DOMAIN q : q[d].fn = "unload" /\ q[d].script = s
Queues(q, s) == \E d \in DOMAIN q : q[d].fn = "ready" /\ s \in ToSet(q[d].todo)
Lists(q, s) == \E d \in DOMAIN q : s \in ToSet(q[d].todo)
Readying(q) == \E d \in DOMAIN q : q[d].fn = "ready"
OneReady(q) == \A c, d \in DOMAIN q : q[c].fn = "ready" /\ q[d].fn = "ready" => c = d

LEMMA NoFrames ==
  ASSUME NEW s
  PROVE  /\ ~Unloads(<<>>, s) /\ ~Queues(<<>>, s) /\ ~Lists(<<>>, s)
         /\ ~Readying(<<>>) /\ OneReady(<<>>)
  BY EmptyElements DEF Unloads, Queues, Lists, Readying, OneReady

LEMMA FramePushed ==
  ASSUME NEW q \in Seq(Frame), NEW f \in Frame, NEW s
  PROVE  /\ Append(q, f) \in Seq(Frame) /\ Append(q, f) # <<>>
         /\ Unloads(Append(q, f), s) <=> Unloads(q, s) \/ (f.fn = "unload" /\ f.script = s)
         /\ Queues(Append(q, f), s) <=> Queues(q, s) \/ (f.fn = "ready" /\ s \in ToSet(f.todo))
         /\ Lists(Append(q, f), s) <=> Lists(q, s) \/ s \in ToSet(f.todo)
         /\ Readying(Append(q, f)) <=> Readying(q) \/ f.fn = "ready"
         /\ OneReady(Append(q, f)) <=> OneReady(q) /\ ~(f.fn = "ready" /\ Readying(q))
  <1> DEFINE r == Append(q, f)
             n == Len(q)
  <1>1. /\ r \in Seq(Frame) /\ Len(r) = n + 1 /\ DOMAIN r = 1 .. n + 1
        /\ r[n + 1] = f /\ \A i \in 1 .. n : r[i] = q[i]
    BY AppendElements
  <1>2. n \in Nat /\ DOMAIN q = 1 .. n
    BY LenProperties
  <1> HIDE DEF r, n
  <1>3. 1 .. n + 1 = (1 .. n) \cup {n + 1}
    BY <1>2
  <1>4. r # <<>>
    BY <1>1, <1>2, EmptyElements
  <1>5. Unloads(r, s) <=> Unloads(q, s) \/ (f.fn = "unload" /\ f.script = s)
    BY <1>1, <1>2, <1>3 DEF Unloads
  <1>6. Queues(r, s) <=> Queues(q, s) \/ (f.fn = "ready" /\ s \in ToSet(f.todo))
    BY <1>1, <1>2, <1>3 DEF Queues
  <1>7. Lists(r, s) <=> Lists(q, s) \/ s \in ToSet(f.todo)
    BY <1>1, <1>2, <1>3 DEF Lists
  <1>8. Readying(r) <=> Readying(q) \/ f.fn = "ready"
    BY <1>1, <1>2, <1>3 DEF Readying
  <1>9. OneReady(r) <=> OneReady(q) /\ ~(f.fn = "ready" /\ Readying(q))
    <2>1. \A i \in 1 .. n : i # n + 1
      BY <1>2
    <2>2. QED
      BY <1>1, <1>2, <1>3, <2>1 DEF OneReady, Readying
  <1>10. QED
    BY <1>1, <1>4, <1>5, <1>6, <1>7, <1>8, <1>9 DEF r

LEMMA FramePopped ==
  ASSUME NEW q \in Seq(Frame), q # <<>>, NEW s
  PROVE  LET p == SubSeq(q, 1, Len(q) - 1)
             f == q[Len(q)]
         IN  /\ p \in Seq(Frame) /\ f \in Frame
             /\ Unloads(q, s) <=> Unloads(p, s) \/ (f.fn = "unload" /\ f.script = s)
             /\ Queues(q, s) <=> Queues(p, s) \/ (f.fn = "ready" /\ s \in ToSet(f.todo))
             /\ Lists(q, s) <=> Lists(p, s) \/ s \in ToSet(f.todo)
             /\ Readying(q) <=> Readying(p) \/ f.fn = "ready"
             /\ OneReady(q) <=> OneReady(p) /\ ~(f.fn = "ready" /\ Readying(p))
  <1> DEFINE p == SubSeq(q, 1, Len(q) - 1)
             n == Len(q)
             f == q[n]
  <1>1. /\ p \in Seq(Frame) /\ f \in Frame
        /\ n \in Nat \ {0} /\ DOMAIN p = 1 .. n - 1 /\ DOMAIN q = 1 .. n
        /\ \A i \in 1 .. n - 1 : p[i] = q[i]
    BY WithoutLast
  <1>2. f = q[n]
    OBVIOUS
  <1> HIDE DEF p, n, f
  <1>3. 1 .. n = (1 .. n - 1) \cup {n}
    BY <1>1
  <1>4. Unloads(q, s) <=> Unloads(p, s) \/ (f.fn = "unload" /\ f.script = s)
    BY <1>1, <1>2, <1>3 DEF Unloads
  <1>5. Queues(q, s) <=> Queues(p, s) \/ (f.fn = "ready" /\ s \in ToSet(f.todo))
    BY <1>1, <1>2, <1>3 DEF Queues
  <1>6. Lists(q, s) <=> Lists(p, s) \/ s \in ToSet(f.todo)
    BY <1>1, <1>2, <1>3 DEF Lists
  <1>7. Readying(q) <=> Readying(p) \/ f.fn = "ready"
    BY <1>1, <1>2, <1>3 DEF Readying
  <1>8. OneReady(q) <=> OneReady(p) /\ ~(f.fn = "ready" /\ Readying(p))
    <2>1. \A i \in 1 .. n - 1 : i # n
      BY <1>1
    <2>2. QED
      BY <1>1, <1>2, <1>3, <2>1 DEF OneReady, Readying
  <1>9. QED
    BY <1>1, <1>4, <1>5, <1>6, <1>7, <1>8 DEF p, n, f

\* Two frames off a stack are one off it, and another.
LEMMA TwoPopped ==
  ASSUME NEW q \in Seq(Frame), q # <<>>, SubSeq(q, 1, Len(q) - 1) # <<>>
  PROVE  LET p == SubSeq(q, 1, Len(q) - 1)
         IN  /\ SubSeq(p, 1, Len(p) - 1) = SubSeq(q, 1, Len(q) - 2)
             /\ Last(p) = p[Len(p)]
  <1> DEFINE p == SubSeq(q, 1, Len(q) - 1)
             n == Len(q)
             a == SubSeq(p, 1, Len(p) - 1)
             b == SubSeq(q, 1, n - 2)
  <1>1. /\ p \in Seq(Frame) /\ Len(p) = n - 1 /\ n \in Nat \ {0}
        /\ DOMAIN q = 1 .. n /\ \A i \in 1 .. n - 1 : p[i] = q[i]
    BY WithoutLast
  <1>2. Len(p) \in Nat \ {0} /\ n - 1 \in Nat \ {0}
    BY <1>1, EmptySeq, LenProperties
  <1>3. /\ a \in Seq(Frame) /\ Len(a) = Len(p) - 1
        /\ \A i \in 1 .. Len(p) - 1 : a[i] = p[i]
    BY <1>1, WithoutLast
  <1>4. /\ b \in Seq(Frame)
        /\ Len(b) = IF 1 <= n - 2 THEN (n - 2) - 1 + 1 ELSE 0
        /\ \A i \in 1 .. (n - 2) - 1 + 1 : b[i] = q[1 + i - 1]
    <2>1. \A i \in 1 .. n - 2 : q[i] \in Frame
      <3>1. \A i \in 1 .. n - 2 : i \in 1 .. n
        BY <1>1
      <3>2. QED
        BY <1>1, <3>1, ElementOfSeq
    <2>2. 1 \in Int /\ n - 2 \in Int
      BY <1>1
    <2>3. QED
      BY <2>1, <2>2, SubSeqProperties
  <1> HIDE DEF p, a, b, n
  <1>5. Len(b) = n - 2 /\ \A i \in 1 .. n - 2 : b[i] = q[i]
    BY <1>1, <1>2, <1>4
  <1>6. Len(a) = n - 2 /\ \A i \in 1 .. n - 2 : a[i] = q[i]
    BY <1>1, <1>2, <1>3
  <1>7. a = b
    BY <1>3, <1>4, <1>5, <1>6, SeqEqual
  <1>8. QED
    BY <1>7 DEF p, a, b, n, Last

(***************************************************************************)
(* The list of scripts: an address is known if an entry has it.            *)
(***************************************************************************)

LessThan == {p \in Nat \X Nat : p[1] < p[2]}

\* The library's least-number principle takes an operator; this one, a set.
LEMMA LeastNumber ==
  ASSUME NEW S \in SUBSET Nat, S # {}
  PROVE  \E i \in S : \A j \in S : i <= j
  <1>1. OpToRel(<, Nat) = LessThan
    BY DEF OpToRel, LessThan
  <1>2. IsWellFoundedOn(LessThan, Nat)
    BY <1>1, NatLessThanWellFounded
  <1>3. PICK i \in S : \A j \in S : ~(<<j, i>> \in LessThan)
    BY <1>2, WFMin
  <1>4. ASSUME NEW j \in S
        PROVE  i <= j
    <2>1. <<j, i>> \notin LessThan /\ <<j, i>> \in Nat \X Nat /\ i \in Nat /\ j \in Nat
      BY <1>3
    <2>2. ~(j < i)
      BY <2>1 DEF LessThan
    <2>3. QED
      BY <2>1, <2>2
  <1>5. QED
    BY <1>4

KnownIn(q, a) == \E i \in DOMAIN q : q[i].at = a

LEMMA KnownIsIn ==
  ASSUME NEW a
  PROVE  Known(a) <=> KnownIn(list, a)
  BY DEF Known, Positions, KnownIn

LEMMA FirstHasAddress ==
  ASSUME list \in Seq(Entry), NEW a, Known(a)
  PROVE  First(a) \in 1 .. Len(list) /\ list[First(a)].at = a
  <1>1. DOMAIN list = 1 .. Len(list) /\ Len(list) \in Nat
    BY LenProperties
  <1>2. Positions(a) \in SUBSET Nat /\ Positions(a) # {}
    BY <1>1 DEF Known, Positions
  <1>3. \E i \in Positions(a) : \A j \in Positions(a) : i <= j
    BY <1>2, LeastNumber
  <1>4. First(a) \in Positions(a)
    BY <1>3 DEF First
  <1>5. QED
    BY <1>1, <1>4 DEF Positions

LEMMA EntryAdded ==
  ASSUME TypeOK, NEW s \in Script, addr[s] \in Addresses, Insert(s)
  PROVE  /\ list' \in Seq(Entry) /\ Len(list') \in Nat /\ Len(list') <= room'
         /\ room' \in Nat /\ buffer' \in Nat
         /\ \A a : KnownIn(list', a) <=> KnownIn(list, a) \/ a = addr[s]
  <1> DEFINE e == [at |-> addr[s], of |-> s]
             n == Len(list)
  <1>1. e \in Entry /\ e.at = addr[s]
    BY DEF Entry
  <1>2. /\ list \in Seq(Entry) /\ n \in Nat /\ DOMAIN list = 1 .. n
        /\ n <= room /\ room \in Nat /\ buffer \in Nat
    BY LenProperties DEF TypeOK
  <1>3. list' = Append(list, e)
    BY DEF Insert
  <1> HIDE DEF e, n
  <1>4. /\ list' \in Seq(Entry) /\ Len(list') = Len(list) + 1
        /\ DOMAIN list' = 1 .. Len(list) + 1 /\ list'[Len(list) + 1] = e
        /\ \A i \in 1 .. Len(list) : list'[i] = list[i]
    BY <1>1, <1>2, <1>3, AppendElements
  <1>5. Len(list') <= room' /\ room' \in Nat /\ buffer' \in Nat
    BY <1>2, <1>4, RoomAssumption DEF Insert, n
  <1>6. ASSUME NEW a
        PROVE  KnownIn(list', a) <=> KnownIn(list, a) \/ a = addr[s]
    <2>1. 1 .. n + 1 = (1 .. n) \cup {n + 1}
      BY <1>2
    <2>2. QED
      BY <1>1, <1>2, <1>4, <2>1 DEF KnownIn, n
  <1>7. QED
    BY <1>2, <1>4, <1>5, <1>6 DEF n

\* swap_remove takes one entry of the address, and no entry of another.
LEMMA EntryRemoved ==
  ASSUME TypeOK, NEW a
  PROVE  /\ ListWithout(a) \in Seq(Entry) /\ Len(ListWithout(a)) <= Len(list)
         /\ \A b : b # a => (KnownIn(ListWithout(a), b) <=> KnownIn(list, b))
  <1> DEFINE n == Len(list)
             f == First(a)
  <1>1. list \in Seq(Entry) /\ n \in Nat /\ DOMAIN list = 1 .. n
    BY LenProperties DEF TypeOK
  <1>2. CASE Known(a)
    <2>1. f \in 1 .. n /\ list[f].at = a
      BY <1>1, <1>2, FirstHasAddress
    <2> DEFINE r == ListWithout(a)
    <2>2. r = [j \in 1 .. n - 1 |-> IF j = f THEN list[n] ELSE list[j]]
      BY <1>2 DEF ListWithout, SwapRemove
    <2> HIDE DEF r, n, f
    <2>3. \A j \in 1 .. n - 1 : j \in 1 .. n /\ n \in 1 .. n
      BY <1>1
    <2>4. \A j \in 1 .. n : list[j] \in Entry
      BY <1>1, ElementOfSeq DEF n
    <2>5. r \in [1 .. n - 1 -> Entry]
      BY <2>2, <2>3, <2>4
    <2>6. n - 1 \in Nat
      BY <1>1, <2>1
    <2>7. r \in Seq(Entry) /\ Len(r) = n - 1
      BY <2>5, <2>6, SeqDef, LenProperties
    <2>8. ASSUME NEW b, b # a, KnownIn(list, b)
          PROVE  KnownIn(r, b)
      <3>1. PICK i \in 1 .. n : list[i].at = b
        BY <1>1, <2>8 DEF KnownIn
      <3>2. i # f
        BY <2>1, <2>8, <3>1
      <3>3. CASE i = n
        <4>1. f \in 1 .. n - 1 /\ r[f] = list[n]
          BY <1>1, <2>1, <2>2, <3>2, <3>3
        <4>2. QED
          BY <2>5, <3>1, <3>3, <4>1 DEF KnownIn
      <3>4. CASE i # n
        <4>1. i \in 1 .. n - 1
          BY <1>1, <3>4
        <4>2. r[i] = list[i]
          BY <2>2, <3>2, <4>1
        <4>3. QED
          BY <2>5, <3>1, <4>1, <4>2 DEF KnownIn
      <3>5. QED
        BY <3>3, <3>4
    <2>9. ASSUME NEW b, KnownIn(r, b)
          PROVE  KnownIn(list, b)
      <3>1. PICK j \in 1 .. n - 1 : r[j].at = b
        BY <2>5, <2>9 DEF KnownIn
      <3>2. r[j] = list[n] \/ r[j] = list[j]
        BY <2>2
      <3>3. QED
        BY <1>1, <2>3, <3>1, <3>2 DEF KnownIn
    <2>10. Len(r) <= n
      BY <1>1, <2>7
    <2>11. QED
      BY <2>7, <2>8, <2>9, <2>10 DEF r, n
  <1>3. CASE ~Known(a)
    BY <1>1, <1>3 DEF ListWithout
  <1>4. QED
    BY <1>2, <1>3

(***************************************************************************)
(* The inductive invariant of the registry.                                *)
(***************************************************************************)

\* The component calls the plugin's hook while nothing of it runs.
HookCalled ==
  /\ stack = <<>>
  /\ stack' = <<Plain("hook", 0, <<>>)>>
  /\ UNCHANGED <<omp, exports, ready, life, addr, listVars, pending, tables, history>>

Step == Next \/ HookCalled

Placed == \A s \in Script : life[s] # "unborn" => addr[s] \in Addresses

Apart ==
  \A r, s \in Script : life[r] = "alive" /\ life[s] = "alive" /\ addr[r] = addr[s] => r = s

Reached ==
  \A s \in Script : s \in delivered \cup served \/ Unloads(stack, s) => life[s] # "unborn"

Waits(s) == s \in ToSet(pending) \/ Lists(stack, s)

Announced == \A s \in Script : Waits(s) => s \in delivered

\* LoadedIsFound and NoScriptForgotten, on what the lemmas above are about.
Found ==
  \A s \in Script : life[s] = "alive" /\ s \in served /\ ~Unloads(stack, s) =>
    KnownIn(list, addr[s])

Remembered ==
  \A s \in Script : s \in delivered /\ life[s] = "alive" =>
    \/ s \in served \cup abandoned
    \/ s \in ToSet(pending) /\ ~exports
    \/ Queues(stack, s)

RegistryInv ==
  /\ TypeOK
  /\ Placed /\ Apart /\ Reached /\ Announced
  /\ Found /\ Remembered

\* What keeps the event tables apart, where scripts that wait are not unloaded.
Tabled ==
  \A t \in Entry : tables[t] # 0 =>
    /\ tables[t] = 1
    /\ life[t.of] = "alive" /\ t.at = addr[t.of]
    /\ ~Unloads(stack, t.of)

WaitersLive == \A s \in Script : Waits(s) => life[s] = "alive" /\ ~Unloads(stack, s)

TablesInv == RegistryInv /\ Tabled /\ WaitersLive

(***************************************************************************)
(* What the parts of a step do.                                            *)
(***************************************************************************)

LEMMA PlainFrame ==
  ASSUME NEW fn \in {"native", "load", "unload", "ready", "hook"}, NEW s \in Script \cup {0},
         NEW q \in Seq(Script)
  PROVE  /\ Plain(fn, s, q) \in Frame
         /\ Plain(fn, s, q).fn = fn /\ Plain(fn, s, q).script = s /\ Plain(fn, s, q).todo = q
  BY DEF Plain, Frame

LEMMA HoldingFrame ==
  ASSUME NEW fn \in {"native", "load"}, NEW s \in Script, NEW i \in Nat, NEW b \in Nat
  PROVE  /\ Holding(fn, s, i, b) \in Frame
         /\ Holding(fn, s, i, b).fn = fn /\ ToSet(Holding(fn, s, i, b).todo) = {}
  BY EmptyElements DEF Holding, Frame

\* A stack that gained a frame of none of the kinds that count.
SameCalls(q, r) ==
  /\ r \in Seq(Frame)
  /\ Readying(r) <=> Readying(q)
  /\ OneReady(r) <=> OneReady(q)
  /\ \A s : /\ Unloads(r, s) <=> Unloads(q, s)
            /\ Queues(r, s) <=> Queues(q, s)
            /\ Lists(r, s) <=> Lists(q, s)

LEMMA CallHolds ==
  ASSUME NEW q \in Seq(Frame), NEW fn \in {"native", "load"}, NEW s \in Script,
         NEW i \in Nat, NEW b \in Nat
  PROVE  SameCalls(q, Append(q, Holding(fn, s, i, b)))
  <1> DEFINE f == Holding(fn, s, i, b)
  <1>1. f \in Frame /\ f.fn = fn /\ ToSet(f.todo) = {}
    BY HoldingFrame
  <1> HIDE DEF f
  <1>2. QED
    BY <1>1, FramePushed DEF SameCalls, f

LEMMA HookOnStack ==
  ASSUME NEW q \in Seq(Frame)
  PROVE  SameCalls(q, Append(q, Plain("hook", 0, <<>>)))
  <1> DEFINE f == Plain("hook", 0, <<>>)
  <1>1. f \in Frame /\ f.fn = "hook" /\ ToSet(f.todo) = {}
    <2>1. <<>> \in Seq(Script)
      OBVIOUS
    <2>2. 0 \in Script \cup {0} /\ "hook" \in {"native", "load", "unload", "ready", "hook"}
      OBVIOUS
    <2>3. f \in Frame /\ f.fn = "hook" /\ f.todo = <<>>
      BY <2>1, <2>2 DEF Plain, Frame
    <2>4. QED
      BY <2>3, EmptyElements
  <1> HIDE DEF f
  <1>2. QED
    BY <1>1, FramePushed DEF SameCalls, f

LEMMA LoadDoes ==
  ASSUME TypeOK, Placed, NEW s \in Script, life[s] # "unborn",
         NEW q \in Seq(Frame), AmxLoad(s, q)
  PROVE  /\ list' \in Seq(Entry) /\ Len(list') <= room' /\ room' \in Nat /\ buffer' \in Nat
         /\ \A a : KnownIn(list', a) <=> KnownIn(list, a) \/ a = addr[s]
         /\ served' = served \cup {s}
         /\ SameCalls(q, stack')
  <1>1. addr[s] \in Addresses
    BY DEF Placed
  <1>2. Insert(s)
    BY DEF AmxLoad
  <1>3. /\ list' \in Seq(Entry) /\ Len(list') \in Nat /\ Len(list') <= room'
        /\ room' \in Nat /\ buffer' \in Nat
        /\ \A a : KnownIn(list', a) <=> KnownIn(list, a) \/ a = addr[s]
    BY <1>1, <1>2, EntryAdded
  <1>4. SameCalls(q, Append(q, Holding("load", s, Len(list'), buffer')))
    BY <1>3, CallHolds
  <1>5. QED
    BY <1>3, <1>4 DEF AmxLoad

LEMMA ResolvedEntry ==
  ASSUME Placed, NEW s \in Script, life[s] # "unborn"
  PROVE  Resolved(s) \in Entry /\ Resolved(s).at = addr[s] /\ Resolved(s).of = s
  BY DEF Placed, Resolved, Entry

\* The table of a load replaces what the address had; none is left without one.
LEMMA TablesDo ==
  ASSUME TypeOK, Placed, NEW s \in Script, life[s] # "unborn"
  PROVE  /\ TablesWithout(addr[s]) \in [Entry -> Nat]
         /\ TablesWith(s) \in [Entry -> Nat]
         /\ \A t \in Entry :
              TablesWithout(addr[s])[t] # 0 => t.at # addr[s] /\ TablesWithout(addr[s])[t] = tables[t]
         /\ \A t \in Entry : TablesWith(s)[t] # 0 =>
              \/ t.at # addr[s] /\ TablesWith(s)[t] = tables[t]
              \/ t.at = addr[s] /\ t.of = s /\ TablesWith(s)[t] = 1
  <1> DEFINE e == Resolved(s)
             u == TablesWithout(addr[s])
             v == TablesWith(s)
  <1>1. e \in Entry /\ e.at = addr[s] /\ e.of = s
    BY ResolvedEntry
  <1>2. tables \in [Entry -> Nat]
    BY DEF TypeOK
  <1>3. u = [t \in Entry |-> IF t.at = addr[s] THEN 0 ELSE tables[t]]
    BY DEF TablesWithout
  <1>4. v = [u EXCEPT ![e] = @ + (IF s \in Watched THEN 1 ELSE 0)]
    BY DEF TablesWith
  <1> HIDE DEF e, u, v
  <1>5. u \in [Entry -> Nat] /\ u[e] = 0
    BY <1>1, <1>2, <1>3
  <1>6. /\ v \in [Entry -> Nat]
        /\ v[e] = IF s \in Watched THEN 1 ELSE 0
        /\ \A t \in Entry : t # e => v[t] = u[t]
    BY <1>1, <1>4, <1>5
  <1>7. \A t \in Entry : u[t] # 0 => t.at # addr[s] /\ u[t] = tables[t]
    BY <1>3
  <1>8. \A t \in Entry : v[t] # 0 =>
          \/ t.at # addr[s] /\ v[t] = tables[t]
          \/ t.at = addr[s] /\ t.of = s /\ v[t] = 1
    <2>1. ASSUME NEW t \in Entry, v[t] # 0
          PROVE  \/ t.at # addr[s] /\ v[t] = tables[t]
                 \/ t.at = addr[s] /\ t.of = s /\ v[t] = 1
      <3>1. CASE t = e
        BY <1>1, <1>6, <2>1, <3>1
      <3>2. CASE t # e
        BY <1>6, <1>7, <2>1, <3>2
      <3>3. QED
        BY <3>1, <3>2
    <2>2. QED
      BY <2>1
  <1>9. QED
    BY <1>5, <1>6, <1>7, <1>8 DEF u, v

(***************************************************************************)
(* One lemma per action: it keeps the invariant, and the tables' part of it *)
(* where the server never unloads a script that waits.                     *)
(***************************************************************************)

KeepsTables == Tabled /\ WaitersLive => Tabled' /\ WaitersLive'

LEMMA CreateKeeps ==
  ASSUME RegistryInv, NEW s \in Script, NEW a \in Addresses, Create(s, a)
  PROVE  RegistryInv' /\ KeepsTables
  <1>1. /\ life' = [life EXCEPT ![s] = "alive"] /\ addr' = [addr EXCEPT ![s] = a]
        /\ life[s] = "unborn" /\ \A r \in Script : life[r] = "alive" => addr[r] # a
        /\ UNCHANGED <<omp, exports, ready, listVars, pending, tables, stack, history>>
    BY DEF Create
  <1>2. /\ life \in [Script -> {"unborn", "alive", "dead"}]
        /\ addr \in [Script -> Addresses \cup {NoAddress}]
    BY DEF RegistryInv, TypeOK
  <1>3. TypeOK'
    BY <1>1, <1>2 DEF RegistryInv, TypeOK, listVars, history
  <1>4. Placed' /\ Apart' /\ Reached' /\ Announced'
    <2>1. Placed' /\ Apart'
      BY <1>1, <1>2 DEF RegistryInv, Placed, Apart
    <2>2. Reached'
      BY <1>1, <1>2 DEF RegistryInv, Reached, history
    <2>3. Announced'
      BY <1>1 DEF RegistryInv, Announced, Waits, history
    <2>4. QED
      BY <2>1, <2>2, <2>3
  <1>5. Found'
    BY <1>1, <1>2 DEF RegistryInv, Found, Reached, listVars, history
  <1>6. Remembered'
    BY <1>1, <1>2 DEF RegistryInv, Remembered, Reached, history
  <1>7. KeepsTables
    <2>1. Tabled => Tabled'
      BY <1>1, <1>2 DEF Tabled, Entry
    <2>2. WaitersLive => WaitersLive'
      BY <1>1, <1>2 DEF WaitersLive, Waits
    <2>3. QED
      BY <2>1, <2>2 DEF KeepsTables
  <1>8. QED
    BY <1>3, <1>4, <1>5, <1>6, <1>7 DEF RegistryInv

\* What amx_load keeps, called on a stack that lists what the old one did, less
\* at most the script it loads.
LEMMA AmxLoadKeeps ==
  ASSUME RegistryInv, NEW s \in Script, life[s] # "unborn", NEW q \in Seq(Frame),
         AmxLoad(s, q), UNCHANGED <<omp, exports, ready, life, addr, pending, abandoned>>,
         delivered' = delivered \cup {s},
         \A r \in Script : /\ Unloads(q, r) <=> Unloads(stack, r)
                           /\ Lists(q, r) => Lists(stack, r)
                           /\ Queues(stack, r) => Queues(q, r) \/ r = s
  PROVE  /\ RegistryInv'
         /\ life[s] = "alive" /\ ~Unloads(stack, s) => KeepsTables
  <1>1. /\ list' \in Seq(Entry) /\ Len(list') <= room' /\ room' \in Nat /\ buffer' \in Nat
        /\ \A a : KnownIn(list', a) <=> KnownIn(list, a) \/ a = addr[s]
        /\ served' = served \cup {s}
        /\ SameCalls(q, stack')
    BY LoadDoes DEF RegistryInv
  <1>2. tables' = TablesWith(s)
    BY DEF AmxLoad
  <1>3. /\ TablesWith(s) \in [Entry -> Nat]
        /\ \A t \in Entry : TablesWith(s)[t] # 0 =>
             \/ t.at # addr[s] /\ TablesWith(s)[t] = tables[t]
             \/ t.at = addr[s] /\ t.of = s /\ TablesWith(s)[t] = 1
    BY TablesDo DEF RegistryInv
  <1>4. TypeOK'
    BY <1>1, <1>2, <1>3 DEF RegistryInv, TypeOK, SameCalls
  <1>5. Placed' /\ Apart'
    BY DEF RegistryInv, Placed, Apart
  <1>6. Reached'
    BY <1>1 DEF RegistryInv, Reached, SameCalls
  <1>7. Announced'
    BY <1>1 DEF RegistryInv, Announced, Waits, SameCalls
  <1>8. Found'
    BY <1>1 DEF RegistryInv, Found, SameCalls
  <1>9. Remembered'
    BY <1>1 DEF RegistryInv, Remembered, SameCalls
  <1>10. ASSUME life[s] = "alive", ~Unloads(stack, s), Tabled, WaitersLive
         PROVE  Tabled' /\ WaitersLive'
    <2>1. Tabled'
      BY <1>1, <1>2, <1>3, <1>10 DEF Tabled, SameCalls, Entry
    <2>2. WaitersLive'
      BY <1>1, <1>10 DEF WaitersLive, Waits, SameCalls
    <2>3. QED
      BY <2>1, <2>2
  <1>11. QED
    BY <1>4, <1>5, <1>6, <1>7, <1>8, <1>9, <1>10 DEF RegistryInv, KeepsTables

LEMMA LoadNowKeeps ==
  ASSUME RegistryInv, NEW s \in Script, LoadNow(s)
  PROVE  RegistryInv' /\ KeepsTables
  <1>1. /\ life[s] = "alive" /\ ~Unloads(stack, s) /\ AmxLoad(s, stack)
        /\ delivered' = delivered \cup {s}
        /\ UNCHANGED <<omp, exports, ready, life, addr, pending, abandoned>>
    BY DEF LoadNow, BeingUnloaded, Unloads
  <1>2. stack \in Seq(Frame)
    BY DEF RegistryInv, TypeOK
  <1>3. QED
    BY <1>1, <1>2, AmxLoadKeeps

LEMMA LoadLaterKeeps ==
  ASSUME RegistryInv, NEW s \in Script, LoadLater(s)
  PROVE  RegistryInv' /\ KeepsTables
  <1>1. /\ life[s] = "alive" /\ ~Unloads(stack, s) /\ ~exports
        /\ pending' = Append(pending, s) /\ delivered' = delivered \cup {s}
        /\ UNCHANGED <<omp, exports, ready, life, addr, listVars, tables, stack, served, abandoned>>
    BY DEF LoadLater, BeingUnloaded, Unloads
  <1>2. pending' \in Seq(Script) /\ ToSet(pending') = ToSet(pending) \cup {s}
    BY <1>1, AppendElements DEF RegistryInv, TypeOK
  <1>3. TypeOK'
    BY <1>1, <1>2 DEF RegistryInv, TypeOK, listVars
  <1>4. Placed' /\ Apart'
    BY <1>1 DEF RegistryInv, Placed, Apart
  <1>5. Reached' /\ Announced'
    BY <1>1, <1>2 DEF RegistryInv, Reached, Announced, Waits
  <1>6. Found'
    BY <1>1 DEF RegistryInv, Found, listVars
  <1>7. Remembered'
    BY <1>1, <1>2 DEF RegistryInv, Remembered
  <1>8. KeepsTables
    BY <1>1, <1>2 DEF KeepsTables, Tabled, WaitersLive, Waits
  <1>9. QED
    BY <1>3, <1>4, <1>5, <1>6, <1>7, <1>8 DEF RegistryInv

LEMMA UnloadKeeps ==
  ASSUME RegistryInv, NEW s \in Script, Unload(s)
  PROVE  /\ RegistryInv'
         /\ "unload_pending" \notin Server => KeepsTables
  <1> DEFINE f == Plain("unload", s, <<>>)
  <1>1. /\ life[s] = "alive" /\ list' = ListWithout(addr[s]) /\ tables' = TablesWithout(addr[s])
        /\ UNCHANGED <<omp, exports, ready, addr, room, buffer, pending, history>>
        /\ \/ stack' = Append(stack, f) /\ life' = life
           \/ stack' = stack /\ life' = [life EXCEPT ![s] = "dead"] /\ ~KnownIn(list, addr[s])
    BY KnownIsIn DEF Unload
  <1>2. /\ stack \in Seq(Frame) /\ life \in [Script -> {"unborn", "alive", "dead"}]
        /\ Len(list) <= room /\ room \in Nat /\ list \in Seq(Entry) /\ Len(list) \in Nat
    BY LenProperties DEF RegistryInv, TypeOK
  <1>3. f \in Frame /\ f.fn = "unload" /\ f.script = s /\ ToSet(f.todo) = {}
    <2>1. <<>> \in Seq(Script) /\ s \in Script \cup {0}
      OBVIOUS
    <2>2. f \in Frame /\ f.fn = "unload" /\ f.script = s /\ f.todo = <<>>
      BY <2>1 DEF Plain, Frame
    <2>3. QED
      BY <2>2, EmptyElements
  <1> HIDE DEF f
  <1>4. /\ list' \in Seq(Entry) /\ Len(list') <= Len(list)
        /\ \A b : b # addr[s] => (KnownIn(list', b) <=> KnownIn(list, b))
    BY <1>1, EntryRemoved DEF RegistryInv
  <1>5. /\ stack' \in Seq(Frame) /\ life' \in [Script -> {"unborn", "alive", "dead"}]
        /\ \A r \in Script :
             /\ r # s => life'[r] = life[r]
             /\ Unloads(stack', r) => Unloads(stack, r) \/ r = s
             /\ Unloads(stack, r) => Unloads(stack', r)
             /\ Queues(stack', r) <=> Queues(stack, r)
             /\ Lists(stack', r) <=> Lists(stack, r)
        /\ life'[s] = "dead" \/ (life'[s] = "alive" /\ Unloads(stack', s))
    <2>1. CASE stack' = Append(stack, f) /\ life' = life
      BY <1>1, <1>2, <1>3, <2>1, FramePushed
    <2>2. CASE stack' = stack /\ life' = [life EXCEPT ![s] = "dead"]
      BY <1>2, <2>2
    <2>3. QED
      BY <1>1, <2>1, <2>2
  <1>6. /\ TablesWithout(addr[s]) \in [Entry -> Nat]
        /\ \A t \in Entry :
             TablesWithout(addr[s])[t] # 0 => t.at # addr[s] /\ TablesWithout(addr[s])[t] = tables[t]
    BY <1>1, TablesDo DEF RegistryInv
  <1>7. Len(list') <= room
    <2>1. Len(list') \in Nat
      BY <1>4, LenProperties
    <2>2. QED
      BY <1>2, <1>4, <2>1
  <1>8. TypeOK'
    BY <1>1, <1>4, <1>5, <1>6, <1>7 DEF RegistryInv, TypeOK, history
  <1>9. Placed' /\ Apart'
    BY <1>1, <1>5 DEF RegistryInv, Placed, Apart
  <1>10. Reached' /\ Announced'
    BY <1>1, <1>5 DEF RegistryInv, Reached, Announced, Waits, history
  <1>11. Found'
    BY <1>1, <1>4, <1>5 DEF RegistryInv, Found, Apart, history
  <1>12. Remembered'
    BY <1>1, <1>5 DEF RegistryInv, Remembered, history
  <1>13. ASSUME "unload_pending" \notin Server, Tabled, WaitersLive
         PROVE  Tabled' /\ WaitersLive'
    <2>1. ~Waits(s)
      BY <1>13 DEF Unload, StillPending, Waits, Lists
    <2>2. Tabled'
      BY <1>1, <1>5, <1>6, <1>13 DEF Tabled, Entry
    <2>3. WaitersLive'
      BY <1>1, <1>5, <1>13, <2>1 DEF WaitersLive, Waits
    <2>4. QED
      BY <2>2, <2>3
  <1>14. QED
    BY <1>8, <1>9, <1>10, <1>11, <1>12, <1>13 DEF RegistryInv, KeepsTables

\* The innermost frame goes.
LEMMA BelowIs ==
  ASSUME TypeOK, stack # <<>>
  PROVE  /\ Below \in Seq(Frame) /\ Top \in Frame
         /\ \A r : /\ Unloads(stack, r) <=> Unloads(Below, r) \/ (Top.fn = "unload" /\ Top.script = r)
                   /\ Queues(stack, r) <=> Queues(Below, r) \/ (Top.fn = "ready" /\ r \in ToSet(Top.todo))
                   /\ Lists(stack, r) <=> Lists(Below, r) \/ r \in ToSet(Top.todo)
         /\ Readying(stack) <=> Readying(Below) \/ Top.fn = "ready"
         /\ OneReady(stack) <=> OneReady(Below) /\ ~(Top.fn = "ready" /\ Readying(Below))
  <1>1. stack \in Seq(Frame)
    BY DEF TypeOK
  <1>2. Below \in Seq(Frame) /\ Top \in Frame
    BY <1>1, WithoutLast DEF Below, Top
  <1>3. ASSUME NEW r
        PROVE  /\ Unloads(stack, r) <=> Unloads(Below, r) \/ (Top.fn = "unload" /\ Top.script = r)
               /\ Queues(stack, r) <=> Queues(Below, r) \/ (Top.fn = "ready" /\ r \in ToSet(Top.todo))
               /\ Lists(stack, r) <=> Lists(Below, r) \/ r \in ToSet(Top.todo)
    BY <1>1, FramePopped DEF Below, Top
  <1>4. /\ Readying(stack) <=> Readying(Below) \/ Top.fn = "ready"
        /\ OneReady(stack) <=> OneReady(Below) /\ ~(Top.fn = "ready" /\ Readying(Below))
    BY <1>1, FramePopped DEF Below, Top
  <1>5. QED
    BY <1>2, <1>3, <1>4

LEMMA UnloadEndsKeeps ==
  ASSUME RegistryInv, UnloadEnds
  PROVE  RegistryInv' /\ KeepsTables
  <1> DEFINE s == Top.script
  <1>1. /\ stack # <<>> /\ Top.fn = "unload" /\ stack' = Below
        /\ life' = [life EXCEPT ![s] = "dead"]
        /\ UNCHANGED <<omp, exports, ready, addr, listVars, pending, tables, history>>
    BY DEF UnloadEnds
  <1>2. /\ Below \in Seq(Frame) /\ s \in Script \cup {0}
        /\ \A r : /\ Unloads(stack, r) <=> Unloads(Below, r) \/ s = r
                  /\ Queues(stack, r) <=> Queues(Below, r)
                  /\ Lists(Below, r) => Lists(stack, r)
    <2>1. Below \in Seq(Frame) /\ Top \in Frame
      BY <1>1, BelowIs DEF RegistryInv
    <2>2. s \in Script \cup {0}
      BY <2>1 DEF Frame
    <2>3. QED
      BY <1>1, <2>1, <2>2, BelowIs DEF RegistryInv
  <1> HIDE DEF s
  <1>3. life \in [Script -> {"unborn", "alive", "dead"}]
    BY DEF RegistryInv, TypeOK
  <1>4. /\ life' \in [Script -> {"unborn", "alive", "dead"}]
        /\ \A r \in Script : IF r = s THEN life'[r] = "dead" ELSE life'[r] = life[r]
    BY <1>1, <1>3
  <1>5. TypeOK'
    BY <1>1, <1>2, <1>4 DEF RegistryInv, TypeOK, listVars, history
  <1>6. Placed' /\ Apart'
    <2>1. Apart'
      BY <1>1, <1>4 DEF RegistryInv, Apart
    <2>2. \A r \in Script : life[r] # "unborn" => addr[r] \in Addresses
      BY DEF RegistryInv, Placed
    <2>3. \A r \in Script : life'[r] # "unborn" /\ r # s => addr[r] \in Addresses
      BY <1>4, <2>2
    <2>4. s \in Script => life[s] # "unborn"
      BY <1>2 DEF RegistryInv, Reached
    <2>5. QED
      BY <1>1, <2>1, <2>2, <2>3, <2>4 DEF Placed
  <1>7. Reached' /\ Announced'
    BY <1>1, <1>2, <1>4 DEF RegistryInv, Reached, Announced, Waits, history
  <1>8. Found'
    BY <1>1, <1>2, <1>4 DEF RegistryInv, Found, listVars, history
  <1>9. Remembered'
    BY <1>1, <1>2, <1>4 DEF RegistryInv, Remembered, history
  <1>10. KeepsTables
    BY <1>1, <1>2, <1>4 DEF KeepsTables, Tabled, WaitersLive, Waits, Entry
  <1>11. QED
    BY <1>5, <1>6, <1>7, <1>8, <1>9, <1>10 DEF RegistryInv

LEMMA OneFrame ==
  ASSUME NEW f \in Frame
  PROVE  /\ <<f>> \in Seq(Frame)
         /\ Readying(<<f>>) <=> f.fn = "ready"
         /\ OneReady(<<f>>)
         /\ \A r : /\ Unloads(<<f>>, r) <=> f.fn = "unload" /\ f.script = r
                   /\ Queues(<<f>>, r) <=> f.fn = "ready" /\ r \in ToSet(f.todo)
                   /\ Lists(<<f>>, r) <=> r \in ToSet(f.todo)
  <1>1. /\ <<f>> \in Seq(Frame) /\ DOMAIN <<f>> = {1} /\ <<f>>[1] = f
    OBVIOUS
  <1> DEFINE q == <<f>>
  <1>2. q[1] = f /\ DOMAIN q = {1} /\ q \in Seq(Frame)
    BY <1>1
  <1> HIDE DEF q
  <1>3. ASSUME NEW r
        PROVE  /\ Unloads(q, r) <=> f.fn = "unload" /\ f.script = r
               /\ Queues(q, r) <=> f.fn = "ready" /\ r \in ToSet(f.todo)
               /\ Lists(q, r) <=> r \in ToSet(f.todo)
    BY <1>2 DEF Unloads, Queues, Lists
  <1>4. (Readying(q) <=> f.fn = "ready") /\ OneReady(q)
    BY <1>2 DEF Readying, OneReady
  <1>5. QED
    BY <1>2, <1>3, <1>4 DEF q

LEMMA ReadyKeeps ==
  ASSUME RegistryInv, NEW found \in BOOLEAN, Ready(found)
  PROVE  RegistryInv' /\ KeepsTables
  <1> DEFINE q == IF found THEN pending ELSE <<>>
             f == Plain("ready", 0, q)
  <1>1. /\ stack = <<>> /\ stack' = <<f>> /\ exports' = found /\ ready' = TRUE
        /\ exports => found
        /\ pending' = IF found THEN <<>> ELSE pending
        /\ UNCHANGED <<omp, life, addr, listVars, tables, history>>
    BY DEF Ready
  <1>2. pending \in Seq(Script) /\ <<>> \in Seq(Script)
    BY DEF RegistryInv, TypeOK
  <1>3. /\ f \in Frame /\ f.fn = "ready"
        /\ ToSet(f.todo) = IF found THEN ToSet(pending) ELSE {}
    <2>1. q \in Seq(Script)
      BY <1>2
    <2> HIDE DEF q
    <2>2. f \in Frame /\ f.fn = "ready" /\ f.todo = q
      BY <2>1 DEF Plain, Frame
    <2>3. ToSet(q) = IF found THEN ToSet(pending) ELSE {}
      <3>1. CASE found
        BY <3>1 DEF q
      <3>2. CASE ~found
        BY <3>2, EmptyElements DEF q
      <3>3. QED
        BY <3>1, <3>2
    <2>4. QED
      BY <2>2, <2>3
  <1> HIDE DEF q, f
  <1>4. /\ pending' \in Seq(Script)
        /\ ToSet(pending') = IF found THEN {} ELSE ToSet(pending)
    BY <1>1, <1>2, EmptyElements
  <1>5. /\ stack' \in Seq(Frame)
        /\ \A r : /\ ~Unloads(stack', r) /\ ~Unloads(stack, r)
                  /\ Queues(stack', r) <=> (found /\ r \in ToSet(pending))
                  /\ ~Queues(stack, r)
                  /\ Lists(stack', r) <=> (found /\ r \in ToSet(pending))
    BY <1>1, <1>3, OneFrame, NoFrames
  <1>6. TypeOK'
    BY <1>1, <1>4, <1>5 DEF RegistryInv, TypeOK, listVars, history
  <1>7. Placed' /\ Apart'
    BY <1>1 DEF RegistryInv, Placed, Apart
  <1>8. Reached' /\ Announced'
    BY <1>1, <1>4, <1>5 DEF RegistryInv, Reached, Announced, Waits, history
  <1>9. Found'
    BY <1>1, <1>5 DEF RegistryInv, Found, listVars, history
  <1>10. Remembered'
    BY <1>1, <1>4, <1>5 DEF RegistryInv, Remembered, history
  <1>11. KeepsTables
    BY <1>1, <1>4, <1>5 DEF KeepsTables, Tabled, WaitersLive, Waits, Entry
  <1>12. QED
    BY <1>6, <1>7, <1>8, <1>9, <1>10, <1>11 DEF RegistryInv

LEMMA LoadPendingKeeps ==
  ASSUME RegistryInv, LoadPending
  PROVE  RegistryInv' /\ KeepsTables
  <1> DEFINE s == Head(Top.todo)
             f == [Top EXCEPT !.todo = Tail(Top.todo)]
             q == Append(Below, f)
  <1>1. /\ stack # <<>> /\ Top.fn = "ready" /\ Top.todo # <<>>
        /\ AmxLoad(s, q)
        /\ UNCHANGED <<omp, exports, ready, life, addr, pending, delivered, abandoned>>
    BY DEF LoadPending
  <1>2. /\ Below \in Seq(Frame) /\ Top \in Frame
        /\ \A r : /\ Unloads(stack, r) <=> Unloads(Below, r)
                  /\ Queues(stack, r) <=> Queues(Below, r) \/ r \in ToSet(Top.todo)
                  /\ Lists(stack, r) <=> Lists(Below, r) \/ r \in ToSet(Top.todo)
    BY <1>1, BelowIs DEF RegistryInv
  <1>3. /\ s \in Script /\ Tail(Top.todo) \in Seq(Script)
        /\ ToSet(Top.todo) = {s} \cup ToSet(Tail(Top.todo))
    <2>1. Top.todo \in Seq(Script)
      BY <1>2 DEF Frame
    <2>2. QED
      BY <1>1, <2>1, HeadAndTail
  <1>4. f \in Frame /\ f.fn = "ready" /\ f.todo = Tail(Top.todo)
    BY <1>1, <1>2, <1>3 DEF Frame
  <1> HIDE DEF s, f
  <1>5. /\ q \in Seq(Frame)
        /\ \A r : /\ Unloads(q, r) <=> Unloads(Below, r)
                  /\ Queues(q, r) <=> Queues(Below, r) \/ r \in ToSet(Tail(Top.todo))
                  /\ Lists(q, r) <=> Lists(Below, r) \/ r \in ToSet(Tail(Top.todo))
    BY <1>2, <1>4, FramePushed
  <1> HIDE DEF q
  <1>6. \A r \in Script : /\ Unloads(q, r) <=> Unloads(stack, r)
                          /\ Lists(q, r) => Lists(stack, r)
                          /\ Queues(stack, r) => Queues(q, r) \/ r = s
    BY <1>2, <1>3, <1>5
  <1>7. Waits(s)
    BY <1>2, <1>3 DEF Waits
  <1>8. s \in delivered /\ life[s] # "unborn"
    BY <1>3, <1>7 DEF RegistryInv, Announced, Reached
  <1>9. delivered' = delivered \cup {s}
    BY <1>1, <1>8
  <1>10. RegistryInv' /\ (life[s] = "alive" /\ ~Unloads(stack, s) => KeepsTables)
    BY <1>1, <1>3, <1>5, <1>6, <1>8, <1>9, AmxLoadKeeps
  <1>11. WaitersLive => life[s] = "alive" /\ ~Unloads(stack, s)
    BY <1>3, <1>7 DEF WaitersLive
  <1>12. QED
    BY <1>10, <1>11 DEF KeepsTables

\* A frame that lists no script and unloads none comes or goes.
LEMMA StackOnlyKeeps ==
  ASSUME RegistryInv, stack' \in Seq(Frame),
         UNCHANGED <<omp, exports, life, addr, listVars, pending, tables, delivered, served>>,
         ready' = ready,
         abandoned' \in SUBSET Script, abandoned \subseteq abandoned',
         \A r \in Script : /\ Unloads(stack', r) <=> Unloads(stack, r)
                           /\ Queues(stack, r) => Queues(stack', r) \/ r \in abandoned'
                           /\ Lists(stack', r) => Lists(stack, r)
  PROVE  RegistryInv' /\ KeepsTables
  <1>1. TypeOK'
    BY DEF RegistryInv, TypeOK, listVars
  <1>2. Placed' /\ Apart'
    BY DEF RegistryInv, Placed, Apart
  <1>3. Reached' /\ Announced'
    BY DEF RegistryInv, Reached, Announced, Waits
  <1>4. Found'
    BY DEF RegistryInv, Found, listVars
  <1>5. Remembered'
    BY DEF RegistryInv, Remembered
  <1>6. KeepsTables
    BY DEF KeepsTables, Tabled, WaitersLive, Waits, Entry
  <1>7. QED
    BY <1>1, <1>2, <1>3, <1>4, <1>5, <1>6 DEF RegistryInv

LEMMA ReadyHookKeeps ==
  ASSUME RegistryInv, ReadyHook
  PROVE  RegistryInv' /\ KeepsTables
  <1> DEFINE q == Append(Below, Plain("hook", 0, <<>>))
  <1>1. /\ stack # <<>> /\ Top.fn = "ready" /\ ToSet(Top.todo) = {} /\ stack' = q
        /\ UNCHANGED <<omp, exports, ready, life, addr, listVars, pending, tables, history>>
    BY EmptyElements DEF ReadyHook
  <1>2. /\ Below \in Seq(Frame)
        /\ \A r : /\ Unloads(stack, r) <=> Unloads(Below, r)
                  /\ Queues(stack, r) <=> Queues(Below, r)
                  /\ Lists(stack, r) <=> Lists(Below, r)
    BY <1>1, BelowIs DEF RegistryInv
  <1>3. SameCalls(Below, q)
    BY <1>2, HookOnStack
  <1> HIDE DEF q
  <1>4. abandoned' \in SUBSET Script
    BY <1>1 DEF RegistryInv, TypeOK, history
  <1>5. QED
    BY <1>1, <1>2, <1>3, <1>4, StackOnlyKeeps DEF SameCalls, history

LEMMA ReturnKeeps ==
  ASSUME RegistryInv, Return
  PROVE  RegistryInv' /\ KeepsTables
  <1>1. /\ stack # <<>> /\ Top.fn \notin {"unload", "ready"} /\ stack' = Below
        /\ UNCHANGED <<omp, exports, ready, life, addr, listVars, pending, tables, history>>
    BY DEF Return
  <1>2. /\ Below \in Seq(Frame)
        /\ \A r : /\ Unloads(stack, r) <=> Unloads(Below, r)
                  /\ Queues(stack, r) <=> Queues(Below, r)
                  /\ Lists(Below, r) => Lists(stack, r)
    BY <1>1, BelowIs DEF RegistryInv
  <1>3. abandoned' \in SUBSET Script
    BY <1>1 DEF RegistryInv, TypeOK, history
  <1>4. QED
    BY <1>1, <1>2, <1>3, StackOnlyKeeps DEF history

LEMMA HookKeeps ==
  ASSUME RegistryInv, HookCalled
  PROVE  RegistryInv' /\ KeepsTables
  <1>1. /\ <<>> \in Seq(Frame) /\ stack' = Append(<<>>, Plain("hook", 0, <<>>)) /\ stack = <<>>
        /\ UNCHANGED <<omp, exports, ready, life, addr, listVars, pending, tables, history>>
    BY DEF HookCalled
  <1>2. SameCalls(stack, stack')
    BY <1>1, HookOnStack
  <1>3. abandoned' \in SUBSET Script
    BY <1>1 DEF RegistryInv, TypeOK, history
  <1>4. QED
    BY <1>1, <1>2, <1>3, StackOnlyKeeps DEF SameCalls, history

LEMMA PanicKeeps ==
  ASSUME RegistryInv, Panic
  PROVE  RegistryInv' /\ KeepsTables
  <1>1. /\ stack # <<>> /\ Top.fn = "load"
        /\ UNCHANGED <<omp, exports, ready, life, addr, listVars, pending, tables, delivered, served>>
    BY DEF Panic
  <1>2. /\ Below \in Seq(Frame)
        /\ \A r : /\ Unloads(stack, r) <=> Unloads(Below, r)
                  /\ Queues(stack, r) <=> Queues(Below, r)
                  /\ Lists(Below, r) => Lists(stack, r)
    BY <1>1, BelowIs DEF RegistryInv
  <1>3. abandoned \in SUBSET Script
    BY DEF RegistryInv, TypeOK
  <1>4. CASE Below # <<>> /\ Last(Below).fn = "ready"
    <2> DEFINE f == Last(Below)
               q == SubSeq(Below, 1, Len(Below) - 1)
    <2>1. /\ stack' = SubSeq(stack, 1, Len(stack) - 2)
          /\ abandoned' = abandoned \cup ToSet(f.todo)
      BY <1>4 DEF Panic
    <2>2. q = SubSeq(stack, 1, Len(stack) - 2) /\ f = Below[Len(Below)]
      BY <1>1, <1>4, TwoPopped DEF RegistryInv, TypeOK, Below
    <2>3. /\ q \in Seq(Frame) /\ f \in Frame
          /\ \A r : /\ Unloads(Below, r) <=> Unloads(q, r) \/ (f.fn = "unload" /\ f.script = r)
                    /\ Queues(Below, r) <=> Queues(q, r) \/ (f.fn = "ready" /\ r \in ToSet(f.todo))
                    /\ Lists(Below, r) <=> Lists(q, r) \/ r \in ToSet(f.todo)
      BY <1>2, <1>4, <2>2, FramePopped
    <2>4. ToSet(f.todo) \subseteq Script
      BY <2>3 DEF Frame, ToSet
    <2> HIDE DEF f, q
    <2>5. f.fn = "ready"
      BY <1>4 DEF f
    <2>6. QED
      BY <1>1, <1>2, <1>3, <2>1, <2>2, <2>3, <2>4, <2>5, StackOnlyKeeps
  <1>5. CASE ~(Below # <<>> /\ Last(Below).fn = "ready")
    <2>1. stack' = Below /\ abandoned' = abandoned
      BY <1>5 DEF Panic
    <2>2. QED
      BY <1>1, <1>2, <1>3, <2>1, StackOnlyKeeps
  <1>6. QED
    BY <1>4, <1>5

\* A native's frame lists nothing; the list gains an entry at most.
LEMMA NativeDoes ==
  ASSUME TypeOK, Placed, NEW s \in Script, Native(s)
  PROVE  /\ list' \in Seq(Entry) /\ Len(list') <= room' /\ room' \in Nat /\ buffer' \in Nat
         /\ \A a : KnownIn(list, a) => KnownIn(list', a)
         /\ SameCalls(stack, stack')
  <1>1. life[s] = "alive" /\ addr[s] \in Addresses
    BY DEF Native, Placed
  <1>2. /\ stack \in Seq(Frame) /\ list \in Seq(Entry) /\ Len(list) <= room
        /\ room \in Nat /\ buffer \in Nat
    BY DEF TypeOK
  <1>3. /\ list' \in Seq(Entry) /\ Len(list') <= room' /\ room' \in Nat /\ buffer' \in Nat
        /\ \A a : KnownIn(list, a) => KnownIn(list', a)
        /\ SameCalls(stack, stack')
    <2>1. CASE Known(addr[s])
      <3>1. /\ stack' = Append(stack, Holding("native", s, First(addr[s]), buffer))
            /\ list' = list /\ room' = room /\ buffer' = buffer
        BY <2>1 DEF Native, listVars
      <3>2. First(addr[s]) \in Nat
        <4>1. First(addr[s]) \in 1 .. Len(list) /\ Len(list) \in Nat
          BY <1>2, <2>1, FirstHasAddress, LenProperties
        <4>2. QED
          BY <4>1
      <3>3. SameCalls(stack, stack')
        BY <1>2, <3>1, <3>2, CallHolds
      <3>4. QED
        BY <1>2, <3>1, <3>3
    <2>2. CASE ~Known(addr[s])
      <3>1. Insert(s) /\ stack' = Append(stack, Holding("native", s, Len(list'), buffer'))
        BY <2>2 DEF Native
      <3>2. /\ list' \in Seq(Entry) /\ Len(list') \in Nat /\ Len(list') <= room'
            /\ room' \in Nat /\ buffer' \in Nat
            /\ \A a : KnownIn(list', a) <=> KnownIn(list, a) \/ a = addr[s]
        BY <1>1, <3>1, EntryAdded
      <3>3. SameCalls(stack, stack')
        BY <1>2, <3>1, <3>2, CallHolds
      <3>4. QED
        BY <3>2, <3>3
    <2>3. QED
      BY <2>1, <2>2
  <1>4. QED
    BY <1>3

LEMMA NativeKeeps ==
  ASSUME RegistryInv, NEW s \in Script, Native(s)
  PROVE  RegistryInv' /\ KeepsTables
  <1>1. UNCHANGED <<omp, exports, ready, life, addr, pending, tables, history>>
    BY DEF Native
  <1>3. /\ list' \in Seq(Entry) /\ Len(list') <= room' /\ room' \in Nat /\ buffer' \in Nat
        /\ \A a : KnownIn(list, a) => KnownIn(list', a)
        /\ SameCalls(stack, stack')
    BY NativeDoes DEF RegistryInv
  <1>4. TypeOK'
    BY <1>1, <1>3 DEF RegistryInv, TypeOK, SameCalls, history
  <1>5. Placed' /\ Apart'
    BY <1>1 DEF RegistryInv, Placed, Apart
  <1>6. Reached' /\ Announced'
    BY <1>1, <1>3 DEF RegistryInv, Reached, Announced, Waits, SameCalls, history
  <1>7. Found'
    BY <1>1, <1>3 DEF RegistryInv, Found, SameCalls, history
  <1>8. Remembered'
    BY <1>1, <1>3 DEF RegistryInv, Remembered, SameCalls, history
  <1>9. KeepsTables
    BY <1>1, <1>3 DEF KeepsTables, Tabled, WaitersLive, Waits, SameCalls, Entry
  <1>10. QED
    BY <1>4, <1>5, <1>6, <1>7, <1>8, <1>9 DEF RegistryInv

(***************************************************************************)
(* The invariant along the behaviours, with and without the component.     *)
(***************************************************************************)

LEMMA RegistryInit == Init => RegistryInv /\ Tabled /\ WaitersLive
  <1> SUFFICES ASSUME Init
              PROVE  RegistryInv /\ Tabled /\ WaitersLive
    OBVIOUS
  <1>2. ToSet(pending) = {} /\ \A s : ~Lists(stack, s) /\ ~Unloads(stack, s)
    BY EmptyElements, NoFrames DEF Init
  <1>3. TypeOK
    <2>1. {omp, exports, ready} \subseteq BOOLEAN
      BY Zenon DEF Init
    <2>2. life \in [Script -> {"unborn", "alive", "dead"}] /\ addr \in [Script -> Addresses \cup {NoAddress}]
      BY DEF Init
    <2>3. tables \in [Entry -> Nat]
      BY DEF Init
    <2>4. list \in Seq(Entry) /\ Len(list) <= room /\ pending \in Seq(Script) /\ stack \in Seq(Frame)
      BY EmptyElements DEF Init
    <2>5. {room, buffer} \subseteq Nat /\ {delivered, served, abandoned} \subseteq SUBSET Script
      BY DEF Init
    <2>6. QED
      BY <2>1, <2>2, <2>3, <2>4, <2>5 DEF TypeOK
  <1>4. Placed /\ Apart /\ Reached /\ Announced
    BY <1>2 DEF Init, Placed, Apart, Reached, Announced, Waits
  <1>5. Found /\ Remembered
    BY DEF Init, Found, Remembered
  <1>6. Tabled /\ WaitersLive
    BY <1>2 DEF Init, Tabled, WaitersLive, Waits
  <1>7. QED
    BY <1>3, <1>4, <1>5, <1>6 DEF RegistryInv

LEMMA RegistryStutters ==
  ASSUME RegistryInv, UNCHANGED vars
  PROVE  RegistryInv' /\ KeepsTables
  <1>1. UNCHANGED <<omp, exports, ready, life, addr, listVars, pending, tables, stack, delivered, served, abandoned>>
    BY DEF vars, history
  <1>2. stack' \in Seq(Frame) /\ abandoned' \in SUBSET Script
    BY <1>1 DEF RegistryInv, TypeOK
  <1>3. QED
    BY <1>1, <1>2, StackOnlyKeeps

LEMMA StepKeeps ==
  ASSUME RegistryInv, Step \/ UNCHANGED vars
  PROVE  /\ RegistryInv'
         /\ "unload_pending" \notin Server => KeepsTables
  <1>1. ASSUME NEW s \in Script, NEW a \in Addresses, Create(s, a)
        PROVE  RegistryInv' /\ KeepsTables
    BY <1>1, CreateKeeps
  <1>2. ASSUME NEW s \in Script, LoadNow(s) \/ LoadLater(s) \/ Native(s)
        PROVE  RegistryInv' /\ KeepsTables
    BY <1>2, LoadNowKeeps, LoadLaterKeeps, NativeKeeps
  <1>3. ASSUME NEW s \in Script, Unload(s)
        PROVE  RegistryInv' /\ ("unload_pending" \notin Server => KeepsTables)
    BY <1>3, UnloadKeeps
  <1>4. ASSUME NEW found \in BOOLEAN, Ready(found)
        PROVE  RegistryInv' /\ KeepsTables
    BY <1>4, ReadyKeeps
  <1>5. CASE UnloadEnds \/ LoadPending \/ ReadyHook \/ Return \/ Panic \/ HookCalled
    BY <1>5, UnloadEndsKeeps, LoadPendingKeeps, ReadyHookKeeps, ReturnKeeps, PanicKeeps, HookKeeps
  <1>6. CASE UNCHANGED vars
    BY <1>6, RegistryStutters
  <1>7. QED
    BY <1>1, <1>2, <1>3, <1>4, <1>5, <1>6 DEF Step, Next

LEMMA TablesStep ==
  ASSUME TablesInv, Step \/ UNCHANGED vars, "unload_pending" \notin Server
  PROVE  TablesInv'
  BY StepKeeps DEF TablesInv, KeepsTables

LEMMA RegistryShows ==
  RegistryInv => TypeOK /\ LoadedIsFound /\ NoScriptForgotten
  <1> SUFFICES ASSUME RegistryInv
              PROVE  TypeOK /\ LoadedIsFound /\ NoScriptForgotten
    OBVIOUS
  <1>2. LoadedIsFound
    BY KnownIsIn DEF RegistryInv, Found, LoadedIsFound, InService, BeingUnloaded, Unloads
  <1>3. NoScriptForgotten
    BY DEF RegistryInv, Remembered, NoScriptForgotten, Queues
  <1>4. QED
    BY <1>2, <1>3 DEF RegistryInv

LEMMA TablesShow == TablesInv => TablesAreOwn
  <1>1. SUFFICES ASSUME TablesInv, NEW s \in Script, life[s] = "alive",
                        NEW t \in Entry, t.at = addr[s], tables[t] # 0
                 PROVE  tables[t] = 1 /\ t.of = s
    BY DEF TablesAreOwn
  <1>2. /\ tables[t] = 1 /\ t.of \in Script
        /\ life[t.of] = "alive" /\ addr[t.of] = addr[s]
    BY <1>1 DEF TablesInv, Tabled, Entry
  <1>3. QED
    BY <1>1, <1>2 DEF TablesInv, RegistryInv, Apart

(***************************************************************************)
(* The registry's theorems, for Spec and for the component's OmpSpec.      *)
(***************************************************************************)

LEMMA OmpStepIsStep ==
  [OmpNext]_allVars => Step \/ UNCHANGED vars
  BY DEF OmpNext, RegistryStep, PluginReturns, ServerReady, ReadyEnds, PanicEndsReady, Timeout,
         OnFree, FreeLater, FreeTimers, FreePawn, FreeSelf, ReapTimer, Idle, Step, Next,
         HookCalled, allVars

LEMMA RegistryAlways ==
  /\ Spec => []RegistryInv
  /\ OmpSpec => []RegistryInv
  <1>1. Init => RegistryInv
    BY RegistryInit
  <1>2. OmpInit => Init
    BY DEF OmpInit
  <1>3. RegistryInv /\ [Next]_vars => RegistryInv'
    BY StepKeeps DEF Step
  <1>4. RegistryInv /\ [OmpNext]_allVars => RegistryInv'
    BY StepKeeps, OmpStepIsStep
  <1>5. Spec => []RegistryInv
    BY <1>1, <1>3, PTL DEF Spec
  <1>6. OmpSpec => []RegistryInv
    BY <1>1, <1>2, <1>4, PTL DEF OmpSpec
  <1>7. QED
    BY <1>5, <1>6

\* Type correctness of the registry: among the rest, amx_list never outgrows the
\* buffer its entries are referenced in.
THEOREM RegistryTypeCorrect == (Spec => []TypeOK) /\ (OmpSpec => []TypeOK)
  BY RegistryAlways, RegistryShows, PTL

\* amx::get answers for every script in service: insert_amx, swap_remove,
\* entries left behind at reused addresses and second loads notwithstanding.
THEOREM ServiceFindsScript == (Spec => []LoadedIsFound) /\ (OmpSpec => []LoadedIsFound)
  BY RegistryAlways, RegistryShows, PTL

\* omp_pending_amx and on_ready lose no script that open.mp delivered, but those
\* behind one whose on_amx_load panicked.
THEOREM WaitersAreServed == (Spec => []NoScriptForgotten) /\ (OmpSpec => []NoScriptForgotten)
  BY RegistryAlways, RegistryShows, PTL

\* A script has one event table, its own, where the server leaves scripts that
\* wait for on_ready loaded.
THEOREM OneTableEach ==
  ASSUME "unload_pending" \notin Server
  PROVE  (Spec => []TablesAreOwn) /\ (OmpSpec => []TablesAreOwn)
  <1>1. Init => TablesInv
    BY RegistryInit DEF TablesInv
  <1>2. OmpInit => Init
    BY DEF OmpInit
  <1>3. TablesInv /\ [Next]_vars => TablesInv'
    BY TablesStep DEF Step
  <1>4. TablesInv /\ [OmpNext]_allVars => TablesInv'
    BY TablesStep, OmpStepIsStep
  <1>5. TablesInv => TablesAreOwn
    BY TablesShow
  <1>6. Spec => []TablesAreOwn
    BY <1>1, <1>3, <1>5, PTL DEF Spec
  <1>7. OmpSpec => []TablesAreOwn
    BY <1>1, <1>2, <1>4, <1>5, PTL DEF OmpSpec
  <1>8. QED
    BY <1>6, <1>7

(***************************************************************************)
(* The inductive invariant of the life cycle.                              *)
(***************************************************************************)

LifeType ==
  /\ components \in SUBSET Components /\ freeing \in Components \cup {"none"}
  /\ tick_timer \in BOOLEAN /\ tick_handler \in BOOLEAN /\ pawn_handler \in BOOLEAN
  /\ registered \in BOOLEAN /\ wanted \in BOOLEAN /\ cut \in BOOLEAN /\ uncreated \in BOOLEAN
  /\ timer \in {"none", "running", "killed", "gone"}
  /\ tickBox \in {"none", "live", "freed"} /\ pawnBox \in {"none", "live", "freed"}
  /\ dropped \in [{"tick", "pawn"} -> Nat]

\* on_ready runs once; until its end there is no timer, and nothing is freed.
BeforeTimer ==
  /\ OneReady(stack)
  /\ ready => omp
  /\ Readying(stack) => ready
  /\ ~ready \/ Readying(stack) =>
       /\ timer = "none" /\ tickBox = "none" /\ ~tick_timer
       /\ freeing = "none" /\ (omp => "self" \in components)

\* The runtime's pointer to the timer, the timer, its handler and its drop.
TimerOwned ==
  /\ tick_handler = tick_timer
  /\ tick_timer => timer = "running" /\ freeing # "timers"
  /\ timer = "running" => "self" \in components /\ (tick_timer \/ freeing = "timers")
  /\ timer \in {"running", "killed"} => "timers" \in components
  /\ tickBox = "live" <=> timer \in {"running", "killed"}
  /\ dropped["tick"] = IF tickBox = "freed" THEN 1 ELSE 0

\* The same for the handler of Pawn's events.
HandlerOwned ==
  /\ pawn_handler <=> pawnBox = "live"
  /\ pawn_handler => "self" \in components
  /\ registered => pawn_handler /\ "pawn" \in components
  /\ dropped["pawn"] = IF pawnBox = "freed" THEN 1 ELSE 0

Armed ==
  /\ omp /\ ready /\ wanted /\ ~cut /\ ~uncreated
  /\ {"self", "timers"} \subseteq components /\ freeing # "timers" /\ ~Readying(stack)
  => tick_timer

LifeInv ==
  /\ LifeType /\ BeforeTimer /\ TimerOwned /\ HandlerOwned /\ Armed
  /\ freeing # "none" => freeing \in components

\* A stack that is in on_ready if the old one was, and no more often.
SameReadying ==
  /\ Readying(stack') <=> Readying(stack)
  /\ OneReady(stack) => OneReady(stack')

LEMMA RegistryReadying ==
  ASSUME RegistryInv, RegistryStep
  PROVE  SameReadying /\ UNCHANGED <<lifeVars, omp, ready>>
  <1>1. stack \in Seq(Frame) /\ TypeOK /\ Placed
    BY DEF RegistryInv, TypeOK
  <1>2. ASSUME NEW s \in Script, NEW a \in Addresses, Create(s, a)
        PROVE  SameReadying /\ UNCHANGED <<omp, ready>>
    BY <1>2 DEF Create, SameReadying
  <1>3. ASSUME NEW s \in Script, LoadNow(s)
        PROVE  SameReadying /\ UNCHANGED <<omp, ready>>
    BY <1>1, <1>3, LoadDoes DEF LoadNow, SameReadying, SameCalls
  <1>4. ASSUME NEW s \in Script, LoadLater(s)
        PROVE  SameReadying /\ UNCHANGED <<omp, ready>>
    BY <1>4 DEF LoadLater, SameReadying
  <1>5. ASSUME NEW s \in Script, Unload(s)
        PROVE  SameReadying /\ UNCHANGED <<omp, ready>>
    <2> DEFINE f == Plain("unload", s, <<>>)
    <2>1. <<>> \in Seq(Script) /\ s \in Script \cup {0}
      OBVIOUS
    <2>2. f \in Frame /\ f.fn = "unload"
      BY <2>1 DEF Plain, Frame
    <2>3. stack' = Append(stack, f) \/ stack' = stack
      BY <1>5 DEF Unload
    <2> HIDE DEF f
    <2>4. SameReadying
      BY <1>1, <2>2, <2>3, FramePushed DEF SameReadying
    <2>5. QED
      BY <1>5, <2>4 DEF Unload
  <1>6. ASSUME NEW s \in Script, Native(s)
        PROVE  SameReadying /\ UNCHANGED <<omp, ready>>
    BY <1>1, <1>6, NativeDoes DEF Native, SameReadying, SameCalls
  <1>7. ASSUME UnloadEnds
        PROVE  SameReadying /\ UNCHANGED <<omp, ready>>
    BY <1>1, <1>7, BelowIs DEF UnloadEnds, SameReadying
  <1>8. ASSUME LoadPending
        PROVE  SameReadying /\ UNCHANGED <<omp, ready>>
    <2> DEFINE s == Head(Top.todo)
               f == [Top EXCEPT !.todo = Tail(Top.todo)]
               q == Append(Below, f)
    <2>1. /\ stack # <<>> /\ Top.fn = "ready" /\ Top.todo # <<>> /\ AmxLoad(s, q)
          /\ UNCHANGED <<omp, ready>>
      BY <1>8 DEF LoadPending
    <2>2. /\ Below \in Seq(Frame) /\ Top \in Frame
          /\ OneReady(stack) <=> OneReady(Below) /\ ~Readying(Below)
          /\ Readying(stack)
          /\ \A r : Lists(stack, r) <=> Lists(Below, r) \/ r \in ToSet(Top.todo)
      BY <1>1, <2>1, BelowIs
    <2>3. s \in Script /\ Tail(Top.todo) \in Seq(Script) /\ s \in ToSet(Top.todo)
      <3>1. Top.todo \in Seq(Script)
        BY <2>2 DEF Frame
      <3>2. QED
        BY <2>1, <3>1, HeadAndTail
    <2>4. f \in Frame /\ f.fn = "ready"
      BY <2>1, <2>2, <2>3 DEF Frame
    <2> HIDE DEF s, f
    <2>5. /\ q \in Seq(Frame) /\ Readying(q)
          /\ OneReady(q) <=> OneReady(Below) /\ ~Readying(Below)
      BY <2>2, <2>4, FramePushed
    <2> HIDE DEF q
    <2>6. life[s] # "unborn"
      BY <2>2, <2>3 DEF RegistryInv, Announced, Waits, Reached
    <2>7. SameCalls(q, stack')
      BY <1>1, <2>1, <2>3, <2>5, <2>6, LoadDoes
    <2>8. QED
      BY <2>1, <2>2, <2>5, <2>7 DEF SameReadying, SameCalls
  <1>9. UNCHANGED lifeVars
    BY DEF RegistryStep
  <1>10. QED
    BY <1>2, <1>3, <1>4, <1>5, <1>6, <1>7, <1>8, <1>9 DEF RegistryStep

LEMMA RegistryKeepsLife ==
  ASSUME LifeInv, SameReadying, UNCHANGED <<lifeVars, omp, ready>>
  PROVE  LifeInv'
  <1>1. UNCHANGED <<components, freeing, timer, registered, wanted, tick_timer, tick_handler,
                    pawn_handler, tickBox, pawnBox, dropped, cut, uncreated, omp, ready>>
    BY DEF lifeVars, server, slots, boxes
  <1>2. LifeType' /\ TimerOwned' /\ HandlerOwned'
    BY <1>1 DEF LifeInv, LifeType, TimerOwned, HandlerOwned
  <1>3. BeforeTimer'
    BY <1>1 DEF LifeInv, BeforeTimer, SameReadying
  <1>4. Armed'
    BY <1>1 DEF LifeInv, Armed, SameReadying
  <1>5. QED
    BY <1>1, <1>2, <1>3, <1>4 DEF LifeInv

LEMMA ReturnKeepsLife ==
  ASSUME RegistryInv, LifeInv, PluginReturns
  PROVE  LifeInv'
  <1>1. SameReadying
    BY BelowIs DEF RegistryInv, PluginReturns, Return, SameReadying
  <1>2. UNCHANGED <<lifeVars, omp, ready>>
    BY DEF PluginReturns, Return
  <1>3. QED
    BY <1>1, <1>2, RegistryKeepsLife

LEMMA ServerReadyKeepsLife ==
  ASSUME RegistryInv, LifeInv, NEW found \in BOOLEAN, ServerReady(found)
  PROVE  LifeInv'
  <1> DEFINE q == IF found THEN pending ELSE <<>>
             f == Plain("ready", 0, q)
  <1>1. /\ omp /\ ~ready /\ stack' = <<f>> /\ ready' = TRUE /\ omp' = omp
        /\ UNCHANGED <<components, freeing, timer, registered, wanted, tick_timer, tick_handler,
                        pawn_handler, tickBox, pawnBox, dropped, cut, uncreated>>
    BY DEF ServerReady, Ready, lifeVars, server, slots, boxes
  <1>2. Readying(stack') /\ OneReady(stack')
    <2>1. q \in Seq(Script)
      BY DEF RegistryInv, TypeOK
    <2> HIDE DEF q
    <2>2. f \in Frame /\ f.fn = "ready"
      BY <2>1 DEF Plain, Frame
    <2> HIDE DEF f
    <2>3. QED
      BY <1>1, <2>2, OneFrame
  <1> HIDE DEF f
  <1>3. LifeType' /\ TimerOwned' /\ HandlerOwned'
    BY <1>1 DEF LifeInv, LifeType, TimerOwned, HandlerOwned
  <1>4. BeforeTimer'
    BY <1>1, <1>2 DEF LifeInv, BeforeTimer
  <1>5. Armed'
    BY <1>2 DEF Armed
  <1>6. QED
    BY <1>1, <1>3, <1>4, <1>5 DEF LifeInv

LEMMA ReadyEndsKeepsLife ==
  ASSUME RegistryInv, LifeInv, NEW made \in BOOLEAN, ReadyEnds(made)
  PROVE  LifeInv'
  <1>1. /\ stack # <<>> /\ Top.fn = "ready"
        /\ stack' = Append(Below, Plain("hook", 0, <<>>)) /\ omp' = omp /\ ready' = ready
        /\ UNCHANGED <<components, freeing, wanted, pawn_handler, registered, pawnBox, cut>>
    BY DEF ReadyEnds, ReadyHook
  <1>2. /\ Below \in Seq(Frame) /\ Readying(stack)
        /\ OneReady(stack) => OneReady(Below) /\ ~Readying(Below)
    BY <1>1, BelowIs DEF RegistryInv
  <1>3. ~Readying(stack') /\ OneReady(stack')
    BY <1>1, <1>2, HookOnStack DEF SameCalls, LifeInv, BeforeTimer
  <1>4. /\ omp /\ ready /\ timer = "none" /\ tickBox = "none" /\ ~tick_timer /\ ~tick_handler
        /\ freeing = "none" /\ "self" \in components /\ dropped["tick"] = 0
        /\ dropped \in [{"tick", "pawn"} -> Nat]
    BY <1>2 DEF LifeInv, BeforeTimer, TimerOwned, LifeType
  <1>5. CASE ~(wanted /\ Present("timers"))
    <2>1. UNCHANGED <<tickBox, timer, tick_timer, tick_handler, dropped, uncreated>>
      BY <1>5 DEF ReadyEnds, CreateTimer
    <2>2. LifeType' /\ TimerOwned' /\ HandlerOwned'
      BY <1>1, <2>1 DEF LifeInv, LifeType, TimerOwned, HandlerOwned
    <2>3. BeforeTimer'
      BY <1>1, <1>3, <1>4 DEF BeforeTimer
    <2>4. Armed'
      BY <1>1, <1>5 DEF Armed, Present
    <2>5. QED
      BY <1>1, <1>4, <2>2, <2>3, <2>4 DEF LifeInv
  <1>6. CASE wanted /\ Present("timers")
    <2>1. /\ tickBox' = IF made THEN "live" ELSE "freed"
          /\ timer' = IF made THEN "running" ELSE "none"
          /\ tick_timer' = made /\ tick_handler' = made
          /\ dropped' = [dropped EXCEPT !["tick"] = @ + (IF made THEN 0 ELSE 1)]
          /\ uncreated' = ~made
      BY <1>6 DEF ReadyEnds, CreateTimer
    <2>2. /\ dropped' \in [{"tick", "pawn"} -> Nat] /\ dropped'["pawn"] = dropped["pawn"]
          /\ dropped'["tick"] = IF made THEN 0 ELSE 1
      BY <1>4, <2>1
    <2>3. LifeType'
      BY <1>1, <2>1, <2>2 DEF LifeInv, LifeType
    <2>4. TimerOwned'
      BY <1>1, <1>4, <1>6, <2>1, <2>2 DEF TimerOwned, Present
    <2>5. HandlerOwned'
      BY <1>1, <2>2 DEF LifeInv, HandlerOwned
    <2>6. BeforeTimer'
      BY <1>1, <1>3, <1>4 DEF BeforeTimer
    <2>7. Armed'
      BY <2>1 DEF Armed
    <2>8. QED
      BY <1>1, <1>4, <2>3, <2>4, <2>5, <2>6, <2>7 DEF LifeInv
  <1>7. QED
    BY <1>5, <1>6

LEMMA PanicKeepsLife ==
  ASSUME RegistryInv, LifeInv, PanicEndsReady
  PROVE  LifeInv'
  <1>1. /\ stack # <<>> /\ Top.fn = "load" /\ omp' = omp /\ ready' = ready
        /\ cut' = (cut \/ (Below # <<>> /\ Last(Below).fn = "ready"))
        /\ UNCHANGED <<components, freeing, timer, registered, wanted, tick_timer, tick_handler,
                        pawn_handler, tickBox, pawnBox, dropped, uncreated>>
    BY DEF PanicEndsReady, Panic, server, slots, boxes
  <1>2. /\ Below \in Seq(Frame)
        /\ Readying(stack) <=> Readying(Below)
        /\ OneReady(stack) <=> OneReady(Below)
    BY <1>1, BelowIs DEF RegistryInv
  <1>3. /\ OneReady(stack) => OneReady(stack')
        /\ Readying(stack') => Readying(stack)
        /\ Readying(stack) => Readying(stack') \/ cut'
        /\ cut => cut'
    <2>1. CASE Below # <<>> /\ Last(Below).fn = "ready"
      <3> DEFINE q == SubSeq(Below, 1, Len(Below) - 1)
      <3>1. stack' = SubSeq(stack, 1, Len(stack) - 2) /\ cut'
        BY <1>1, <2>1 DEF PanicEndsReady, Panic
      <3>2. q = SubSeq(stack, 1, Len(stack) - 2)
        BY <1>1, <2>1, TwoPopped DEF RegistryInv, TypeOK, Below
      <3>3. /\ OneReady(Below) => OneReady(q)
            /\ Readying(q) => Readying(Below)
        BY <1>2, <2>1, FramePopped
      <3>4. QED
        BY <1>2, <3>1, <3>2, <3>3
    <2>2. CASE ~(Below # <<>> /\ Last(Below).fn = "ready")
      <3>1. stack' = Below /\ cut' = cut
        BY <1>1, <2>2 DEF PanicEndsReady, Panic, LifeInv, LifeType
      <3>2. QED
        BY <1>2, <3>1
    <2>3. QED
      BY <2>1, <2>2
  <1>4. cut' \in BOOLEAN
    BY <1>1 DEF LifeInv, LifeType
  <1>5. LifeType' /\ TimerOwned' /\ HandlerOwned'
    BY <1>1, <1>4 DEF LifeInv, LifeType, TimerOwned, HandlerOwned
  <1>6. BeforeTimer'
    BY <1>1, <1>3 DEF LifeInv, BeforeTimer
  <1>7. Armed'
    BY <1>1, <1>3 DEF LifeInv, Armed
  <1>8. QED
    BY <1>1, <1>5, <1>6, <1>7 DEF LifeInv

\* Only the component's own step makes a hook's frame on an empty stack.
LEMMA HookReadying ==
  ASSUME stack = <<>>, stack' = <<Plain("hook", 0, <<>>)>>
  PROVE  ~Readying(stack') /\ ~Readying(stack) /\ OneReady(stack')
  <1>1. <<>> \in Seq(Frame) /\ stack' = Append(<<>>, Plain("hook", 0, <<>>))
    OBVIOUS
  <1>2. SameCalls(stack, stack')
    BY <1>1, HookOnStack
  <1>3. QED
    BY <1>2, NoFrames DEF SameCalls

LEMMA TimeoutKeepsLife ==
  ASSUME LifeInv, Timeout
  PROVE  LifeInv'
  <1>1. /\ stack = <<>> /\ stack' = <<Plain("hook", 0, <<>>)>>
        /\ UNCHANGED <<lifeVars, omp, ready>>
    BY DEF Timeout, Idle
  <1>2. SameReadying
    BY <1>1, HookReadying DEF SameReadying
  <1>3. QED
    BY <1>1, <1>2, RegistryKeepsLife

LEMMA OnFreeKeepsLife ==
  ASSUME LifeInv, NEW c \in Components, OnFree(c)
  PROVE  LifeInv'
  <1>1. /\ omp /\ ready /\ freeing = "none" /\ c \in components /\ "self" \in components
        /\ omp' = omp /\ ready' = ready /\ freeing' = c
        /\ tick_timer' = (tick_timer /\ c # "timers")
        /\ tick_handler' = (tick_handler /\ c # "timers")
        /\ UNCHANGED <<components, timer, registered, wanted, pawn_handler, tickBox, pawnBox,
                        dropped, cut, uncreated>>
    BY DEF OnFree, Forgets, Present, boxes
  <1>2. ~Readying(stack') /\ ~Readying(stack) /\ OneReady(stack')
    BY HookReadying DEF OnFree, Idle
  <1>3. LifeType'
    BY <1>1 DEF LifeInv, LifeType
  <1>4. TimerOwned'
    BY <1>1 DEF LifeInv, TimerOwned
  <1>5. HandlerOwned'
    BY <1>1 DEF LifeInv, HandlerOwned
  <1>6. BeforeTimer'
    BY <1>1, <1>2 DEF LifeInv, BeforeTimer
  <1>7. Armed'
    BY <1>1, <1>2 DEF LifeInv, Armed
  <1>8. QED
    BY <1>1, <1>3, <1>4, <1>5, <1>6, <1>7 DEF LifeInv

LEMMA FreeLaterKeepsLife ==
  ASSUME LifeInv, NEW c \in Components, FreeLater(c)
  PROVE  LifeInv'
  <1>1. /\ omp /\ freeing = "none" /\ c \in components /\ "self" \notin components
        /\ freeing' = c
        /\ UNCHANGED <<omp, ready, stack, components, timer, registered, wanted, tick_timer,
                        tick_handler, pawn_handler, tickBox, pawnBox, dropped, cut, uncreated>>
    BY DEF FreeLater, Present, vars, slots, boxes
  <1>2. LifeType'
    BY <1>1 DEF LifeInv, LifeType
  <1>3. TimerOwned'
    BY <1>1 DEF LifeInv, TimerOwned
  <1>4. HandlerOwned'
    BY <1>1 DEF LifeInv, HandlerOwned
  <1>5. BeforeTimer'
    BY <1>1 DEF LifeInv, BeforeTimer
  <1>6. Armed'
    BY <1>1 DEF Armed
  <1>7. QED
    BY <1>1, <1>2, <1>3, <1>4, <1>5, <1>6 DEF LifeInv

\* tick_handler_free, called for a timer there is.
LEMMA TimerDestroyedOnce ==
  ASSUME LifeInv, timer \in {"running", "killed"}, TimerDestroyed
  PROVE  /\ dropped' \in [{"tick", "pawn"} -> Nat]
         /\ dropped'["tick"] = 1 /\ dropped'["pawn"] = dropped["pawn"]
  BY DEF LifeInv, LifeType, TimerOwned, TimerDestroyed

LEMMA FreeTimersKeepsLife ==
  ASSUME LifeInv, FreeTimers
  PROVE  LifeInv'
  <1>1. /\ freeing = "timers" /\ freeing' = "none" /\ components' = components \ {"timers"}
        /\ UNCHANGED <<omp, ready, stack, registered, wanted, tick_timer, tick_handler,
                        pawn_handler, pawnBox, cut, uncreated>>
    BY DEF FreeTimers, vars, slots
  <1>2. ready /\ ~Readying(stack) /\ ~tick_timer
    BY <1>1 DEF LifeInv, BeforeTimer, TimerOwned
  <1>3. /\ dropped' \in [{"tick", "pawn"} -> Nat] /\ dropped'["pawn"] = dropped["pawn"]
        /\ timer' \in {"none", "gone"} /\ tickBox' \in {"none", "freed"}
        /\ dropped'["tick"] = IF tickBox' = "freed" THEN 1 ELSE 0
    <2>1. CASE timer \in {"running", "killed"}
      BY <2>1, TimerDestroyedOnce DEF FreeTimers, TimerDestroyed
    <2>2. CASE timer \notin {"running", "killed"}
      BY <2>2 DEF FreeTimers, LifeInv, LifeType, TimerOwned
    <2>3. QED
      BY <2>1, <2>2
  <1>4. LifeType'
    BY <1>1, <1>3 DEF LifeInv, LifeType
  <1>5. TimerOwned'
    BY <1>1, <1>2, <1>3 DEF LifeInv, TimerOwned
  <1>6. HandlerOwned'
    BY <1>1, <1>3 DEF LifeInv, HandlerOwned
  <1>7. BeforeTimer'
    BY <1>1, <1>2 DEF LifeInv, BeforeTimer
  <1>8. Armed'
    BY <1>1 DEF Armed
  <1>9. QED
    BY <1>1, <1>4, <1>5, <1>6, <1>7, <1>8 DEF LifeInv

LEMMA FreePawnKeepsLife ==
  ASSUME LifeInv, FreePawn
  PROVE  LifeInv'
  <1>1. /\ freeing = "pawn" /\ freeing' = "none" /\ components' = components \ {"pawn"}
        /\ registered' = FALSE
        /\ UNCHANGED <<omp, ready, stack, timer, wanted, tick_timer, tick_handler,
                        pawn_handler, tickBox, pawnBox, dropped, cut, uncreated>>
    BY DEF FreePawn, vars, slots, boxes
  <1>2. ready /\ ~Readying(stack)
    BY <1>1 DEF LifeInv, BeforeTimer
  <1>3. LifeType'
    BY <1>1 DEF LifeInv, LifeType
  <1>4. TimerOwned'
    BY <1>1 DEF LifeInv, TimerOwned
  <1>5. HandlerOwned'
    BY <1>1 DEF LifeInv, HandlerOwned
  <1>6. BeforeTimer'
    BY <1>1, <1>2 DEF LifeInv, BeforeTimer
  <1>7. Armed'
    BY <1>1 DEF LifeInv, Armed
  <1>8. QED
    BY <1>1, <1>3, <1>4, <1>5, <1>6, <1>7 DEF LifeInv

LEMMA ReapTimerKeepsLife ==
  ASSUME LifeInv, ReapTimer
  PROVE  LifeInv'
  <1>1. /\ timer = "killed" /\ timer' = "gone" /\ tickBox' = "freed"
        /\ UNCHANGED <<omp, ready, stack, components, freeing, registered, wanted, tick_timer,
                        tick_handler, pawn_handler, pawnBox, cut, uncreated>>
    BY DEF ReapTimer, TimerDestroyed, vars, slots
  <1>2. /\ dropped' \in [{"tick", "pawn"} -> Nat]
        /\ dropped'["tick"] = 1 /\ dropped'["pawn"] = dropped["pawn"]
    BY <1>1, TimerDestroyedOnce DEF ReapTimer
  <1>3. ready /\ ~Readying(stack) /\ ~tick_timer
    BY <1>1 DEF LifeInv, BeforeTimer, TimerOwned
  <1>4. LifeType'
    BY <1>1, <1>2 DEF LifeInv, LifeType
  <1>5. TimerOwned'
    BY <1>1, <1>2, <1>3 DEF LifeInv, TimerOwned
  <1>6. HandlerOwned'
    BY <1>1, <1>2 DEF LifeInv, HandlerOwned
  <1>7. BeforeTimer'
    BY <1>1, <1>3 DEF LifeInv, BeforeTimer
  <1>8. Armed'
    BY <1>1 DEF LifeInv, Armed
  <1>9. QED
    BY <1>1, <1>4, <1>5, <1>6, <1>7, <1>8 DEF LifeInv

LEMMA FreeSelfKeepsLife ==
  ASSUME LifeInv, FreeSelf
  PROVE  LifeInv'
  <1>1. /\ freeing = "self" /\ freeing' = "none" /\ components' = components \ {"self"}
        /\ tick_timer' = FALSE /\ tick_handler' = (tick_handler /\ ~tick_timer)
        /\ timer' = (IF tick_timer THEN "killed" ELSE timer) /\ tickBox' = tickBox
        /\ dropped' = [dropped EXCEPT !["pawn"] = @ + (IF pawn_handler THEN 1 ELSE 0)]
        /\ pawn_handler' = FALSE
        /\ pawnBox' = (IF pawn_handler THEN "freed" ELSE pawnBox)
        /\ registered' = (registered /\ ~(pawn_handler /\ "pawn" \in components))
        /\ UNCHANGED <<omp, ready, stack, wanted, cut, uncreated>>
    BY DEF FreeSelf, Cleanup, Kill, Present, vars
  <1>2. ready /\ ~Readying(stack)
    BY <1>1 DEF LifeInv, BeforeTimer
  <1>3. /\ dropped' \in [{"tick", "pawn"} -> Nat] /\ dropped'["tick"] = dropped["tick"]
        /\ dropped'["pawn"] = IF pawn_handler THEN dropped["pawn"] + 1 ELSE dropped["pawn"]
        /\ dropped["pawn"] \in Nat
    BY <1>1 DEF LifeInv, LifeType
  <1>4. registered' = FALSE
    BY <1>1 DEF LifeInv, HandlerOwned
  <1>5. LifeType'
    BY <1>1, <1>3, <1>4 DEF LifeInv, LifeType
  <1>6. TimerOwned'
    BY <1>1, <1>3 DEF LifeInv, LifeType, TimerOwned
  <1>7. HandlerOwned'
    BY <1>1, <1>3, <1>4 DEF LifeInv, LifeType, HandlerOwned
  <1>8. BeforeTimer'
    BY <1>1, <1>2 DEF LifeInv, BeforeTimer
  <1>9. Armed'
    BY <1>1 DEF Armed
  <1>10. QED
    BY <1>1, <1>5, <1>6, <1>7, <1>8, <1>9 DEF LifeInv

LEMMA LifeInit == OmpInit => LifeInv
  <1> SUFFICES ASSUME OmpInit
               PROVE  LifeInv
    OBVIOUS
  <1>1. omp \in BOOLEAN /\ ready = FALSE /\ stack = <<>>
    BY DEF OmpInit, Init
  <1>2. ~Readying(stack) /\ OneReady(stack)
    BY <1>1, NoFrames
  <1>3. dropped \in [{"tick", "pawn"} -> Nat] /\ dropped["tick"] = 0 /\ dropped["pawn"] = 0
    BY DEF OmpInit
  <1>4. CASE omp
    <2>1. /\ components \in SUBSET Components /\ "self" \in components /\ "pawn" \in components
          /\ registered \in BOOLEAN /\ wanted \in BOOLEAN
      BY <1>4 DEF OmpInit, Components
    <2>2. LifeType /\ TimerOwned /\ HandlerOwned
      BY <1>3, <2>1 DEF OmpInit, LifeType, TimerOwned, HandlerOwned
    <2>3. BeforeTimer /\ Armed
      BY <1>1, <1>2, <2>1 DEF OmpInit, BeforeTimer, Armed
    <2>4. QED
      BY <2>2, <2>3 DEF LifeInv, OmpInit
  <1>5. CASE ~omp
    <2>1. components = {} /\ registered = FALSE /\ wanted = FALSE
      BY <1>5 DEF OmpInit
    <2>2. LifeType /\ TimerOwned /\ HandlerOwned
      BY <1>3, <2>1 DEF OmpInit, LifeType, TimerOwned, HandlerOwned
    <2>3. BeforeTimer /\ Armed
      BY <1>1, <1>2, <1>5 DEF OmpInit, BeforeTimer, Armed
    <2>4. QED
      BY <2>2, <2>3 DEF LifeInv, OmpInit
  <1>6. QED
    BY <1>4, <1>5

LEMMA LifeNext ==
  ASSUME RegistryInv, LifeInv, [OmpNext]_allVars
  PROVE  LifeInv'
  <1>1. CASE RegistryStep
    BY <1>1, RegistryReadying, RegistryKeepsLife
  <1>2. ASSUME NEW found \in BOOLEAN, ServerReady(found)
        PROVE  LifeInv'
    BY <1>2, ServerReadyKeepsLife
  <1>3. ASSUME NEW made \in BOOLEAN, ReadyEnds(made)
        PROVE  LifeInv'
    BY <1>3, ReadyEndsKeepsLife
  <1>4. ASSUME NEW c \in Components, OnFree(c) \/ FreeLater(c)
        PROVE  LifeInv'
    BY <1>4, OnFreeKeepsLife, FreeLaterKeepsLife
  <1>5. CASE PluginReturns \/ PanicEndsReady \/ Timeout
    BY <1>5, ReturnKeepsLife, PanicKeepsLife, TimeoutKeepsLife
  <1>6. CASE FreeTimers \/ FreePawn \/ FreeSelf \/ ReapTimer
    BY <1>6, FreeTimersKeepsLife, FreePawnKeepsLife, FreeSelfKeepsLife, ReapTimerKeepsLife
  <1>7. CASE UNCHANGED allVars
    <2>1. SameReadying /\ UNCHANGED <<lifeVars, omp, ready>>
      BY <1>7 DEF allVars, vars, SameReadying
    <2>2. QED
      BY <2>1, RegistryKeepsLife
  <1>8. QED
    BY <1>1, <1>2, <1>3, <1>4, <1>5, <1>6, <1>7 DEF OmpNext

LEMMA LifeAlways == OmpSpec => []LifeInv
  <1>1. RegistryInv /\ LifeInv /\ [OmpNext]_allVars => LifeInv'
    BY LifeNext
  <1>2. OmpSpec => []RegistryInv
    BY RegistryAlways
  <1>3. QED
    BY <1>1, <1>2, LifeInit, PTL DEF OmpSpec

\* What the runtime, the timer and Pawn's dispatcher point to is there, in
\* whatever order the server frees its components: nothing is used after it was
\* dropped, and no tick reaches a plugin that has been unloaded.
THEOREM PointersHold == OmpSpec => []NothingDangles
  <1>1. LifeInv => NothingDangles
    BY DEF LifeInv, TimerOwned, HandlerOwned, NothingDangles, Present
  <1>2. QED
    BY <1>1, LifeAlways, PTL

\* No handler is dropped twice, and none is left when the components are gone.
THEOREM HandlersDroppedOnce == OmpSpec => []DroppedOnce
  <1>1. LifeInv => DroppedOnce
    <2> SUFFICES ASSUME LifeInv
                 PROVE  DroppedOnce
      OBVIOUS
    <2>1. DOMAIN dropped = {"tick", "pawn"}
      BY DEF LifeInv, LifeType
    <2>2. dropped["tick"] <= 1 /\ dropped["pawn"] <= 1
      BY DEF LifeInv, TimerOwned, HandlerOwned
    <2>3. components = {} => tickBox # "live" /\ pawnBox # "live"
      BY DEF LifeInv, TimerOwned, HandlerOwned
    <2>4. QED
      BY <2>1, <2>2, <2>3 DEF DroppedOnce
  <1>2. QED
    BY <1>1, LifeAlways, PTL

\* A plugin that asked for ticks has its timer whatever became of the function
\* table and the scripts, unless a panic cut on_ready short.
THEOREM TicksAreArmed == OmpSpec => []TickIsArmed
  <1>1. LifeInv => TickIsArmed
    BY DEF LifeInv, TimerOwned, Armed, Readying, TickIsArmed
  <1>2. QED
    BY <1>1, LifeAlways, PTL

=============================================================================
