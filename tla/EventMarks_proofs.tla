-------------------------- MODULE EventMarks_proofs --------------------------
(***************************************************************************)
(* Theorems about EventDispatch, for any publics, handlers, arguments,     *)
(* failures and nesting of calls: the marks of enter_dispatch and          *)
(* leave_dispatch are exactly the dispatches in progress, and handlers run *)
(* once each, in order.  Where no allocation fails after a push and no     *)
(* handler holds arguments while it calls a public, every call is given    *)
(* its own arguments and takes them all with it.                           *)
(***************************************************************************)
EXTENDS EventDispatch, SequenceTheorems, TLAPS

(***************************************************************************)
(* Lemmas on the calls in progress.                                        *)
(***************************************************************************)

\* The first n of them.
LEMMA Outermost ==
  ASSUME NEW S, NEW s \in Seq(S), NEW n \in 0 .. Len(s)
  PROVE  /\ SubSeq(s, 1, n) \in Seq(S)
         /\ Len(SubSeq(s, 1, n)) = n
         /\ \A i \in 1 .. n : SubSeq(s, 1, n)[i] = s[i]
  BY SubSeqProperties, LenProperties

\* The innermost call, and the calls it is inside of.
LEMMA TopOfCalls ==
  ASSUME calls \in Seq(Call), calls # <<>>
  PROVE  /\ Len(calls) \in Nat \ {0}
         /\ Top \in Call
         /\ Below \in Seq(Call)
         /\ Len(Below) = Len(calls) - 1
         /\ \A d \in 1 .. Len(Below) : Below[d] = calls[d]
  <1>1. Len(calls) \in Nat \ {0}
    BY EmptySeq
  <1>2. Top \in Call
    BY <1>1, ElementOfSeq DEF Top
  <1>3. Len(calls) - 1 \in 0 .. Len(calls)
    BY <1>1
  <1>4. /\ Below \in Seq(Call)
        /\ Len(Below) = Len(calls) - 1
        /\ \A d \in 1 .. Len(calls) - 1 : Below[d] = calls[d]
    BY <1>1, <1>3, Outermost DEF Below
  <1>5. QED
    BY <1>1, <1>2, <1>4

\* A call comes to stand above those in progress.
LEMMA CallPushed ==
  ASSUME calls \in Seq(Call), NEW c \in Call, calls' = Append(calls, c)
  PROVE  /\ calls' \in Seq(Call)
         /\ DOMAIN calls' = DOMAIN calls \cup {Len(calls) + 1}
         /\ Len(calls) + 1 \notin DOMAIN calls
         /\ calls'[Len(calls) + 1] = c
         /\ \A d \in DOMAIN calls : calls'[d] = calls[d]
  <1>1. Len(calls) \in Nat /\ DOMAIN calls = 1 .. Len(calls)
    BY LenProperties
  <1>2. /\ calls' \in Seq(Call)
        /\ Len(calls') = Len(calls) + 1
        /\ calls'[Len(calls) + 1] = c
        /\ \A d \in 1 .. Len(calls) : calls'[d] = calls[d]
    BY AppendProperties
  <1>3. DOMAIN calls' = 1 .. Len(calls) + 1
    BY <1>2, LenProperties
  <1>4. QED
    BY <1>1, <1>2, <1>3

\* The innermost call goes on.
LEMMA CallSet ==
  ASSUME calls \in Seq(Call), calls # <<>>, NEW c \in Call, calls' = SetTop(c)
  PROVE  /\ calls' \in Seq(Call)
         /\ DOMAIN calls' = DOMAIN calls
         /\ Len(calls) \in DOMAIN calls
         /\ calls'[Len(calls)] = c
         /\ \A d \in DOMAIN calls \ {Len(calls)} : calls'[d] = calls[d]
  <1>1. /\ Len(calls) \in Nat \ {0}
        /\ Below \in Seq(Call)
        /\ Len(Below) = Len(calls) - 1
        /\ \A d \in 1 .. Len(calls) - 1 : Below[d] = calls[d]
    BY TopOfCalls
  <1>2. /\ calls' \in Seq(Call)
        /\ Len(calls') = Len(calls)
        /\ calls'[Len(calls)] = c
        /\ \A d \in 1 .. Len(calls) - 1 : calls'[d] = calls[d]
    BY <1>1, AppendProperties DEF SetTop
  <1>3. DOMAIN calls = 1 .. Len(calls) /\ DOMAIN calls' = 1 .. Len(calls)
    BY <1>2, LenProperties
  <1>4. QED
    BY <1>1, <1>2, <1>3

\* The innermost call is over.
LEMMA CallOver ==
  ASSUME calls \in Seq(Call), calls # <<>>, calls' = Below
  PROVE  /\ calls' \in Seq(Call)
         /\ DOMAIN calls' = DOMAIN calls \ {Len(calls)}
         /\ Len(calls) \in DOMAIN calls
         /\ \A d \in DOMAIN calls' : calls'[d] = calls[d]
  <1>1. /\ Len(calls) \in Nat \ {0}
        /\ Below \in Seq(Call)
        /\ Len(Below) = Len(calls) - 1
        /\ \A d \in 1 .. Len(Below) : Below[d] = calls[d]
    BY TopOfCalls
  <1>2. DOMAIN calls = 1 .. Len(calls) /\ DOMAIN calls' = 1 .. Len(calls) - 1
    BY <1>1, LenProperties
  <1>3. QED
    BY <1>1, <1>2

(***************************************************************************)
(* Lemmas on the marks.                                                    *)
(***************************************************************************)

Dispatched(s) == {d \in DOMAIN s : s[d].at \in {"dispatch", "handler"}}

\* Marks m that go with the calls s.
Marks(m, s) ==
  /\ \A p \in Publics : Contains(m, p) <=> \E d \in Dispatched(s) : s[d].public = p
  /\ \A c, d \in Dispatched(s) : s[c].public = s[d].public => c = d
  /\ \A i, j \in DOMAIN m : m[i] = m[j] => i = j

LEMMA MarksAreTheProperty == MarksMatchDispatches <=> Marks(dispatching, calls)
  BY DEF MarksMatchDispatches, InDispatch, Marks, Dispatched

\* Marks depend on which calls are being dispatched, and of which publics.
LEMMA MarksKept ==
  ASSUME NEW m, NEW s, NEW t, Marks(m, s),
         Dispatched(t) = Dispatched(s),
         \A d \in Dispatched(s) : t[d].public = s[d].public
  PROVE  Marks(m, t)
  BY DEF Marks

\* enter_dispatch: one more dispatch, of a public that was not marked.
LEMMA MarkAdded ==
  ASSUME NEW m \in Seq(Publics), NEW s, NEW t, NEW n, NEW p \in Publics, Marks(m, s),
         n \notin Dispatched(s), Dispatched(t) = Dispatched(s) \cup {n}, t[n].public = p,
         \A d \in Dispatched(s) : t[d].public = s[d].public /\ s[d].public \in Publics,
         ~Contains(m, p)
  PROVE  Append(m, p) \in Seq(Publics) /\ Marks(Append(m, p), t)
  <1> DEFINE a == Append(m, p)
  <1>1. Len(m) \in Nat /\ DOMAIN m = 1 .. Len(m)
    BY LenProperties
  <1>2. /\ a \in Seq(Publics)
        /\ Len(a) = Len(m) + 1
        /\ a[Len(m) + 1] = p
        /\ \A i \in 1 .. Len(m) : a[i] = m[i]
    BY AppendProperties
  <1>3. DOMAIN a = 1 .. Len(m) + 1
    BY <1>2, LenProperties
  <1> HIDE DEF a
  <1>4. \A q : Contains(a, q) <=> Contains(m, q) \/ q = p
    BY <1>1, <1>2 DEF Contains
  <1>5. \A d \in Dispatched(s) : s[d].public # p
    BY DEF Marks
  <1>6. \A q \in Publics : Contains(a, q) <=> \E d \in Dispatched(t) : t[d].public = q
    BY <1>4 DEF Marks
  <1>7. \A c, d \in Dispatched(t) : t[c].public = t[d].public => c = d
    BY <1>5 DEF Marks
  <1>8. \A i \in 1 .. Len(m) : a[i] # p
    BY <1>2 DEF Contains
  <1>9. \A i, j \in DOMAIN a : a[i] = a[j] => i = j
    BY <1>1, <1>2, <1>3, <1>8 DEF Marks
  <1>10. QED
    BY <1>2, <1>6, <1>7, <1>9 DEF Marks, a

\* What is left of unique marks when one is taken out.
LEMMA TakenOut ==
  ASSUME NEW m \in Seq(Publics), NEW k \in 1 .. Len(m),
         \A i, j \in DOMAIN m : m[i] = m[j] => i = j
  PROVE  /\ RemoveAt(m, k) \in Seq(Publics)
         /\ \A q : Contains(RemoveAt(m, k), q) <=> Contains(m, q) /\ q # m[k]
         /\ \A i, j \in DOMAIN RemoveAt(m, k) :
              RemoveAt(m, k)[i] = RemoveAt(m, k)[j] => i = j
  <1> DEFINE a == SubSeq(m, 1, k - 1)
             b == SubSeq(m, k + 1, Len(m))
             r == a \o b
  <1>1. Len(m) \in Nat /\ DOMAIN m = 1 .. Len(m) /\ \A i \in 1 .. Len(m) : m[i] \in Publics
    BY LenProperties, ElementOfSeq
  <1>2. /\ a \in Seq(Publics) /\ Len(a) = k - 1
        /\ \A i \in 1 .. k - 1 : a[i] = m[i]
    BY <1>1, SubSeqProperties
  <1>3. /\ b \in Seq(Publics) /\ Len(b) = Len(m) - k
        /\ \A i \in 1 .. Len(m) - k : b[i] = m[k + i]
    <2>1. /\ b \in Seq(Publics)
          /\ Len(b) = IF k + 1 <= Len(m) THEN Len(m) - (k + 1) + 1 ELSE 0
          /\ \A i \in 1 .. Len(m) - (k + 1) + 1 : b[i] = m[k + 1 + i - 1]
      BY <1>1, SubSeqProperties
    <2> HIDE DEF b
    <2>2. Len(b) = Len(m) - k
      <3>1. CASE k + 1 <= Len(m)
        BY <1>1, <2>1, <3>1
      <3>2. CASE ~(k + 1 <= Len(m))
        <4>1. k = Len(m)
          <5>1. k \in Int /\ Len(m) \in Int /\ k <= Len(m)
            BY <1>1
          <5>2. QED
            BY <3>2, <5>1
        <4>2. Len(m) - k = 0
          BY <1>1, <4>1
        <4>3. Len(b) = 0
          BY <2>1, <3>2
        <4>4. QED
          BY <4>2, <4>3
      <3>3. QED
        BY <3>1, <3>2
    <2>3. \A i \in 1 .. Len(m) - k : i \in 1 .. Len(m) - (k + 1) + 1 /\ k + 1 + i - 1 = k + i
      BY <1>1
    <2>4. QED
      BY <2>1, <2>2, <2>3
  <1> HIDE DEF a, b
  <1>4. /\ r \in Seq(Publics)
        /\ Len(r) = Len(m) - 1
        /\ \A i \in 1 .. Len(m) - 1 : r[i] = IF i < k THEN m[i] ELSE m[i + 1]
    <2>1. /\ r \in Seq(Publics)
          /\ Len(r) = Len(a) + Len(b)
          /\ \A i \in 1 .. Len(a) + Len(b) :
               r[i] = IF i <= Len(a) THEN a[i] ELSE b[i - Len(a)]
      BY <1>2, <1>3, ConcatProperties
    <2> HIDE DEF r
    <2>2. Len(a) + Len(b) = Len(m) - 1
      BY <1>1, <1>2, <1>3
    <2>3. ASSUME NEW i \in 1 .. Len(m) - 1
          PROVE  r[i] = IF i < k THEN m[i] ELSE m[i + 1]
      <3>1. r[i] = IF i <= k - 1 THEN a[i] ELSE b[i - (k - 1)]
        BY <1>2, <2>1, <2>2
      <3>2. CASE i < k
        <4>1. i \in 1 .. k - 1 /\ i <= k - 1
          BY <1>1, <3>2
        <4>2. QED
          BY <1>2, <3>1, <3>2, <4>1
      <3>3. CASE ~(i < k)
        <4>1. /\ i - (k - 1) \in 1 .. Len(m) - k
              /\ k + (i - (k - 1)) = i + 1
              /\ ~(i <= k - 1)
          BY <1>1, <3>3
        <4>2. QED
          BY <1>3, <3>1, <3>3, <4>1
      <3>4. QED
        BY <3>2, <3>3
    <2>4. QED
      BY <2>1, <2>2, <2>3
  <1>5. DOMAIN r = 1 .. Len(m) - 1
    BY <1>4, LenProperties
  <1>6. RemoveAt(m, k) = r
    BY DEF RemoveAt, a, b
  <1> HIDE DEF r
  <1>7. ASSUME NEW q
         PROVE  Contains(r, q) <=> Contains(m, q) /\ q # m[k]
    <2>1. ASSUME NEW i \in 1 .. Len(r), r[i] = q
          PROVE  Contains(m, q) /\ q # m[k]
      BY <1>1, <1>4, <2>1 DEF Contains
    <2>2. ASSUME NEW i \in 1 .. Len(m), m[i] = q, i # k
          PROVE  Contains(r, q)
      <3>1. CASE i < k
        BY <1>1, <1>4, <2>2, <3>1 DEF Contains
      <3>2. CASE i > k
        <4>1. i - 1 \in 1 .. Len(r) /\ r[i - 1] = q
          BY <1>1, <1>4, <2>2, <3>2
        <4>2. QED
          BY <4>1 DEF Contains
      <3>3. QED
        BY <1>1, <2>2, <3>1, <3>2
    <2>3. QED
      BY <2>1, <2>2 DEF Contains
  <1>8. \A i, j \in DOMAIN r : r[i] = r[j] => i = j
    BY <1>1, <1>4, <1>5
  <1>9. QED
    BY <1>4, <1>6, <1>7, <1>8

\* leave_dispatch takes out the only mark of its public.
LEMMA MarkDropped ==
  ASSUME NEW s, NEW t, NEW n \in Dispatched(s), NEW p \in Publics, s[n].public = p,
         dispatching \in Seq(Publics), Marks(dispatching, s),
         Dispatched(t) = Dispatched(s) \ {n},
         \A d \in Dispatched(t) : t[d].public = s[d].public
  PROVE  Unmarked(p) \in Seq(Publics) /\ Marks(Unmarked(p), t)
  <1>1. Contains(dispatching, p)
    BY DEF Marks
  <1>2. PICK k \in 1 .. Len(dispatching) : dispatching[k] = p
    BY <1>1 DEF Contains
  <1>3. \A i, j \in DOMAIN dispatching : dispatching[i] = dispatching[j] => i = j
    BY DEF Marks
  <1> DEFINE r == RemoveAt(dispatching, k)
  <1>4. /\ r \in Seq(Publics)
        /\ \A q : Contains(r, q) <=> Contains(dispatching, q) /\ q # p
        /\ \A i, j \in DOMAIN r : r[i] = r[j] => i = j
    BY <1>2, <1>3, TakenOut
  <1>5. Unmarked(p) = r
    <2>1. {i \in 1 .. Len(dispatching) : dispatching[i] = p} = {k}
      BY <1>2, <1>3, LenProperties
    <2>2. Max({k}) = k
      <3>1. Len(dispatching) \in Nat
        BY LenProperties
      <3>2. QED
        BY <3>1 DEF Max
    <2>3. QED
      BY <2>1, <2>2 DEF Unmarked, SelectLastInSeq
  <1> HIDE DEF r
  <1>6. \A d \in Dispatched(t) : s[d].public # p
    BY DEF Marks
  <1>7. \A q \in Publics : Contains(r, q) <=> \E d \in Dispatched(t) : t[d].public = q
    BY <1>4, <1>6 DEF Marks
  <1>8. QED
    BY <1>4, <1>5, <1>7 DEF Marks

(***************************************************************************)
(* The invariant.  Marks alone are not enough: what handlers ran follows   *)
(* from the script's table, and from a call that has seen none yet.        *)
(***************************************************************************)

Table == \A p \in Publics : resolved[p] = <<>> \/ resolved[p] = Registered(p)

Progress(c) ==
  /\ c.at = "push" => c.ran = <<>> /\ ~c.seen
  /\ c.at \in {"dispatch", "handler"} => c.ran \o c.left = Registered(c.public)
  /\ c.seen /\ c.at \in {"exec", "script"} => c.ran = Registered(c.public)

EventInv ==
  /\ TypeOK
  /\ Marks(dispatching, calls)
  /\ Table
  /\ \A d \in DOMAIN calls : Progress(calls[d])

InDispatching(c) == c.at \in {"dispatch", "handler"}

LEMMA TopIsOne ==
  ASSUME EventInv, calls # <<>>
  PROVE  /\ calls \in Seq(Call) /\ Top \in Call /\ Progress(Top)
         /\ Len(calls) \in DOMAIN calls /\ Top = calls[Len(calls)]
         /\ Len(calls) \in Dispatched(calls) <=> InDispatching(Top)
  <1>1. calls \in Seq(Call)
    BY DEF EventInv, TypeOK
  <1>2. Len(calls) \in DOMAIN calls
    BY <1>1, TopOfCalls, LenProperties
  <1>3. QED
    BY <1>1, <1>2, TopOfCalls DEF EventInv, Top, Dispatched, InDispatching

\* The innermost call goes on, and is in a dispatch if it was.
LEMMA GoesOn ==
  ASSUME EventInv, calls # <<>>, NEW c \in Call, calls' = SetTop(c),
         c.public = Top.public, InDispatching(c) <=> InDispatching(Top),
         Progress(c), dispatching' = dispatching
  PROVE  /\ calls' \in Seq(Call)
         /\ Marks(dispatching, calls)'
         /\ \A d \in DOMAIN calls' : Progress(calls'[d])
  <1>1. /\ calls \in Seq(Call) /\ Top = calls[Len(calls)]
        /\ Len(calls) \in Dispatched(calls) <=> InDispatching(Top)
    BY TopIsOne
  <1>2. /\ calls' \in Seq(Call) /\ DOMAIN calls' = DOMAIN calls
        /\ Len(calls) \in DOMAIN calls /\ calls'[Len(calls)] = c
        /\ \A d \in DOMAIN calls \ {Len(calls)} : calls'[d] = calls[d]
    BY <1>1, CallSet
  <1>3. Dispatched(calls') = Dispatched(calls)
    BY <1>1, <1>2 DEF Dispatched, InDispatching
  <1>4. \A d \in Dispatched(calls) : calls'[d].public = calls[d].public
    BY <1>1, <1>2 DEF Dispatched
  <1>5. Marks(dispatching, calls')
    BY <1>3, <1>4, MarksKept DEF EventInv
  <1>6. QED
    BY <1>2, <1>5 DEF EventInv

\* The innermost call's dispatch ends, and the call goes on.
LEMMA LeavesDispatch ==
  ASSUME EventInv, calls # <<>>, NEW c \in Call, calls' = SetTop(c),
         ~InDispatching(c), InDispatching(Top), Progress(c),
         dispatching' = Unmarked(Top.public)
  PROVE  /\ calls' \in Seq(Call)
         /\ dispatching' \in Seq(Publics)
         /\ Marks(dispatching, calls)'
         /\ \A d \in DOMAIN calls' : Progress(calls'[d])
  <1>1. /\ calls \in Seq(Call) /\ Top = calls[Len(calls)]
        /\ Len(calls) \in Dispatched(calls)
        /\ Top.public \in Publics
    BY TopIsOne DEF Call
  <1>2. /\ calls' \in Seq(Call) /\ DOMAIN calls' = DOMAIN calls
        /\ Len(calls) \in DOMAIN calls /\ calls'[Len(calls)] = c
        /\ \A d \in DOMAIN calls \ {Len(calls)} : calls'[d] = calls[d]
    BY <1>1, CallSet
  <1>3. Dispatched(calls') = Dispatched(calls) \ {Len(calls)}
    BY <1>1, <1>2 DEF Dispatched, InDispatching
  <1>4. \A d \in Dispatched(calls') : calls'[d].public = calls[d].public
    BY <1>2, <1>3 DEF Dispatched
  <1>5. dispatching \in Seq(Publics) /\ Marks(dispatching, calls)
    BY DEF EventInv, TypeOK
  <1>6. Unmarked(Top.public) \in Seq(Publics) /\ Marks(Unmarked(Top.public), calls')
    BY <1>1, <1>3, <1>4, <1>5, MarkDropped
  <1>7. QED
    BY <1>2, <1>6 DEF EventInv

\* The innermost call is over, and its dispatch with it.
LEMMA EndsInDispatch ==
  ASSUME EventInv, calls # <<>>, calls' = Below, InDispatching(Top),
         dispatching' = Unmarked(Top.public)
  PROVE  /\ calls' \in Seq(Call)
         /\ dispatching' \in Seq(Publics)
         /\ Marks(dispatching, calls)'
         /\ \A d \in DOMAIN calls' : Progress(calls'[d])
  <1>1. /\ calls \in Seq(Call) /\ Top = calls[Len(calls)]
        /\ Len(calls) \in Dispatched(calls)
        /\ Top.public \in Publics
    BY TopIsOne DEF Call
  <1>2. /\ calls' \in Seq(Call)
        /\ DOMAIN calls' = DOMAIN calls \ {Len(calls)}
        /\ \A d \in DOMAIN calls' : calls'[d] = calls[d]
    BY <1>1, CallOver
  <1>3. Dispatched(calls') = Dispatched(calls) \ {Len(calls)}
    BY <1>2 DEF Dispatched
  <1>4. \A d \in Dispatched(calls') : calls'[d].public = calls[d].public
    BY <1>2 DEF Dispatched
  <1>5. dispatching \in Seq(Publics) /\ Marks(dispatching, calls)
    BY DEF EventInv, TypeOK
  <1>6. Unmarked(Top.public) \in Seq(Publics) /\ Marks(Unmarked(Top.public), calls')
    BY <1>1, <1>3, <1>4, <1>5, MarkDropped
  <1>7. QED
    BY <1>2, <1>6 DEF EventInv

\* The innermost call is over, outside of any dispatch of it.
LEMMA EndsOutside ==
  ASSUME EventInv, calls # <<>>, calls' = Below, ~InDispatching(Top),
         dispatching' = dispatching
  PROVE  /\ calls' \in Seq(Call)
         /\ Marks(dispatching, calls)'
         /\ \A d \in DOMAIN calls' : Progress(calls'[d])
  <1>1. /\ calls \in Seq(Call)
        /\ Len(calls) \notin Dispatched(calls)
    BY TopIsOne
  <1>2. /\ calls' \in Seq(Call)
        /\ DOMAIN calls' = DOMAIN calls \ {Len(calls)}
        /\ \A d \in DOMAIN calls' : calls'[d] = calls[d]
    BY <1>1, CallOver
  <1>3. Dispatched(calls') = Dispatched(calls)
    BY <1>1, <1>2 DEF Dispatched
  <1>4. \A d \in Dispatched(calls) : calls'[d].public = calls[d].public
    BY <1>2, <1>3 DEF Dispatched
  <1>5. Marks(dispatching, calls')
    BY <1>3, <1>4, MarksKept DEF EventInv
  <1>6. QED
    BY <1>2, <1>5 DEF EventInv

(***************************************************************************)
(* Lemmas on the handlers of a call.                                       *)
(***************************************************************************)

LEMMA RegisteredIsASeq == \A p \in Publics : Registered(p) \in Seq(Nat)
  <1>1. \A p \in Publics : HandlersOf[p] \in Nat
    BY HandlersAssumption
  <1>2. \A n \in Nat : [i \in 1 .. n |-> i] \in Seq(Nat)
    BY SeqDef
  <1>3. QED
    BY <1>1, <1>2 DEF Registered

\* Taking the next handler from those to run to those run.
LEMMA NextHandler ==
  ASSUME NEW ran \in Seq(Nat), NEW left \in Seq(Nat), left # <<>>
  PROVE  /\ Head(left) \in Nat /\ Tail(left) \in Seq(Nat)
         /\ Append(ran, Head(left)) \in Seq(Nat)
         /\ Append(ran, Head(left)) \o Tail(left) = ran \o left
  <1> DEFINE a == Append(ran, Head(left))
             t == Tail(left)
             u == a \o t
             v == ran \o left
  <1>1. /\ Len(left) \in Nat \ {0} /\ Len(ran) \in Nat
        /\ Head(left) \in Nat /\ Head(left) = left[1]
        /\ t \in Seq(Nat) /\ Len(t) = Len(left) - 1
        /\ \A i \in 1 .. Len(t) : t[i] = left[i + 1]
    BY EmptySeq, LenProperties, HeadTailProperties
  <1> HIDE DEF t
  <1>2. /\ a \in Seq(Nat) /\ Len(a) = Len(ran) + 1
        /\ \A i \in 1 .. Len(ran) : a[i] = ran[i]
        /\ a[Len(ran) + 1] = left[1]
    BY <1>1, AppendProperties
  <1> HIDE DEF a
  <1>3. /\ u \in Seq(Nat) /\ Len(u) = Len(a) + Len(t)
        /\ \A i \in 1 .. Len(a) + Len(t) : u[i] = IF i <= Len(a) THEN a[i] ELSE t[i - Len(a)]
    BY <1>1, <1>2, ConcatProperties
  <1>4. /\ v \in Seq(Nat) /\ Len(v) = Len(ran) + Len(left)
        /\ \A i \in 1 .. Len(ran) + Len(left) :
             v[i] = IF i <= Len(ran) THEN ran[i] ELSE left[i - Len(ran)]
    BY ConcatProperties
  <1> HIDE DEF u, v
  <1>5. Len(u) = Len(v) /\ Len(a) + Len(t) = Len(v)
    BY <1>1, <1>2, <1>3, <1>4
  <1>6. ASSUME NEW i \in 1 .. Len(u)
        PROVE  u[i] = v[i]
    <2>1. /\ u[i] = IF i <= Len(ran) + 1 THEN a[i] ELSE t[i - (Len(ran) + 1)]
          /\ v[i] = IF i <= Len(ran) THEN ran[i] ELSE left[i - Len(ran)]
      BY <1>2, <1>3, <1>4, <1>5
    <2>2. CASE i <= Len(ran)
      <3>1. i \in 1 .. Len(ran) /\ i <= Len(ran) + 1
        BY <1>1, <2>2
      <3>2. QED
        BY <1>2, <2>1, <2>2, <3>1
    <2>3. CASE i = Len(ran) + 1
      <3>1. ~(i <= Len(ran)) /\ i <= Len(ran) + 1 /\ i - Len(ran) = 1
        BY <1>1, <2>3
      <3>2. QED
        BY <1>2, <2>1, <2>3, <3>1
    <2>4. CASE ~(i <= Len(ran) + 1)
      <3>1. /\ ~(i <= Len(ran))
            /\ i - (Len(ran) + 1) \in 1 .. Len(t)
            /\ i - (Len(ran) + 1) + 1 = i - Len(ran)
        BY <1>1, <1>4, <1>5, <2>4
      <3>2. QED
        BY <1>1, <2>1, <2>4, <3>1
    <2>5. QED
      BY <1>1, <1>3, <2>2, <2>3, <2>4
  <1>7. u = v
    BY <1>3, <1>4, <1>5, <1>6, SeqEqual
  <1>8. QED
    BY <1>1, <1>2, <1>7 DEF a, t, u, v

(***************************************************************************)
(* The invariant holds.                                                    *)
(***************************************************************************)

LEMMA EventInit == Init => EventInv
  <1> SUFFICES ASSUME Init
               PROVE  EventInv
    OBVIOUS
  <1>1. /\ <<>> \in Seq(Nat) /\ <<>> \in Seq(Publics) /\ <<>> \in Seq(Call)
        /\ DOMAIN calls = {} /\ DOMAIN dispatching = {} /\ Len(dispatching) = 0
    BY LenProperties DEF Init
  <1>2. TypeOK
    <2>1. [p \in Publics |-> <<>>] \in [Publics -> Seq(Nat)]
      BY <1>1
    <2>2. resolved \in [Publics -> Seq(Nat)]
      BY <2>1 DEF Init
    <2>3. loaded \in BOOLEAN /\ detour \in {"none", "disabled", "enabled"}
      BY DEF Init
    <2>4. used \in Int /\ paramcount \in Nat
      BY DEF Init
    <2>5. dispatching \in Seq(Publics) /\ calls \in Seq(Call)
      BY <1>1 DEF Init
    <2>6. QED
      BY <2>2, <2>3, <2>4, <2>5 DEF TypeOK
  <1>3. Marks(dispatching, calls)
    BY <1>1 DEF Marks, Dispatched, Contains
  <1>4. Table
    BY DEF Init, Table
  <1>5. QED
    BY <1>1, <1>2, <1>3, <1>4 DEF EventInv

LEMMA EventNext == EventInv /\ [Next]_vars => EventInv'
  <1> SUFFICES ASSUME EventInv, [Next]_vars
               PROVE  EventInv'
    OBVIOUS
  <1>1. CASE Load
    <2>1. \A p \in Publics : Registered(p) \in Seq(Nat)
      BY RegisteredIsASeq
    <2>2. resolved' \in [Publics -> Seq(Nat)] /\ Table'
      BY <1>1, <2>1 DEF Load, Resolved, Table
    <2>3. TypeOK'
      BY <1>1, <2>2 DEF Load, EventInv, TypeOK, vmVars
    <2>4. QED
      BY <1>1, <2>2, <2>3 DEF Load, EventInv
  <1>2. CASE Unload
    <2>1. <<>> \in Seq(Nat)
      OBVIOUS
    <2>2. resolved' \in [Publics -> Seq(Nat)] /\ Table'
      BY <1>2, <2>1 DEF Unload, Table
    <2>3. TypeOK'
      BY <1>2, <2>2 DEF Unload, EventInv, TypeOK, vmVars
    <2>4. QED
      BY <1>2, <2>2, <2>3 DEF Unload, EventInv
  <1>3. ASSUME NEW p \in Publics, NEW n \in ArgCounts, NEW scoped \in BOOLEAN,
               Begin(p, n, scoped)
        PROVE  EventInv'
    <2> DEFINE c == Opened(p, n, scoped)
    <2>1. calls \in Seq(Call) /\ used \in Int /\ calls' = Append(calls, c)
      BY <1>3 DEF Begin, EventInv, TypeOK
    <2>2. <<>> \in Seq(Nat)
      OBVIOUS
    <2>3. c \in Call /\ c.at = "push" /\ Progress(c)
      BY <2>1, <2>2 DEF Opened, Call, Progress
    <2> HIDE DEF c
    <2>4. /\ calls' \in Seq(Call)
          /\ DOMAIN calls' = DOMAIN calls \cup {Len(calls) + 1}
          /\ Len(calls) + 1 \notin DOMAIN calls
          /\ calls'[Len(calls) + 1] = c
          /\ \A d \in DOMAIN calls : calls'[d] = calls[d]
      BY <2>1, <2>3, CallPushed
    <2>5. Dispatched(calls') = Dispatched(calls)
      BY <2>3, <2>4 DEF Dispatched
    <2>6. \A d \in Dispatched(calls) : calls'[d].public = calls[d].public
      BY <2>4 DEF Dispatched
    <2>7. Marks(dispatching, calls')
      BY <2>5, <2>6, MarksKept DEF EventInv
    <2>8. \A d \in DOMAIN calls' : Progress(calls'[d])
      BY <2>3, <2>4 DEF EventInv
    <2>9. QED
      BY <1>3, <2>4, <2>7, <2>8 DEF Begin, EventInv, TypeOK, Table, hookVars, vmVars
  <1>4. CASE Push
    <2> DEFINE c == [Top EXCEPT !.pushed = @ + 1]
    <2>1. calls # <<>> /\ Top.at = "push" /\ calls' = SetTop(c) /\ dispatching' = dispatching
      BY <1>4 DEF Push, TopIs
    <2>2. Top \in Call /\ Progress(Top)
      BY <2>1, TopIsOne
    <2>3. /\ c \in Call /\ Progress(c) /\ c.public = Top.public
          /\ InDispatching(c) <=> InDispatching(Top)
      BY <2>1, <2>2 DEF Call, Progress, InDispatching
    <2> HIDE DEF c
    <2>4. /\ calls' \in Seq(Call)
          /\ Marks(dispatching, calls)'
          /\ \A d \in DOMAIN calls' : Progress(calls'[d])
      BY <2>1, <2>3, GoesOn
    <2>5. used' \in Int /\ paramcount' \in Nat
      BY <1>4 DEF Push, EventInv, TypeOK
    <2>6. QED
      BY <1>4, <2>4, <2>5 DEF Push, EventInv, TypeOK, Table, hookVars
  <1>5. CASE PushFails
    <2>1. calls # <<>> /\ Top.at = "push" /\ calls' = Below /\ dispatching' = dispatching
      BY <1>5 DEF PushFails, TopIs
    <2>2. Top \in Call /\ ~InDispatching(Top)
      BY <2>1, TopIsOne DEF InDispatching
    <2>3. /\ calls' \in Seq(Call)
          /\ Marks(dispatching, calls)'
          /\ \A d \in DOMAIN calls' : Progress(calls'[d])
      BY <2>1, <2>2, EndsOutside
    <2>4. used' \in Int
      BY <1>5, <2>2 DEF PushFails, Released, Call, EventInv, TypeOK
    <2>5. QED
      BY <1>5, <2>3, <2>4 DEF PushFails, EventInv, TypeOK, Table, hookVars
  <1>6. CASE Dispatch
    <2> DEFINE p == Top.public
               n == Len(calls)
               c == [Top EXCEPT !.at = "dispatch", !.left = resolved[p],
                                !.seen = TRUE, !.read = paramcount]
    <2>1. /\ calls # <<>> /\ Top.at = "push" /\ calls' = SetTop(c)
          /\ dispatching' = Append(dispatching, p)
          /\ resolved[p] # <<>> /\ ~Contains(dispatching, p)
      BY <1>6 DEF Dispatch, TopIs, Dispatches, MayEnter
    <2>2. /\ calls \in Seq(Call) /\ Top \in Call /\ Progress(Top)
          /\ n \in DOMAIN calls /\ n \notin Dispatched(calls)
      BY <2>1, TopIsOne DEF InDispatching
    <2>3. p \in Publics /\ resolved[p] \in Seq(Nat) /\ resolved[p] = Registered(p)
      BY <2>1, <2>2 DEF Call, EventInv, TypeOK, Table
    <2>4. <<>> \o resolved[p] = resolved[p]
      BY <2>3, ConcatEmptySeq
    <2>5. c \in Call
      <3>1. paramcount \in Int
        BY DEF EventInv, TypeOK
      <3> HIDE DEF p
      <3>2. QED
        BY <2>2, <2>3, <3>1 DEF Call
    <2>6. c.at = "dispatch" /\ c.public = p /\ c.left = resolved[p] /\ c.ran = Top.ran
      BY <2>2 DEF Call
    <2> HIDE DEF c
    <2>7. Progress(c)
      BY <2>1, <2>2, <2>3, <2>4, <2>6 DEF Progress
    <2>8. /\ calls' \in Seq(Call) /\ DOMAIN calls' = DOMAIN calls
          /\ calls'[n] = c
          /\ \A d \in DOMAIN calls \ {n} : calls'[d] = calls[d]
      BY <2>1, <2>2, <2>5, CallSet
    <2>9. Dispatched(calls') = Dispatched(calls) \cup {n}
      BY <2>2, <2>6, <2>8 DEF Dispatched
    <2>10. \A d \in Dispatched(calls) :
             calls'[d].public = calls[d].public /\ calls[d].public \in Publics
      <3>1. \A d \in DOMAIN calls : calls[d] \in Call
        BY <2>2, LenProperties, ElementOfSeq
      <3>2. \A d \in Dispatched(calls) : d \in DOMAIN calls \ {n}
        BY <2>2 DEF Dispatched
      <3> HIDE DEF n
      <3>3. QED
        BY <2>8, <3>1, <3>2 DEF Call
    <2>11. dispatching' \in Seq(Publics) /\ Marks(dispatching', calls')
      <3>1. dispatching \in Seq(Publics) /\ Marks(dispatching, calls) /\ calls'[n].public = p
        BY <2>6, <2>8 DEF EventInv, TypeOK
      <3> HIDE DEF n, p
      <3>2. QED
        BY <2>1, <2>2, <2>3, <2>9, <2>10, <3>1, MarkAdded
    <2>12. \A d \in DOMAIN calls' : Progress(calls'[d])
      BY <2>7, <2>8 DEF EventInv
    <2>13. QED
      BY <1>6, <2>8, <2>11, <2>12 DEF Dispatch, EventInv, TypeOK, Table, hookVars, vmVars
  <1>7. CASE PassThrough
    <2> DEFINE c == [Top EXCEPT !.at = "exec"]
    <2>1. calls # <<>> /\ Top.at = "push" /\ calls' = SetTop(c) /\ dispatching' = dispatching
      BY <1>7 DEF PassThrough, TopIs
    <2>2. Top \in Call /\ Progress(Top)
      BY <2>1, TopIsOne
    <2>3. /\ c \in Call /\ Progress(c) /\ c.public = Top.public
          /\ InDispatching(c) <=> InDispatching(Top)
      BY <2>1, <2>2 DEF Call, Progress, InDispatching
    <2> HIDE DEF c
    <2>4. /\ calls' \in Seq(Call)
          /\ Marks(dispatching, calls)'
          /\ \A d \in DOMAIN calls' : Progress(calls'[d])
      BY <2>1, <2>3, GoesOn
    <2>5. QED
      BY <1>7, <2>4 DEF PassThrough, EventInv, TypeOK, Table, hookVars, vmVars
  <1>8. CASE StartHandler
    <2> DEFINE c == [Top EXCEPT !.at = "handler", !.left = Tail(@),
                                !.ran = Append(@, Head(Top.left))]
    <2>1. /\ calls # <<>> /\ Top.at = "dispatch" /\ Top.left # <<>>
          /\ calls' = SetTop(c) /\ dispatching' = dispatching
      BY <1>8 DEF StartHandler, TopIs
    <2>2. Top \in Call /\ Progress(Top) /\ Top.ran \in Seq(Nat) /\ Top.left \in Seq(Nat)
      BY <2>1, TopIsOne DEF Call
    <2>3. /\ Tail(Top.left) \in Seq(Nat)
          /\ Append(Top.ran, Head(Top.left)) \in Seq(Nat)
          /\ Append(Top.ran, Head(Top.left)) \o Tail(Top.left) = Top.ran \o Top.left
      BY <2>1, <2>2, NextHandler
    <2>4. c \in Call
      BY <2>2, <2>3 DEF Call
    <2>5. /\ c.at = "handler" /\ c.public = Top.public
          /\ c.left = Tail(Top.left) /\ c.ran = Append(Top.ran, Head(Top.left))
      BY <2>2 DEF Call
    <2> HIDE DEF c
    <2>6. Progress(c) /\ (InDispatching(c) <=> InDispatching(Top))
      BY <2>1, <2>2, <2>3, <2>5 DEF Progress, InDispatching
    <2>7. /\ calls' \in Seq(Call)
          /\ Marks(dispatching, calls)'
          /\ \A d \in DOMAIN calls' : Progress(calls'[d])
      BY <2>1, <2>4, <2>5, <2>6, GoesOn
    <2>8. QED
      BY <1>8, <2>7 DEF StartHandler, EventInv, TypeOK, Table, hookVars, vmVars
  <1>9. CASE HandlerContinues
    <2> DEFINE c == [Top EXCEPT !.at = "dispatch"]
    <2>1. calls # <<>> /\ Top.at = "handler" /\ calls' = SetTop(c) /\ dispatching' = dispatching
      BY <1>9 DEF HandlerContinues, TopIs
    <2>2. Top \in Call /\ Progress(Top)
      BY <2>1, TopIsOne
    <2>3. /\ c \in Call /\ Progress(c) /\ c.public = Top.public
          /\ InDispatching(c) <=> InDispatching(Top)
      BY <2>1, <2>2 DEF Call, Progress, InDispatching
    <2> HIDE DEF c
    <2>4. /\ calls' \in Seq(Call)
          /\ Marks(dispatching, calls)'
          /\ \A d \in DOMAIN calls' : Progress(calls'[d])
      BY <2>1, <2>3, GoesOn
    <2>5. QED
      BY <1>9, <2>4 DEF HandlerContinues, EventInv, TypeOK, Table, hookVars, vmVars
  <1>10. CASE HandlerSuppresses
    <2>1. /\ calls # <<>> /\ Top.at = "handler" /\ calls' = Below
          /\ dispatching' = Unmarked(Top.public)
      BY <1>10 DEF HandlerSuppresses, TopIs
    <2>2. /\ calls' \in Seq(Call)
          /\ dispatching' \in Seq(Publics)
          /\ Marks(dispatching, calls)'
          /\ \A d \in DOMAIN calls' : Progress(calls'[d])
      BY <2>1, EndsInDispatch DEF InDispatching
    <2>3. used' \in Int /\ paramcount' \in Nat
      BY <1>10 DEF HandlerSuppresses, Consumed, EventInv, TypeOK
    <2>4. QED
      BY <1>10, <2>2, <2>3 DEF HandlerSuppresses, EventInv, TypeOK, Table, hookVars
  <1>11. CASE DispatchPanics
    <2> DEFINE c == [Top EXCEPT !.at = "exec", !.left = <<>>, !.seen = FALSE]
    <2>1. /\ calls # <<>> /\ Top.at = "dispatch" /\ calls' = SetTop(c)
          /\ dispatching' = Unmarked(Top.public)
      BY <1>11 DEF DispatchPanics, TopIs
    <2>2. Top \in Call /\ Progress(Top) /\ <<>> \in Seq(Nat)
      BY <2>1, TopIsOne
    <2>3. c \in Call /\ Progress(c) /\ ~InDispatching(c) /\ InDispatching(Top)
      BY <2>1, <2>2 DEF Call, Progress, InDispatching
    <2> HIDE DEF c
    <2>4. /\ calls' \in Seq(Call)
          /\ dispatching' \in Seq(Publics)
          /\ Marks(dispatching, calls)'
          /\ \A d \in DOMAIN calls' : Progress(calls'[d])
      BY <2>1, <2>3, LeavesDispatch
    <2>5. QED
      BY <1>11, <2>4 DEF DispatchPanics, EventInv, TypeOK, Table, hookVars, vmVars
  <1>12. CASE DispatchEnds
    <2> DEFINE c == [Top EXCEPT !.at = "exec"]
    <2>1. /\ calls # <<>> /\ Top.at = "dispatch" /\ Top.left = <<>> /\ calls' = SetTop(c)
          /\ dispatching' = Unmarked(Top.public)
      BY <1>12 DEF DispatchEnds, TopIs
    <2>2. Top \in Call /\ Progress(Top) /\ Top.ran \in Seq(Nat)
      BY <2>1, TopIsOne DEF Call
    <2>3. Top.ran = Registered(Top.public)
      BY <2>1, <2>2, ConcatEmptySeq DEF Progress
    <2>4. c \in Call /\ ~InDispatching(c) /\ InDispatching(Top)
      BY <2>1, <2>2 DEF Call, InDispatching
    <2>5. c.at = "exec" /\ c.public = Top.public /\ c.ran = Top.ran
      BY <2>2 DEF Call
    <2> HIDE DEF c
    <2>6. Progress(c)
      BY <2>3, <2>5 DEF Progress
    <2>7. /\ calls' \in Seq(Call)
          /\ dispatching' \in Seq(Publics)
          /\ Marks(dispatching, calls)'
          /\ \A d \in DOMAIN calls' : Progress(calls'[d])
      BY <2>1, <2>4, <2>6, LeavesDispatch
    <2>8. QED
      BY <1>12, <2>7 DEF DispatchEnds, EventInv, TypeOK, Table, hookVars, vmVars
  <1>13. CASE RunPublic
    <2> DEFINE c == [Top EXCEPT !.at = "script", !.got = paramcount,
                                !.reset = used - paramcount]
    <2>1. /\ calls # <<>> /\ Top.at = "exec" /\ calls' = SetTop(c)
          /\ dispatching' = dispatching /\ paramcount' = 0
      BY <1>13 DEF RunPublic, TopIs
    <2>2. Top \in Call /\ Progress(Top) /\ paramcount \in Int /\ used - paramcount \in Int
      BY <2>1, TopIsOne DEF EventInv, TypeOK
    <2>3. /\ c \in Call /\ Progress(c) /\ c.public = Top.public
          /\ InDispatching(c) <=> InDispatching(Top)
      BY <2>1, <2>2 DEF Call, Progress, InDispatching
    <2> HIDE DEF c
    <2>4. /\ calls' \in Seq(Call)
          /\ Marks(dispatching, calls)'
          /\ \A d \in DOMAIN calls' : Progress(calls'[d])
      BY <2>1, <2>3, GoesOn
    <2>5. QED
      BY <1>13, <2>1, <2>4 DEF RunPublic, EventInv, TypeOK, Table, hookVars
  <1>14. CASE PublicReturns
    <2>1. calls # <<>> /\ Top.at = "script" /\ calls' = Below /\ dispatching' = dispatching
      BY <1>14 DEF PublicReturns, TopIs
    <2>2. Top \in Call /\ ~InDispatching(Top)
      BY <2>1, TopIsOne DEF InDispatching
    <2>3. /\ calls' \in Seq(Call)
          /\ Marks(dispatching, calls)'
          /\ \A d \in DOMAIN calls' : Progress(calls'[d])
      BY <2>1, <2>2, EndsOutside
    <2>4. used' \in Int
      BY <1>14, <2>2 DEF PublicReturns, Released, Call, EventInv, TypeOK
    <2>5. QED
      BY <1>14, <2>3, <2>4 DEF PublicReturns, EventInv, TypeOK, Table, hookVars
  <1>15. CASE UNCHANGED vars
    BY <1>15 DEF vars, hookVars, vmVars, EventInv, TypeOK, Marks, Dispatched, Table
  <1>16. QED
    BY <1>1, <1>2, <1>3, <1>4, <1>5, <1>6, <1>7, <1>8, <1>9, <1>10, <1>11, <1>12,
       <1>13, <1>14, <1>15 DEF Next

LEMMA EventInvHolds == Spec => []EventInv
  BY EventInit, EventNext, PTL DEF Spec

(***************************************************************************)
(* Theorems.                                                               *)
(***************************************************************************)

\* Whatever calls, handlers and failures are nested, the table, the marks, the
\* stack's counts and the calls stay what the code's types say, the count of
\* arguments (paramcount) at least 0 among them.
THEOREM EventTypes == Spec => []TypeOK
  <1>1. EventInv => TypeOK
    BY DEF EventInv
  <1>2. QED
    BY <1>1, EventInvHolds, PTL

\* A public is marked exactly while one call of it is in dispatch(), through
\* suppressions, panics and nested callbacks: enter_dispatch lets no handler in
\* twice and leave_dispatch never takes another dispatch's mark, nor leaves one.
THEOREM MarksCorrect == Spec => []MarksMatchDispatches
  <1>1. EventInv => MarksMatchDispatches
    BY MarksAreTheProperty DEF EventInv
  <1>2. QED
    BY <1>1, EventInvHolds, PTL

\* Handlers of a callback run in registration order and once each, and a public
\* that was dispatched to them runs after the last: for any number of handlers
\* and of deliveries of the script to on_amx_load.
THEOREM HandlersCorrect == Spec => []HandlersOnceInOrder
  <1>1. EventInv => HandlersOnceInOrder
    BY DEF EventInv, Progress, HandlersOnceInOrder, InDispatch
  <1>2. QED
    BY <1>1, EventInvHolds, PTL

(***************************************************************************)
(* The arguments.  Each call stands on the cells of the one it is inside   *)
(* of, and paramcount counts the innermost call's alone.                   *)
(***************************************************************************)

\* A call in which another may be begun.
Settled(c) == c.at = "script" \/ (c.at = "handler" /\ c.argc = 0)

\* What a call was given, and where the stack goes when it ends.
Given(c) ==
  /\ c.at = "push" => c.pushed <= c.argc
  /\ c.at \in {"dispatch", "handler"} => c.read = c.argc
  /\ c.at = "script" => c.got = c.argc /\ c.reset = c.floor

OnStack(c) == IF c.at = "push" THEN c.pushed ELSE c.argc
InCount(c) == IF c.at = "script" THEN 0 ELSE OnStack(c)

ArgsInv(m) ==
  /\ EventInv
  /\ \A d \in DOMAIN calls :
       Given(calls[d]) /\ 0 <= calls[d].floor /\ calls[d].floor + m <= d * m
  /\ \A d \in DOMAIN calls : d # Len(calls) =>
       Settled(calls[d]) /\ calls[d + 1].floor = calls[d].floor + calls[d].argc
  /\ calls # <<>> => /\ calls[1].floor = 0 /\ Len(calls) <= MaxDepth
                    /\ used = Top.floor + OnStack(Top) /\ paramcount = InCount(Top)
  /\ calls = <<>> => used = 0 /\ paramcount = 0

\* A stack that has room for the arguments of every call: `m` are the most that
\* one passes.
Room(m) == (\A n \in ArgCounts : n <= m) /\ MaxDepth * m <= StackCells

LEMMA Times ==
  /\ \A k, m \in Nat : (k + 1) * m = k * m + m
  /\ \A j, k, m \in Nat : j <= k => j * m <= k * m
  <1>1. \A k, m \in Nat : (k + 1) * m = k * m + m
    OBVIOUS
  <1>2. ASSUME NEW j \in Nat, NEW k \in Nat, NEW m \in Nat, j <= k
        PROVE  j * m <= k * m
    <2>1. PICK i \in Nat : k = j + i
      BY <1>2
    <2>2. k * m = j * m + i * m /\ i * m \in Nat /\ j * m \in Nat
      BY <2>1
    <2>3. QED
      BY <2>2
  <1>3. QED
    BY <1>1, <1>2

LEMMA ArgsGoOn ==
  ASSUME NEW m \in Nat, ArgsInv(m), EventInv', calls # <<>>, NEW c \in Call, calls' = SetTop(c),
         c.floor = Top.floor, c.argc = Top.argc, Given(c),
         used' = c.floor + OnStack(c), paramcount' = InCount(c)
  PROVE  ArgsInv(m)'
  <1> DEFINE n == Len(calls)
  <1>1. calls \in Seq(Call) /\ Top = calls[n]
    BY DEF ArgsInv, EventInv, TypeOK, Top
  <1>2. /\ calls' \in Seq(Call) /\ DOMAIN calls' = DOMAIN calls
        /\ n \in DOMAIN calls /\ calls'[n] = c
        /\ \A d \in DOMAIN calls \ {n} : calls'[d] = calls[d]
    BY <1>1, CallSet
  <1>3. n \in Nat \ {0} /\ DOMAIN calls = 1 .. n
    BY <1>1, EmptySeq, LenProperties
  <1>4. Len(calls') = n /\ calls' # <<>> /\ Top' = c
    BY <1>2, <1>3, LenProperties, EmptySeq DEF Top
  <1> HIDE DEF n
  <1>5. \A d \in DOMAIN calls' : calls'[d].floor = calls[d].floor /\ calls'[d].argc = calls[d].argc
    BY <1>1, <1>2
  <1>6. \A d \in DOMAIN calls' :
          Given(calls'[d]) /\ 0 <= calls'[d].floor /\ calls'[d].floor + m <= d * m
    BY <1>2, <1>5 DEF ArgsInv
  <1>7. ASSUME NEW d \in DOMAIN calls', d # n
        PROVE  Settled(calls'[d]) /\ calls'[d + 1].floor = calls'[d].floor + calls'[d].argc
    <2>1. d + 1 \in DOMAIN calls' /\ d \in DOMAIN calls \ {n}
      BY <1>2, <1>3, <1>7
    <2>2. calls'[d] = calls[d] /\ calls'[d + 1].floor = calls[d + 1].floor
      BY <1>2, <1>5, <2>1
    <2>3. QED
      BY <2>1, <2>2 DEF ArgsInv, n
  <1>8. calls'[1].floor = 0 /\ n <= MaxDepth
    <2>1. 1 \in DOMAIN calls'
      BY <1>2, <1>3
    <2>2. QED
      BY <1>5, <2>1 DEF ArgsInv, n
  <1>9. QED
    BY <1>4, <1>6, <1>7, <1>8 DEF ArgsInv

LEMMA ArgsOver ==
  ASSUME NEW m \in Nat, ArgsInv(m), EventInv', calls # <<>>, calls' = Below,
         used' = Top.floor, paramcount' = 0
  PROVE  ArgsInv(m)'
  <1> DEFINE n == Len(calls)
  <1>1. calls \in Seq(Call) /\ Top = calls[n]
    BY DEF ArgsInv, EventInv, TypeOK, Top
  <1>2. /\ calls' \in Seq(Call) /\ DOMAIN calls' = DOMAIN calls \ {n}
        /\ n \in DOMAIN calls /\ \A d \in DOMAIN calls' : calls'[d] = calls[d]
    BY <1>1, CallOver
  <1>3. n \in Nat \ {0} /\ DOMAIN calls = 1 .. n
    BY <1>1, EmptySeq, LenProperties
  <1>4. Len(calls') = n - 1 /\ DOMAIN calls' = 1 .. n - 1
    <2>1. Len(calls') = n - 1
      BY <1>1, TopOfCalls
    <2>2. QED
      BY <1>2, <2>1, LenProperties
  <1> HIDE DEF n
  <1>5. \A d \in DOMAIN calls' :
          Given(calls'[d]) /\ 0 <= calls'[d].floor /\ calls'[d].floor + m <= d * m
    BY <1>2 DEF ArgsInv
  <1>6. ASSUME NEW d \in DOMAIN calls', d # n - 1
        PROVE  Settled(calls'[d]) /\ calls'[d + 1].floor = calls'[d].floor + calls'[d].argc
    <2>1. d + 1 \in DOMAIN calls' /\ d \in DOMAIN calls /\ d # n
      BY <1>2, <1>3, <1>4, <1>6
    <2>2. QED
      BY <1>2, <2>1 DEF ArgsInv, n
  <1>7. CASE n = 1
    <2>1. calls' = <<>>
      BY <1>2, <1>4, <1>7, EmptySeq
    <2>2. used' = 0
      BY <1>1, <1>7 DEF ArgsInv
    <2>3. QED
      BY <1>4, <1>5, <1>6, <2>1, <2>2 DEF ArgsInv
  <1>8. CASE n # 1
    <2>1. /\ n - 1 \in DOMAIN calls' /\ 1 \in DOMAIN calls' /\ calls' # <<>>
          /\ n - 1 \in DOMAIN calls /\ n - 1 # n /\ (n - 1) + 1 = n
      BY <1>2, <1>3, <1>4, <1>8, EmptySeq
    <2>2. Top' = calls[n - 1]
      BY <1>2, <1>4, <2>1 DEF Top
    <2>3. Settled(calls[n - 1]) /\ Top.floor = calls[n - 1].floor + calls[n - 1].argc
      BY <1>1, <2>1 DEF ArgsInv, n
    <2>4. used' = Top'.floor + OnStack(Top') /\ paramcount' = InCount(Top')
      BY <2>2, <2>3 DEF Settled, OnStack, InCount
    <2>5. calls'[1].floor = 0 /\ Len(calls') <= MaxDepth
      <3>1. n <= MaxDepth /\ calls[1].floor = 0 /\ MaxDepth \in Nat
        BY CountsAssumption DEF ArgsInv, n
      <3>2. QED
        BY <1>2, <1>3, <1>4, <2>1, <3>1
    <2>6. QED
      BY <1>4, <1>5, <1>6, <2>1, <2>4, <2>5 DEF ArgsInv
  <1>9. QED
    BY <1>7, <1>8

LEMMA ArgsInit ==
  ASSUME NEW m \in Nat
  PROVE  Init => ArgsInv(m)
  BY EventInit DEF Init, ArgsInv

\* What the invariant says of the innermost call.
LEMMA ArgsTop ==
  ASSUME NEW m \in Nat, Room(m), ArgsInv(m), calls # <<>>
  PROVE  /\ Top \in Call /\ Given(Top) /\ Top.floor \in Nat
         /\ Top.argc \in Nat /\ Top.argc <= m /\ Top.floor + Top.argc <= StackCells
         /\ used = Top.floor + OnStack(Top) /\ paramcount = InCount(Top)
  <1> DEFINE n == Len(calls)
  <1>1. /\ calls \in Seq(Call) /\ Top = calls[n] /\ Top \in Call
        /\ n \in DOMAIN calls
    BY TopIsOne DEF ArgsInv
  <1>2. n \in Nat
    BY <1>1, LenProperties
  <1>3. Top.argc \in Nat /\ Top.argc <= m /\ Top.floor \in Int
    BY <1>1, CountsAssumption DEF Call, Room
  <1>4. /\ Given(Top) /\ 0 <= Top.floor /\ Top.floor + m <= n * m
        /\ n <= MaxDepth
        /\ used = Top.floor + OnStack(Top) /\ paramcount = InCount(Top)
    BY <1>1 DEF ArgsInv
  <1> HIDE DEF n
  <1>5. MaxDepth \in Nat /\ StackCells \in Nat
    BY CountsAssumption
  <1>6. n * m <= MaxDepth * m
    BY <1>2, <1>4, <1>5, Times
  <1>7. n * m \in Int /\ MaxDepth * m \in Int
    BY <1>2, <1>5
  <1>8. MaxDepth * m <= StackCells
    BY DEF Room
  <1> DEFINE x == n * m
             y == MaxDepth * m
  <1>9. x \in Int /\ y \in Int /\ x <= y /\ y <= StackCells /\ Top.floor + m <= x
    BY <1>4, <1>6, <1>7, <1>8
  <1> HIDE DEF x, y
  <1>10. Top.floor + Top.argc <= StackCells
    BY <1>3, <1>5, <1>9
  <1>11. Top.floor \in Nat
    BY <1>3, <1>4
  <1>12. QED
    BY <1>1, <1>3, <1>4, <1>10, <1>11

\* A call that is over has left the stack as its caller had it.
LEMMA ArgsEnd ==
  ASSUME NEW m \in Nat, Room(m), FailsAfter \subseteq {0}, ArgsInv(m), calls # <<>>,
         PushFails \/ HandlerSuppresses \/ PublicReturns
  PROVE  used' = Top.floor /\ paramcount' = 0
  <1>1. /\ Top \in Call /\ Given(Top) /\ Top.floor \in Nat
        /\ Top.argc \in Nat /\ Top.argc <= m /\ Top.floor + Top.argc <= StackCells
        /\ used = Top.floor + OnStack(Top) /\ paramcount = InCount(Top)
    BY ArgsTop
  <1>2. CASE PushFails
    <2>1. /\ Top.at = "push" /\ Top.scoped /\ Top.pushed < Top.argc
          /\ Top.pushed \in FailsAfter \/ used >= StackCells
          /\ used' = Released(Top, used) /\ paramcount' = paramcount
      BY <1>2 DEF PushFails, TopIs
    <2>2. Top.pushed \in Nat /\ used = Top.floor + Top.pushed /\ paramcount = Top.pushed
      BY <1>1, <2>1 DEF Call, OnStack, InCount
    <2>3. StackCells \in Nat
      BY CountsAssumption
    <2>4. Top.pushed = 0
      BY <1>1, <2>1, <2>2, <2>3
    <2>5. QED
      BY <1>1, <2>1, <2>2, <2>4 DEF Released
  <1>3. CASE HandlerSuppresses
    <2>1. Top.at = "handler" /\ used' = used - paramcount /\ paramcount' = 0
      BY <1>3 DEF HandlerSuppresses, TopIs, Consumed
    <2>2. used = Top.floor + Top.argc /\ paramcount = Top.argc
      BY <1>1, <2>1 DEF OnStack, InCount
    <2>3. QED
      BY <1>1, <2>1, <2>2
  <1>4. CASE PublicReturns
    <2>1. Top.at = "script" /\ used' = Released(Top, Top.reset) /\ paramcount' = paramcount
      BY <1>4 DEF PublicReturns, TopIs
    <2>2. Top.reset = Top.floor /\ paramcount = 0
      BY <1>1, <2>1 DEF Given, InCount
    <2>3. QED
      BY <1>1, <2>1, <2>2 DEF Released
  <1>5. QED
    BY <1>2, <1>3, <1>4

\* A call begun stands on the arguments of the call it is made in.
LEMMA ArgsBegin ==
  ASSUME NEW m \in Nat, Room(m), HandlerCalls \subseteq {0}, ArgsInv(m), EventInv',
         NEW p \in Publics, NEW k \in ArgCounts, NEW scoped \in BOOLEAN, Begin(p, k, scoped)
  PROVE  ArgsInv(m)'
  <1> DEFINE n == Len(calls)
             c == Opened(p, k, scoped)
  <1>1. /\ calls' = Append(calls, c) /\ used' = used /\ paramcount' = paramcount
        /\ MayCall /\ n < MaxDepth
    BY DEF Begin, vmVars
  <1>2. calls \in Seq(Call) /\ used \in Int
    BY DEF ArgsInv, EventInv, TypeOK
  <1>3. /\ c.floor = used /\ c.argc = k /\ c.at = "push" /\ c.pushed = 0
    BY DEF Opened
  <1>4. c \in Call
    <2>1. <<>> \in Seq(Nat)
      OBVIOUS
    <2>2. QED
      BY <1>2, <2>1 DEF Opened, Call
  <1>5. k \in Nat /\ k <= m /\ MaxDepth \in Nat
    BY CountsAssumption DEF Room
  <1> HIDE DEF c
  <1>6. /\ DOMAIN calls' = DOMAIN calls \cup {n + 1}
        /\ calls'[n + 1] = c
        /\ \A d \in DOMAIN calls : calls'[d] = calls[d]
    BY <1>1, <1>2, <1>4, CallPushed
  <1>7. n \in Nat /\ DOMAIN calls = 1 .. n /\ Len(calls') = n + 1
    BY <1>1, <1>2, <1>4, LenProperties, AppendProperties
  <1>8. calls' # <<>> /\ Top' = c
    BY <1>1, <1>2, <1>6, <1>7 DEF Top
  <1>9. /\ paramcount = 0
        /\ 0 <= used /\ used + m <= (n + 1) * m
        /\ IF n = 0 THEN used = 0
           ELSE Settled(calls[n]) /\ used = calls[n].floor + calls[n].argc
    <2>1. CASE calls = <<>>
      <3>1. n = 0 /\ used = 0 /\ paramcount = 0
        BY <2>1 DEF ArgsInv
      <3>2. QED
        BY <3>1
    <2>2. CASE calls # <<>>
      <3>1. n # 0 /\ n \in DOMAIN calls /\ Top = calls[n]
        BY <1>2, <1>7, <2>2, EmptySeq DEF Top
      <3>2. /\ Top \in Call /\ Top.floor \in Nat /\ Top.argc \in Nat /\ Top.argc <= m
            /\ used = Top.floor + OnStack(Top) /\ paramcount = InCount(Top)
        BY <2>2, ArgsTop
      <3>3. Settled(Top)
        BY <1>1, <2>2 DEF MayCall, TopIs, Settled
      <3>4. paramcount = 0 /\ used = Top.floor + Top.argc
        BY <3>2, <3>3 DEF Settled, OnStack, InCount
      <3>5. Top.floor + m <= n * m
        BY <3>1 DEF ArgsInv
      <3>6. (n + 1) * m = n * m + m /\ n * m \in Int
        BY <1>7, Times
      <3> DEFINE x == n * m
      <3> HIDE DEF x
      <3>7. used + m <= (n + 1) * m
        <4>1. Top.floor + m <= x /\ (n + 1) * m = x + m /\ x \in Int
          BY <3>5, <3>6 DEF x
        <4>2. QED
          BY <3>2, <3>4, <4>1
      <3>8. QED
        BY <3>1, <3>2, <3>3, <3>4, <3>7
    <2>3. QED
      BY <2>1, <2>2
  <1> HIDE DEF n
  <1>10. \A d \in DOMAIN calls :
           Given(calls[d]) /\ 0 <= calls[d].floor /\ calls[d].floor + m <= d * m
    BY DEF ArgsInv
  <1>11. Given(c)
    BY <1>3, <1>5 DEF Given
  <1>12. \A d \in DOMAIN calls' :
           Given(calls'[d]) /\ 0 <= calls'[d].floor /\ calls'[d].floor + m <= d * m
    BY <1>3, <1>6, <1>9, <1>10, <1>11
  <1>13. ASSUME NEW d \in DOMAIN calls', d # n + 1
         PROVE  Settled(calls'[d]) /\ calls'[d + 1].floor = calls'[d].floor + calls'[d].argc
    <2>1. d \in DOMAIN calls /\ d \in 1 .. n
      BY <1>6, <1>7, <1>13
    <2>2. CASE d = n
      <3>1. n # 0 /\ calls'[d] = calls[n] /\ calls'[d + 1] = c
        BY <1>6, <1>7, <2>1, <2>2
      <3>2. QED
        BY <1>3, <1>9, <3>1
    <2>3. CASE d # n
      <3>1. d + 1 \in DOMAIN calls
        BY <1>7, <2>1, <2>3
      <3>2. Settled(calls[d]) /\ calls[d + 1].floor = calls[d].floor + calls[d].argc
        BY <2>1, <2>3 DEF ArgsInv, n
      <3>3. QED
        BY <1>6, <2>1, <3>1, <3>2
    <2>4. QED
      BY <2>2, <2>3
  <1>14. calls'[1].floor = 0 /\ n + 1 <= MaxDepth
    <2>1. n + 1 <= MaxDepth
      BY <1>1, <1>5, <1>7 DEF n
    <2>2. CASE n = 0
      BY <1>3, <1>6, <1>9, <2>1, <2>2
    <2>3. CASE n # 0
      <3>1. 1 \in DOMAIN calls /\ calls # <<>>
        BY <1>2, <1>7, <2>3, EmptySeq
      <3>2. QED
        BY <1>6, <2>1, <3>1 DEF ArgsInv
    <2>4. QED
      BY <2>2, <2>3
  <1>15. used' = Top'.floor + OnStack(Top') /\ paramcount' = InCount(Top')
    BY <1>1, <1>2, <1>3, <1>8, <1>9 DEF OnStack, InCount
  <1>16. QED
    BY <1>7, <1>8, <1>12, <1>13, <1>14, <1>15 DEF ArgsInv

LEMMA ArgsNext ==
  ASSUME NEW m \in Nat, Room(m), FailsAfter \subseteq {0}, HandlerCalls \subseteq {0}
  PROVE  ArgsInv(m) /\ [Next]_vars => ArgsInv(m)'
  <1> SUFFICES ASSUME ArgsInv(m), [Next]_vars
               PROVE  ArgsInv(m)'
    OBVIOUS
  <1>1. EventInv'
    BY EventNext DEF ArgsInv
  <1>2. ASSUME calls # <<>>
        PROVE  /\ Top \in Call /\ Given(Top) /\ Top.floor \in Nat
               /\ Top.argc \in Nat /\ Top.argc <= m /\ Top.floor + Top.argc <= StackCells
               /\ used = Top.floor + OnStack(Top) /\ paramcount = InCount(Top)
    BY <1>2, ArgsTop
  <1>3. CASE Load
    <2>1. calls = <<>> /\ calls' = <<>> /\ used' = 0 /\ paramcount' = 0
      BY <1>3 DEF Load, vmVars, ArgsInv
    <2>2. QED
      BY <1>1, <2>1 DEF ArgsInv
  <1>4. CASE Unload
    <2>1. calls = <<>> /\ calls' = <<>> /\ used' = 0 /\ paramcount' = 0
      BY <1>4 DEF Unload, vmVars, ArgsInv
    <2>2. QED
      BY <1>1, <2>1 DEF ArgsInv
  <1>5. CASE \E p \in Publics, n \in ArgCounts, scoped \in BOOLEAN : Begin(p, n, scoped)
    BY <1>1, <1>5, ArgsBegin
  <1>6. CASE Push
    <2> DEFINE c == [Top EXCEPT !.pushed = @ + 1]
    <2>1. /\ calls # <<>> /\ Top.at = "push" /\ Top.pushed < Top.argc /\ calls' = SetTop(c)
          /\ used' = used + 1 /\ paramcount' = paramcount + 1
      BY <1>6 DEF Push, TopIs
    <2>2. Top \in Call /\ Top.pushed \in Nat /\ Top.pushed + 1 \in Nat
      BY <1>2, <2>1 DEF Call
    <2>3. c \in Call
      BY <2>2 DEF Call
    <2>4. /\ c.at = "push" /\ c.pushed = Top.pushed + 1
          /\ c.floor = Top.floor /\ c.argc = Top.argc
      BY <2>1, <2>2, Zenon DEF Call
    <2> HIDE DEF c
    <2>5. Given(c) /\ used' = c.floor + OnStack(c) /\ paramcount' = InCount(c)
      BY <1>2, <2>1, <2>2, <2>4 DEF Given, OnStack, InCount
    <2>6. QED
      BY <1>1, <2>1, <2>3, <2>4, <2>5, ArgsGoOn
  <1>7. CASE Dispatch
    <2> DEFINE c == [Top EXCEPT !.at = "dispatch", !.left = resolved[Top.public],
                                !.seen = TRUE, !.read = paramcount]
    <2>1. /\ calls # <<>> /\ Top.at = "push" /\ Top.pushed = Top.argc /\ calls' = SetTop(c)
          /\ used' = used /\ paramcount' = paramcount
      BY <1>7 DEF Dispatch, TopIs, vmVars
    <2>2. Top \in Call /\ resolved[Top.public] \in Seq(Nat) /\ paramcount \in Int
      BY <1>2, <2>1 DEF Call, ArgsInv, EventInv, TypeOK
    <2>3. /\ c \in Call /\ c.at = "dispatch" /\ c.read = paramcount
          /\ c.floor = Top.floor /\ c.argc = Top.argc
      BY <2>2 DEF Call
    <2> HIDE DEF c
    <2>4. Given(c) /\ used' = c.floor + OnStack(c) /\ paramcount' = InCount(c)
      BY <1>2, <2>1, <2>2, <2>3 DEF Given, OnStack, InCount
    <2>5. QED
      BY <1>1, <2>1, <2>3, <2>4, ArgsGoOn
  <1>8. CASE PassThrough
    <2> DEFINE c == [Top EXCEPT !.at = "exec"]
    <2>1. /\ calls # <<>> /\ Top.at = "push" /\ Top.pushed = Top.argc /\ calls' = SetTop(c)
          /\ used' = used /\ paramcount' = paramcount
      BY <1>8 DEF PassThrough, TopIs, vmVars
    <2>2. /\ c \in Call /\ c.at = "exec" /\ c.floor = Top.floor /\ c.argc = Top.argc
      BY <1>2, <2>1 DEF Call
    <2> HIDE DEF c
    <2>3. Given(c) /\ used' = c.floor + OnStack(c) /\ paramcount' = InCount(c)
      BY <1>2, <2>1, <2>2 DEF Given, OnStack, InCount
    <2>4. QED
      BY <1>1, <2>1, <2>2, <2>3, ArgsGoOn
  <1>9. CASE StartHandler
    <2> DEFINE c == [Top EXCEPT !.at = "handler", !.left = Tail(@),
                                !.ran = Append(@, Head(Top.left))]
    <2>1. /\ calls # <<>> /\ Top.at = "dispatch" /\ Top.left # <<>> /\ calls' = SetTop(c)
          /\ used' = used /\ paramcount' = paramcount
      BY <1>9 DEF StartHandler, TopIs, vmVars
    <2>2. Top \in Call /\ Top.ran \in Seq(Nat) /\ Top.left \in Seq(Nat)
      BY <1>2, <2>1 DEF Call
    <2>3. /\ Tail(Top.left) \in Seq(Nat)
          /\ Append(Top.ran, Head(Top.left)) \in Seq(Nat)
      BY <2>1, <2>2, NextHandler
    <2>4. /\ c \in Call /\ c.at = "handler" /\ c.read = Top.read
          /\ c.floor = Top.floor /\ c.argc = Top.argc
      BY <2>2, <2>3 DEF Call
    <2> HIDE DEF c
    <2>5. Given(c) /\ used' = c.floor + OnStack(c) /\ paramcount' = InCount(c)
      BY <1>2, <2>1, <2>4 DEF Given, OnStack, InCount
    <2>6. QED
      BY <1>1, <2>1, <2>4, <2>5, ArgsGoOn
  <1>10. CASE HandlerContinues
    <2> DEFINE c == [Top EXCEPT !.at = "dispatch"]
    <2>1. /\ calls # <<>> /\ Top.at = "handler" /\ calls' = SetTop(c)
          /\ used' = used /\ paramcount' = paramcount
      BY <1>10 DEF HandlerContinues, TopIs, vmVars
    <2>2. /\ c \in Call /\ c.at = "dispatch" /\ c.read = Top.read
          /\ c.floor = Top.floor /\ c.argc = Top.argc
      BY <1>2, <2>1 DEF Call
    <2> HIDE DEF c
    <2>3. Given(c) /\ used' = c.floor + OnStack(c) /\ paramcount' = InCount(c)
      BY <1>2, <2>1, <2>2 DEF Given, OnStack, InCount
    <2>4. QED
      BY <1>1, <2>1, <2>2, <2>3, ArgsGoOn
  <1>11. CASE DispatchEnds
    <2> DEFINE c == [Top EXCEPT !.at = "exec"]
    <2>1. /\ calls # <<>> /\ Top.at = "dispatch" /\ calls' = SetTop(c)
          /\ used' = used /\ paramcount' = paramcount
      BY <1>11 DEF DispatchEnds, TopIs, vmVars
    <2>2. /\ c \in Call /\ c.at = "exec" /\ c.floor = Top.floor /\ c.argc = Top.argc
      BY <1>2, <2>1 DEF Call
    <2> HIDE DEF c
    <2>3. Given(c) /\ used' = c.floor + OnStack(c) /\ paramcount' = InCount(c)
      BY <1>2, <2>1, <2>2 DEF Given, OnStack, InCount
    <2>4. QED
      BY <1>1, <2>1, <2>2, <2>3, ArgsGoOn
  <1>12. CASE DispatchPanics
    <2> DEFINE c == [Top EXCEPT !.at = "exec", !.left = <<>>, !.seen = FALSE]
    <2>1. /\ calls # <<>> /\ Top.at = "dispatch" /\ calls' = SetTop(c)
          /\ used' = used /\ paramcount' = paramcount
      BY <1>12 DEF DispatchPanics, TopIs, vmVars
    <2>2. <<>> \in Seq(Nat)
      OBVIOUS
    <2>3. /\ c \in Call /\ c.at = "exec" /\ c.floor = Top.floor /\ c.argc = Top.argc
      BY <1>2, <2>1, <2>2 DEF Call
    <2> HIDE DEF c
    <2>4. Given(c) /\ used' = c.floor + OnStack(c) /\ paramcount' = InCount(c)
      BY <1>2, <2>1, <2>3 DEF Given, OnStack, InCount
    <2>5. QED
      BY <1>1, <2>1, <2>3, <2>4, ArgsGoOn
  <1>13. CASE RunPublic
    <2> DEFINE c == [Top EXCEPT !.at = "script", !.got = paramcount,
                                !.reset = used - paramcount]
    <2>1. /\ calls # <<>> /\ Top.at = "exec" /\ calls' = SetTop(c)
          /\ used' = used /\ paramcount' = 0
      BY <1>13 DEF RunPublic, TopIs
    <2>2. /\ Top \in Call /\ paramcount = Top.argc /\ used = Top.floor + Top.argc
          /\ used - paramcount = Top.floor
          /\ paramcount \in Int /\ used - paramcount \in Int
      BY <1>2, <2>1 DEF OnStack, InCount
    <2>3. /\ c \in Call /\ c.at = "script" /\ c.got = paramcount /\ c.reset = used - paramcount
          /\ c.floor = Top.floor /\ c.argc = Top.argc
      BY <2>2 DEF Call
    <2> HIDE DEF c
    <2>4. Given(c) /\ used' = c.floor + OnStack(c) /\ paramcount' = InCount(c)
      BY <1>2, <2>1, <2>2, <2>3 DEF Given, OnStack, InCount
    <2>5. QED
      BY <1>1, <2>1, <2>3, <2>4, ArgsGoOn
  <1>14. CASE PushFails \/ HandlerSuppresses \/ PublicReturns
    <2>1. calls # <<>> /\ calls' = Below
      BY <1>14 DEF PushFails, HandlerSuppresses, PublicReturns, TopIs
    <2>2. used' = Top.floor /\ paramcount' = 0
      BY <1>14, <2>1, ArgsEnd
    <2>3. QED
      BY <1>1, <2>1, <2>2, ArgsOver
  <1>15. CASE UNCHANGED vars
    <2>1. calls' = calls /\ used' = used /\ paramcount' = paramcount
      BY <1>15 DEF vars, vmVars
    <2>2. Top' = Top
      BY <2>1 DEF Top
    <2>3. QED
      BY <1>1, <2>1, <2>2 DEF ArgsInv
  <1>16. QED
    BY <1>3, <1>4, <1>5, <1>6, <1>7, <1>8, <1>9, <1>10, <1>11, <1>12, <1>13, <1>14, <1>15
       DEF Next

LEMMA ArgsInvHolds ==
  ASSUME NEW m \in Nat, Room(m), FailsAfter \subseteq {0}, HandlerCalls \subseteq {0}
  PROVE  Spec => []ArgsInv(m)
  BY ArgsInit, ArgsNext, PTL DEF Spec

\* Every handler and every public is given exactly the arguments of its call,
\* whatever was suppressed, aborted or nested before it, where the stack has
\* room for them, no allocation fails after a push (amx.rs:559) and no handler
\* calls a public while arguments of its own lie on the stack: without either
\* of the last two the property fails, as two runs show.
THEOREM ArgumentsArrive ==
  ASSUME NEW m \in Nat, Room(m), FailsAfter \subseteq {0}, HandlerCalls \subseteq {0}
  PROVE  Spec => []ArgumentsIntact
  <1>1. ArgsInv(m) => ArgumentsIntact
    BY DEF ArgsInv, Given, ArgumentsIntact, InDispatch
  <1>2. QED
    BY <1>1, ArgsInvHolds, PTL

\* Under the same assumptions, a call that ends, also by a failed push, by a
\* handler's suppression (consume_arguments) or inside other calls, leaves the
\* stack and paramcount as they were before its first push.
THEOREM CallsLeaveNoTrace ==
  ASSUME NEW m \in Nat, Room(m), FailsAfter \subseteq {0}, HandlerCalls \subseteq {0}
  PROVE  Spec => CallLeavesNoTrace
  <1>1. ASSUME ArgsInv(m), [Next]_vars
        PROVE  [Len(calls') < Len(calls) => used' = Top.floor /\ paramcount' = 0]_vars
    <2> SUFFICES ASSUME ~UNCHANGED vars, Len(calls') < Len(calls)
                 PROVE  used' = Top.floor /\ paramcount' = 0
      OBVIOUS
    <2>1. calls \in Seq(Call) /\ EventInv /\ Len(calls) \in Nat
      BY <1>1, LenProperties DEF ArgsInv, EventInv, TypeOK
    <2>2. CASE calls = <<>>
      <3>1. Len(calls) = 0 /\ Len(calls') \in Nat
        BY <1>1, <2>2, EventNext, LenProperties DEF ArgsInv, EventInv, TypeOK
      <3>2. QED
        BY <3>1
    <2>3. CASE calls # <<>>
      <3>1. \A c : Len(SetTop(c)) = Len(calls) /\ Len(Append(calls, c)) = Len(calls) + 1
        BY <2>1, <2>3, TopOfCalls DEF SetTop
      <3>2. PushFails \/ HandlerSuppresses \/ PublicReturns
        <4>1. ASSUME calls' = calls \/ \E c : calls' = SetTop(c) \/ calls' = Append(calls, c)
              PROVE  FALSE
          BY <2>1, <3>1, <4>1
        <4>2. QED
          BY <1>1, <4>1 DEF Next, Load, Unload, Begin, Push, Dispatch, PassThrough,
             StartHandler, HandlerContinues, DispatchEnds, DispatchPanics, RunPublic
      <3>3. QED
        BY <1>1, <2>3, <3>2, ArgsEnd
    <2>4. QED
      BY <2>2, <2>3
  <1>2. QED
    BY <1>1, ArgsInvHolds, PTL DEF Spec, CallLeavesNoTrace

=============================================================================
