------------------------------ MODULE VmDebug_proofs ------------------------------
(***************************************************************************)
(* Theorems about VmDebug, for any scripts, any depth of calls and of a    *)
(* walk, and any size at which the count of lines overflows: the table of  *)
(* lines is read back, breakpoints land, and a walk of the stack gives the *)
(* functions that are running.                                             *)
(***************************************************************************)
EXTENDS VmDebug, WellFoundedInduction, TLAPS

(***************************************************************************)
(* Lemmas on numbers and on what the model defines by recursion.           *)
(***************************************************************************)

LessThan == {pair \in Nat \X Nat : pair[1] < pair[2]}

\* A set of numbers has a least one.
LEMMA LeastNumber ==
  ASSUME NEW S \in SUBSET Nat, S # {}
  PROVE  \E i \in S : \A j \in S : i <= j
  <1>1. OpToRel(<, Nat) = LessThan
    BY DEF OpToRel, LessThan
  <1>2. IsWellFoundedOn(LessThan, Nat)
    BY <1>1, NatLessThanWellFounded
  <1>3. PICK i \in S : \A j \in S : ~(<<j, i>> \in LessThan)
    BY <1>2, WFMin
  <1>4. ASSUME NEW j \in S
        PROVE  i <= j
    <2>1. <<j, i>> \notin LessThan /\ <<j, i>> \in Nat \X Nat /\ i \in Nat /\ j \in Nat
      BY <1>3
    <2>2. ~(j < i)
      BY <2>1 DEF LessThan
    <2>3. QED
      BY <2>1, <2>2
  <1>5. QED
    BY <1>4

\* Induction, for sets.
LEMMA EveryNumber ==
  ASSUME NEW S \in SUBSET Nat, 0 \in S, \A n \in S : n + 1 \in S
  PROVE  S = Nat
  <1>1. ASSUME Nat \ S # {}
        PROVE  FALSE
    <2>1. PICK i \in Nat \ S : \A j \in Nat \ S : i <= j
      BY <1>1, LeastNumber
    <2>2. i # 0 /\ i - 1 \in Nat /\ (i - 1) + 1 = i /\ ~(i <= i - 1)
      BY <2>1
    <2>3. i - 1 \in S
      BY <2>1, <2>2
    <2>4. QED
      BY <2>1, <2>2, <2>3
  <1>2. QED
    BY <1>1
\* What is computed step by step from `base`: there is a function of the steps.
Steps(S, base, N, step, g) ==
  g \in [0 .. N -> S] /\ g[0] = base /\ \A n \in 1 .. N : g[n] = step[<<n, g[n - 1]>>]

LEMMA StepsExist ==
  ASSUME NEW S, NEW base \in S, NEW N \in Nat, NEW step \in [(1 .. N) \X S -> S]
  PROVE  \E g : Steps(S, base, N, step, g)
  <1> DEFINE K == {k \in Nat : k <= N => \E g : Steps(S, base, k, step, g)}
  <1>1. 0 \in K
    <2>1. Steps(S, base, 0, step, [i \in 0 .. 0 |-> base])
      BY DEF Steps
    <2>2. QED
      BY <2>1
  <1>2. ASSUME NEW k \in K
        PROVE  k + 1 \in K
    <2>1. SUFFICES ASSUME k + 1 <= N
                   PROVE  \E g : Steps(S, base, k + 1, step, g)
      OBVIOUS
    <2>2. k \in Nat /\ k + 1 \in Nat /\ k \in 0 .. k /\ k <= N /\ k + 1 \in 1 .. N
      BY <2>1
    <2>3. PICK g : Steps(S, base, k, step, g)
      BY <2>2
    <2> DEFINE h == [i \in 0 .. k + 1 |-> IF i = k + 1 THEN step[<<k + 1, g[k]>>] ELSE g[i]]
    <2>4. g[k] \in S /\ step[<<k + 1, g[k]>>] \in S
      <3>1. g[k] \in S
        BY <2>2, <2>3 DEF Steps
      <3>2. <<k + 1, g[k]>> \in (1 .. N) \X S
        BY <2>2, <3>1
      <3>3. QED
        BY <3>1, <3>2
    <2>5. h \in [0 .. k + 1 -> S]
      <3>1. ASSUME NEW i \in 0 .. k + 1
            PROVE  h[i] \in S
        <4>1. i = k + 1 \/ i \in 0 .. k
          BY <2>2
        <4>2. QED
          BY <2>3, <2>4, <4>1 DEF Steps
      <3>2. QED
        BY <3>1
    <2>6. h[0] = base
      BY <2>2, <2>3 DEF Steps
    <2>7. ASSUME NEW n \in 1 .. k + 1
          PROVE  h[n] = step[<<n, h[n - 1]>>]
      <3>1. n - 1 \in 0 .. k /\ n - 1 # k + 1
        BY <2>2
      <3>2. h[n - 1] = g[n - 1]
        BY <3>1
      <3>3. CASE n = k + 1
        <4>1. n - 1 = k /\ h[n] = step[<<k + 1, g[k]>>]
          BY <3>3, <2>2
        <4>2. QED
          BY <3>2, <3>3, <4>1
      <3>4. CASE n # k + 1
        <4>1. n \in 1 .. k /\ h[n] = g[n]
          BY <3>4, <2>2
        <4>2. QED
          BY <3>2, <4>1, <2>3 DEF Steps
      <3>5. QED
        BY <3>3, <3>4
    <2> HIDE DEF h
    <2>8. QED
      BY <2>5, <2>6, <2>7 DEF Steps
  <1>3. K = Nat
    <2>1. K \in SUBSET Nat
      OBVIOUS
    <2> HIDE DEF K
    <2>2. QED
      BY <1>1, <1>2, <2>1, EveryNumber
  <1>4. QED
    BY <1>3

\* A property of numbers up to N that holds at 0 and is handed on.
LEMMA UpTo ==
  ASSUME NEW N \in Nat, NEW P \in [0 .. N -> BOOLEAN], P[0],
         \A n \in 0 .. N : n < N /\ P[n] => P[n + 1]
  PROVE  \A n \in 0 .. N : P[n]
  <1> DEFINE K == {k \in Nat : k <= N => P[k]}
  <1>1. 0 \in K
    OBVIOUS
  <1>2. ASSUME NEW k \in K
        PROVE  k + 1 \in K
    BY SMT
  <1>3. K \in SUBSET Nat
    OBVIOUS
  <1>4. K = Nat
    <2> HIDE DEF K
    <2>1. QED
      BY <1>1, <1>2, <1>3, EveryNumber
  <1>5. QED
    BY <1>4

(***************************************************************************)
(* The layout of a script.                                                 *)
(***************************************************************************)

\* Functions as the compiler takes them.
FunctionsOK(functions) ==
  /\ functions \in Seq({functions[f] : f \in DOMAIN functions})
  /\ \A f \in DOMAIN functions :
       /\ functions[f].body \in Seq([line : Nat \ {0}, calls : 0 .. Len(functions)])
       /\ functions[f].body # <<>>

\* Where they begin: one behind the other.
StartsOK(functions, start) ==
  /\ start \in [1 .. Len(functions) + 1 -> Nat]
  /\ start[1] = 1
  /\ \A f \in 1 .. Len(functions) : start[f + 1] = start[f] + 2 + 2 * Len(functions[f].body)
  /\ \A f, g \in 1 .. Len(functions) + 1 : f < g => start[f] < start[g]

LEMMA BodyLength ==
  ASSUME NEW functions, FunctionsOK(functions), NEW f \in 1 .. Len(functions)
  PROVE  /\ f \in DOMAIN functions /\ Len(functions) \in Nat
         /\ Len(functions[f].body) \in Nat /\ Len(functions[f].body) > 0
         /\ DOMAIN functions[f].body = 1 .. Len(functions[f].body)
  <1>1. f \in DOMAIN functions /\ Len(functions) \in Nat
    BY DEF FunctionsOK
  <1>2. functions[f].body \in Seq([line : Nat \ {0}, calls : 0 .. Len(functions)]) /\ functions[f].body # <<>>
    BY <1>1 DEF FunctionsOK
  <1>3. QED
    BY <1>1, <1>2

LEMMA StartsAre ==
  ASSUME NEW functions, FunctionsOK(functions)
  PROVE  StartsOK(functions, CodeStart(functions))
  <1> DEFINE N == Len(functions)
             Solves(s) == s = [f \in 1 .. N + 1 |->
                                 IF f = 1 THEN 1 ELSE s[f - 1] + 2 + 2 * Len(functions[f - 1].body)]
             size == [f \in 1 .. N |-> 2 + 2 * Len(functions[f].body)]
             start == CHOOSE s : Solves(s)
  <1>1. N \in Nat
    BY DEF FunctionsOK
  <1>2. ASSUME NEW f \in 1 .. N
        PROVE  size[f] \in Nat /\ size[f] > 0 /\ size[f] = 2 + 2 * Len(functions[f].body)
    <2>1. Len(functions[f].body) \in Nat
      BY BodyLength
    <2>2. QED
      BY <2>1
  <1>3. \E s : Solves(s)
    <2> DEFINE step == [p \in (1 .. N) \X Nat |-> p[2] + size[p[1]]]
    <2>1. step \in [(1 .. N) \X Nat -> Nat]
      <3>1. ASSUME NEW p \in (1 .. N) \X Nat
            PROVE  p[2] + size[p[1]] \in Nat
        BY <1>2
      <3>2. QED
        BY <3>1
    <2>2. PICK g : Steps(Nat, 1, N, step, g)
      <3> HIDE DEF step, N
      <3>1. QED
        BY <1>1, <2>1, StepsExist
    <2> DEFINE s == [f \in 1 .. N + 1 |-> g[f - 1]]
    <2>3. ASSUME NEW f \in 1 .. N + 1
          PROVE  s[f] = IF f = 1 THEN 1 ELSE s[f - 1] + 2 + 2 * Len(functions[f - 1].body)
      <3>1. CASE f = 1
        BY <3>1, <1>1, <2>2 DEF Steps
      <3>2. CASE f # 1
        <4>1. f - 1 \in 1 .. N /\ f - 1 \in 1 .. N + 1 /\ (f - 1) - 1 \in 0 .. N
          BY <3>2, <1>1
        <4>2. g[f - 1] = step[<<f - 1, g[(f - 1) - 1]>>] /\ g[(f - 1) - 1] \in Nat
          BY <4>1, <2>2 DEF Steps
        <4>3. g[f - 1] = g[(f - 1) - 1] + size[f - 1]
          BY <4>1, <4>2
        <4>4. s[f] = g[f - 1] /\ s[f - 1] = g[(f - 1) - 1]
          BY <4>1
        <4>5. Len(functions[f - 1].body) \in Nat
          BY <4>1, BodyLength
        <4>6. QED
          BY <3>2, <4>1, <4>2, <4>3, <4>4, <4>5
      <3>3. QED
        BY <3>1, <3>2
    <2>4. Solves(s)
      BY <2>3
    <2>5. QED
      BY <2>4
  <1>4. Solves(start)
    <2> HIDE DEF Solves
    <2>1. QED
      BY <1>3
  <1>5. CodeStart(functions) = start
    BY DEF CodeStart
  <1>6. /\ start = [f \in 1 .. N + 1 |-> start[f]]
        /\ start[1] = 1
        /\ \A f \in 1 .. N : start[f + 1] = start[f] + 2 + 2 * Len(functions[f].body)
    <2> HIDE DEF start
    <2>1. start = [f \in 1 .. N + 1 |-> start[f]]
      BY <1>4
    <2>2. \A f \in 1 .. N + 1 :
            start[f] = IF f = 1 THEN 1 ELSE start[f - 1] + 2 + 2 * Len(functions[f - 1].body)
      BY <1>4
    <2>3. start[1] = 1
      BY <1>1, <2>2
    <2>4. ASSUME NEW f \in 1 .. N
          PROVE  start[f + 1] = start[f] + 2 + 2 * Len(functions[f].body)
      <3>1. f + 1 \in 1 .. N + 1 /\ f + 1 # 1 /\ (f + 1) - 1 = f
        BY <1>1
      <3>2. QED
        BY <2>2, <3>1
    <2>5. QED
      BY <2>1, <2>3, <2>4
  <1> HIDE DEF start, Solves
  <1> DEFINE P == [n \in 0 .. N |-> /\ start[n + 1] \in Nat
                                    /\ \A f \in 1 .. n : start[f] \in Nat /\ start[f] < start[n + 1]]
  <1>7. \A n \in 0 .. N : P[n]
    <2>1. P[0]
      BY <1>1, <1>6
    <2>2. ASSUME NEW n \in 0 .. N, n < N, P[n]
          PROVE  P[n + 1]
      <3>1. n + 1 \in 1 .. N /\ n + 1 \in 0 .. N /\ n \in Nat
        BY <1>1, <2>2
      <3>2. start[n + 1] \in Nat /\ \A f \in 1 .. n : start[f] \in Nat /\ start[f] < start[n + 1]
        BY <2>2
      <3>3. start[(n + 1) + 1] = start[n + 1] + 2 + 2 * Len(functions[n + 1].body)
        BY <1>6, <3>1
      <3>4. Len(functions[n + 1].body) \in Nat
        BY <3>1, BodyLength
      <3>5. start[(n + 1) + 1] \in Nat /\ start[n + 1] < start[(n + 1) + 1]
        BY <3>2, <3>3, <3>4
      <3>6. ASSUME NEW f \in 1 .. n + 1
            PROVE  start[f] \in Nat /\ start[f] < start[(n + 1) + 1]
        <4>1. f = n + 1 \/ f \in 1 .. n
          BY <3>1
        <4>2. QED
          BY <3>2, <3>5, <4>1
      <3>7. QED
        BY <3>1, <3>5, <3>6
    <2>3. P \in [0 .. N -> BOOLEAN]
      OBVIOUS
    <2> HIDE DEF P
    <2>4. QED
      BY <1>1, <2>1, <2>2, <2>3, UpTo
  <1>8. start \in [1 .. N + 1 -> Nat]
    <2>1. ASSUME NEW f \in 1 .. N + 1
          PROVE  start[f] \in Nat
      <3>1. f - 1 \in 0 .. N /\ (f - 1) + 1 = f
        BY <1>1
      <3>2. QED
        BY <1>7, <3>1
    <2>2. QED
      BY <1>1, <1>6, <2>1
  <1>9. ASSUME NEW f \in 1 .. N + 1, NEW g \in 1 .. N + 1, f < g
        PROVE  start[f] < start[g]
    <2>1. g - 1 \in 0 .. N /\ (g - 1) + 1 = g /\ f \in 1 .. g - 1
      BY <1>1, <1>9
    <2>2. QED
      BY <1>7, <2>1
  <1>10. QED
    BY <1>5, <1>6, <1>8, <1>9 DEF StartsOK

\* A sequence made of several: where each of them ends up.
Spread(ss, flat, end) ==
  /\ end \in [0 .. Len(ss) -> Nat] /\ end[0] = 0 /\ Len(flat) = end[Len(ss)]
  /\ \A f \in 1 .. Len(ss) : end[f] = end[f - 1] + Len(ss[f])
  /\ \A f \in 1 .. Len(ss) : \A i \in 1 .. Len(ss[f]) : flat[end[f - 1] + i] = ss[f][i]
  /\ \A k \in 1 .. Len(flat) : \E f \in 1 .. Len(ss) : end[f - 1] < k /\ k <= end[f]

\* As far as the first n of them.
SpreadTo(ss, n, flat, end) ==
  /\ end \in [0 .. n -> Nat] /\ end[0] = 0 /\ Len(flat) = end[n]
  /\ \A f \in 1 .. n : end[f] = end[f - 1] + Len(ss[f])
  /\ \A f \in 1 .. n : \A i \in 1 .. Len(ss[f]) : flat[end[f - 1] + i] = ss[f][i]
  /\ \A k \in 1 .. Len(flat) : \E f \in 1 .. n : end[f - 1] < k /\ k <= end[f]

LEMMA EndsAscend ==
  ASSUME NEW n \in Nat, NEW end \in [0 .. n -> Nat], \A f \in 1 .. n : end[f - 1] <= end[f]
  PROVE  \A f, g \in 0 .. n : f <= g => end[f] <= end[g]
  <1>1. SUFFICES ASSUME NEW f \in 0 .. n
                 PROVE  \A g \in 0 .. n : f <= g => end[f] <= end[g]
    OBVIOUS
  <1> DEFINE P == [m \in 0 .. n |-> m >= f => end[f] <= end[m]]
  <1>2. P \in [0 .. n -> BOOLEAN]
    OBVIOUS
  <1>3. P[0]
    <2>1. 0 \in 0 .. n /\ end[f] \in Nat
      OBVIOUS
    <2>2. 0 >= f => end[f] <= end[0]
      <3>1. 0 >= f => f = 0
        OBVIOUS
      <3>2. QED
        BY <2>1, <3>1
    <2>3. QED
      BY <2>1, <2>2
  <1>4. ASSUME NEW m \in 0 .. n, m < n, P[m]
        PROVE  P[m + 1]
    <2>1. m + 1 \in 1 .. n /\ m + 1 \in 0 .. n /\ (m + 1) - 1 = m
      BY <1>4
    <2>2. end[m] <= end[m + 1] /\ end[m] \in Nat /\ end[m + 1] \in Nat /\ end[f] \in Nat
      BY <2>1
    <2>3. m >= f => end[f] <= end[m]
      BY <1>4
    <2>4. m + 1 >= f => m >= f \/ f = m + 1
      OBVIOUS
    <2> HIDE DEF P
    <2>5. m + 1 >= f => end[f] <= end[m + 1]
      BY <2>2, <2>3, <2>4
    <2>6. QED
      BY <2>1, <2>5 DEF P
  <1>5. \A m \in 0 .. n : P[m]
    <2> HIDE DEF P
    <2>1. QED
      BY <1>2, <1>3, <1>4, UpTo
  <1>6. QED
    BY <1>5

LEMMA SpreadOneMore ==
  ASSUME NEW E, NEW ss \in Seq(Seq(E)), NEW n \in Nat, n < Len(ss),
         NEW flat \in Seq(E), NEW end, SpreadTo(ss, n, flat, end)
  PROVE  \E e : SpreadTo(ss, n + 1, flat \o ss[n + 1], e)
  <1> DEFINE next == flat \o ss[n + 1]
             last == end[n] + Len(ss[n + 1])
             e == [f \in 0 .. n + 1 |-> IF f = n + 1 THEN last ELSE end[f]]
  <1>1. n + 1 \in 1 .. Len(ss) /\ n + 1 \in Nat /\ ss[n + 1] \in Seq(E) /\ Len(ss[n + 1]) \in Nat
    OBVIOUS
  <1>2. end[n] \in Nat /\ Len(flat) = end[n] /\ n \in 0 .. n
    BY DEF SpreadTo
  <1>3. /\ Len(next) = last /\ last \in Nat
        /\ \A i \in 1 .. Len(flat) : next[i] = flat[i]
        /\ \A i \in 1 .. Len(ss[n + 1]) : next[end[n] + i] = ss[n + 1][i]
    <2>1. Len(next) = last /\ last \in Nat
      <3> DEFINE tail == ss[n + 1]
      <3>1. tail \in Seq(E) /\ Len(tail) \in Nat
        BY <1>1
      <3> HIDE DEF tail
      <3>2. Len(flat \o tail) = Len(flat) + Len(tail)
        BY <3>1
      <3>3. QED
        BY <3>1, <3>2, <1>2 DEF tail
    <2>2. \A i \in 1 .. Len(flat) : next[i] = flat[i]
      BY <1>1
    <2>3. ASSUME NEW i \in 1 .. Len(ss[n + 1])
          PROVE  next[Len(flat) + i] = ss[n + 1][i]
      <3> DEFINE tail == ss[n + 1]
      <3>1. tail \in Seq(E)
        BY <1>1
      <3>2. i \in 1 .. Len(tail)
        OBVIOUS
      <3> HIDE DEF tail
      <3>3. (flat \o tail)[Len(flat) + i] = tail[i]
        BY <3>1, <3>2
      <3>4. QED
        BY <3>3 DEF tail
    <2> HIDE DEF next, last
    <2>4. QED
      BY <2>1, <2>2, <2>3, <1>2
  <1>4. e \in [0 .. n + 1 -> Nat]
    <2>1. ASSUME NEW f \in 0 .. n + 1
          PROVE  e[f] \in Nat
      <3>1. f = n + 1 \/ f \in 0 .. n
        OBVIOUS
      <3>2. QED
        BY <1>3, <3>1 DEF SpreadTo
    <2>2. QED
      BY <2>1
  <1>5. e[n + 1] = last /\ \A f \in 0 .. n : e[f] = end[f] /\ end[f] \in Nat
    BY <1>1 DEF SpreadTo
  <1>6. \A f \in 1 .. n : Len(ss[f]) \in Nat
    <2>1. ASSUME NEW f \in 1 .. n
          PROVE  Len(ss[f]) \in Nat
      <3>1. ss[f] \in Seq(E)
        OBVIOUS
      <3>2. QED
        BY <3>1
    <2>2. QED
      BY <2>1
  <1> HIDE DEF e, next, last
  <1>7. ASSUME NEW f \in 1 .. n + 1
        PROVE  /\ e[f] = e[f - 1] + Len(ss[f])
               /\ \A i \in 1 .. Len(ss[f]) : next[e[f - 1] + i] = ss[f][i]
    <2>1. CASE f = n + 1
      <3>1. f - 1 = n /\ e[f - 1] = end[n]
        BY <2>1, <1>2, <1>5
      <3>2. QED
        BY <2>1, <3>1, <1>3, <1>5 DEF last
    <2>2. CASE f # n + 1
      <3>1. f \in 1 .. n /\ f - 1 \in 0 .. n /\ f \in 0 .. n
        BY <2>2
      <3>2. e[f] = end[f] /\ e[f - 1] = end[f - 1] /\ end[f] \in Nat /\ end[f - 1] \in Nat
        BY <3>1, <1>5
      <3>3. end[f] = end[f - 1] + Len(ss[f]) /\ \A i \in 1 .. Len(ss[f]) : flat[end[f - 1] + i] = ss[f][i]
        BY <3>1 DEF SpreadTo
      <3>4. ASSUME NEW i \in 1 .. Len(ss[f])
            PROVE  next[end[f - 1] + i] = ss[f][i]
        <4>1. end[f] <= end[n]
          <5>1. end \in [0 .. n -> Nat]
            BY DEF SpreadTo
          <5>2. ASSUME NEW h \in 1 .. n
                PROVE  end[h - 1] <= end[h]
            <6>1. end[h] = end[h - 1] + Len(ss[h]) /\ end[h - 1] \in Nat /\ Len(ss[h]) \in Nat
              BY <1>6 DEF SpreadTo
            <6>2. QED
              BY <6>1
          <5>3. f \in 0 .. n /\ n \in 0 .. n /\ f <= n
            BY <3>1
          <5>4. QED
            BY <5>1, <5>2, <5>3, EndsAscend
        <4>2. Len(ss[f]) \in Nat
          BY <3>1, <1>6
        <4>3. end[f - 1] + i \in 1 .. Len(flat)
          BY <4>1, <4>2, <3>2, <3>3, <1>2
        <4>4. QED
          BY <4>3, <1>3, <3>3
      <3>5. QED
        BY <3>2, <3>3, <3>4
    <2>3. QED
      BY <2>1, <2>2
  <1>8. ASSUME NEW k \in 1 .. Len(next)
        PROVE  \E f \in 1 .. n + 1 : e[f - 1] < k /\ k <= e[f]
    <2>1. CASE k > end[n]
      <3>1. (n + 1) - 1 = n /\ n + 1 \in 1 .. n + 1
        BY <1>1
      <3>2. e[(n + 1) - 1] < k /\ k <= e[n + 1]
        BY <3>1, <2>1, <1>2, <1>3, <1>5
      <3>3. QED
        BY <3>1, <3>2
    <2>2. CASE ~(k > end[n])
      <3>1. k \in 1 .. Len(flat)
        BY <2>2, <1>2, <1>3
      <3>2. PICK f \in 1 .. n : end[f - 1] < k /\ k <= end[f]
        BY <3>1 DEF SpreadTo
      <3>3. f - 1 \in 0 .. n /\ f \in 0 .. n /\ f \in 1 .. n + 1
        OBVIOUS
      <3>4. QED
        BY <3>2, <3>3, <1>5
    <2>3. QED
      BY <2>1, <2>2
  <1>9. e[0] = 0 /\ Len(next) = e[n + 1]
    BY <1>3, <1>5 DEF SpreadTo
  <1>10. SpreadTo(ss, n + 1, next, e)
    BY <1>4, <1>7, <1>8, <1>9 DEF SpreadTo
  <1>11. QED
    BY <1>10 DEF next

\* FlattenSeq puts one behind the other.
LEMMA Flattened ==
  ASSUME NEW E, NEW ss \in Seq(Seq(E))
  PROVE  FlattenSeq(ss) \in Seq(E) /\ \E end : Spread(ss, FlattenSeq(ss), end)
  <1>1. CASE Len(ss) = 0
    <2>1. FlattenSeq(ss) = ss
      BY <1>1 DEF FlattenSeq
    <2>2. ss = <<>>
      BY <1>1
    <2>3. <<>> \in Seq(E)
      OBVIOUS
    <2>4. Spread(ss, ss, [f \in 0 .. 0 |-> 0])
      BY <1>1, <2>2 DEF Spread
    <2>5. QED
      BY <2>1, <2>2, <2>3, <2>4
  <1>2. CASE Len(ss) # 0
    <2> DEFINE N == Len(ss)
               Solves(s) == s = [i \in 1 .. N |-> IF i = 1 THEN ss[i] ELSE s[i - 1] \o ss[i]]
               flatten == CHOOSE s : Solves(s)
    <2>1. N \in Nat /\ N - 1 \in Nat /\ 1 \in 1 .. N /\ \A f \in 1 .. N : ss[f] \in Seq(E)
      BY <1>2
    <2>2. \E s : Solves(s)
      <3> DEFINE step == [p \in (1 .. N - 1) \X Seq(E) |-> p[2] \o ss[p[1] + 1]]
      <3>1. step \in [(1 .. N - 1) \X Seq(E) -> Seq(E)]
        <4>1. ASSUME NEW p \in (1 .. N - 1) \X Seq(E)
              PROVE  p[2] \o ss[p[1] + 1] \in Seq(E)
          <5>1. p[1] + 1 \in 1 .. N /\ p[2] \in Seq(E)
            BY <2>1
          <5>2. ss[p[1] + 1] \in Seq(E)
            BY <5>1, <2>1
          <5>3. QED
            BY <5>1, <5>2
        <4>2. QED
          BY <4>1
      <3>2. ss[1] \in Seq(E)
        BY <2>1
      <3>3. PICK g : Steps(Seq(E), ss[1], N - 1, step, g)
        <4> HIDE DEF step, N
        <4>1. QED
          BY <2>1, <3>1, <3>2, StepsExist
      <3> DEFINE s == [i \in 1 .. N |-> g[i - 1]]
      <3>4. ASSUME NEW i \in 1 .. N
            PROVE  s[i] = IF i = 1 THEN ss[i] ELSE s[i - 1] \o ss[i]
        <4>1. CASE i = 1
          BY <4>1, <2>1, <3>3 DEF Steps
        <4>2. CASE i # 1
          <5>1. i - 1 \in 1 .. N - 1 /\ i - 1 \in 1 .. N /\ (i - 1) - 1 \in 0 .. N - 1 /\ (i - 1) + 1 = i
            BY <4>2, <2>1
          <5>2. g[i - 1] = step[<<i - 1, g[(i - 1) - 1]>>] /\ g[(i - 1) - 1] \in Seq(E)
            BY <5>1, <3>3 DEF Steps
          <5>3. g[i - 1] = g[(i - 1) - 1] \o ss[i]
            BY <5>1, <5>2
          <5>4. s[i] = g[i - 1] /\ s[i - 1] = g[(i - 1) - 1]
            BY <5>1
          <5>5. QED
            BY <4>2, <5>3, <5>4
        <4>3. QED
          BY <4>1, <4>2
      <3>5. Solves(s)
        BY <3>4
      <3>6. QED
        BY <3>5
    <2>3. Solves(flatten)
      <3> HIDE DEF Solves
      <3>1. QED
        BY <2>2
    <2>4. FlattenSeq(ss) = flatten[N]
      BY <1>2 DEF FlattenSeq
    <2>5. \A i \in 1 .. N : flatten[i] = IF i = 1 THEN ss[i] ELSE flatten[i - 1] \o ss[i]
      <3> HIDE DEF flatten
      <3>1. QED
        BY <2>3
    <2> HIDE DEF flatten, Solves
    <2> DEFINE Q(n) == flatten[n + 1] \in Seq(E) /\ \E end : SpreadTo(ss, n + 1, flatten[n + 1], end)
               P == [n \in 0 .. N - 1 |-> Q(n)]
    <2>6. Q(0)
      <3>1. flatten[0 + 1] = ss[1] /\ ss[1] \in Seq(E) /\ 0 + 1 = 1
        BY <2>1, <2>5
      <3>2. Len(<<>>) = 0 /\ <<>> \in Seq(E) /\ <<>> \o ss[1] = ss[1]
        BY <3>1
      <3>3. SpreadTo(ss, 0, <<>>, [f \in 0 .. 0 |-> 0])
        BY <3>2 DEF SpreadTo
      <3>4. \E end : SpreadTo(ss, 0 + 1, <<>> \o ss[0 + 1], end)
        <4>1. 0 \in Nat /\ 0 < Len(ss) /\ <<>> \in Seq(E)
          BY <2>1, <3>2
        <4>2. QED
          BY <4>1, <3>3, SpreadOneMore, Zenon
      <3>5. QED
        BY <3>1, <3>2, <3>4
    <2>7. ASSUME NEW n \in 0 .. N - 1, n < N - 1, Q(n)
          PROVE  Q(n + 1)
      <3>1. n + 1 \in Nat /\ n + 1 < Len(ss) /\ (n + 1) + 1 \in 1 .. N /\ (n + 1) + 1 # 1 /\ ((n + 1) + 1) - 1 = n + 1
        BY <2>1, <2>7
      <3>2. flatten[(n + 1) + 1] = flatten[n + 1] \o ss[(n + 1) + 1]
        BY <2>5, <3>1
      <3>3. flatten[n + 1] \in Seq(E) /\ ss[(n + 1) + 1] \in Seq(E)
        BY <2>1, <2>7, <3>1
      <3>4. PICK end : SpreadTo(ss, n + 1, flatten[n + 1], end)
        BY <2>7
      <3>5. \E e : SpreadTo(ss, (n + 1) + 1, flatten[n + 1] \o ss[(n + 1) + 1], e)
        BY <3>1, <3>3, <3>4, SpreadOneMore, Zenon
      <3>6. QED
        BY <3>2, <3>3, <3>5
    <2>8. \A n \in 0 .. N - 1 : P[n]
      <3>1. P \in [0 .. N - 1 -> BOOLEAN]
        BY DEF P
      <3>2. P[0]
        <4> HIDE DEF Q
        <4>1. 0 \in 0 .. N - 1
          BY <2>1
        <4>2. QED
          BY <4>1, <2>6
      <3>3. ASSUME NEW n \in 0 .. N - 1, n < N - 1, P[n]
            PROVE  P[n + 1]
        <4>1. n + 1 \in 0 .. N - 1
          BY <2>1, <3>3
        <4>2. Q(n)
          BY <3>3
        <4>3. Q(n + 1)
          <5> HIDE DEF Q
          <5>1. QED
            BY <2>7, <3>3, <4>2
        <4>4. QED
          BY <4>1, <4>3
      <3> HIDE DEF P
      <3>4. QED
        BY <2>1, <3>1, <3>2, <3>3, UpTo
    <2>9. Q(N - 1)
      <3>1. N - 1 \in 0 .. N - 1
        BY <2>1
      <3>2. P[N - 1] = Q(N - 1)
        BY <3>1
      <3> HIDE DEF Q, P
      <3>3. QED
        BY <2>8, <3>1, <3>2
    <2>10. (N - 1) + 1 = N
      BY <2>1
    <2>11. PICK end : SpreadTo(ss, N, flatten[N], end)
      BY <2>9, <2>10
    <2>12. Spread(ss, flatten[N], end)
      BY <2>11 DEF Spread, SpreadTo
    <2>13. QED
      BY <2>4, <2>9, <2>10, <2>12
  <1>3. QED
    BY <1>1, <1>2

\* A table is sorted by address.
Ascends(table) ==
  \A k, m \in 1 .. Len(table) : k < m => table[k].address < table[m].address

\* Blocks that ascend, each in itself and one after the other.
BlocksAscend(ss) ==
  /\ \A f \in 1 .. Len(ss) : \A i, j \in 1 .. Len(ss[f]) : i < j => ss[f][i].address < ss[f][j].address
  /\ \A f, g \in 1 .. Len(ss) : f < g =>
       \A i \in 1 .. Len(ss[f]), j \in 1 .. Len(ss[g]) : ss[f][i].address < ss[g][j].address

\* The entries of a table are those of its blocks.
SameEntries(ss, flat) ==
  /\ \A k \in 1 .. Len(flat) : \E f \in 1 .. Len(ss) : \E i \in 1 .. Len(ss[f]) : flat[k] = ss[f][i]
  /\ \A f \in 1 .. Len(ss) : \A i \in 1 .. Len(ss[f]) : \E k \in 1 .. Len(flat) : flat[k] = ss[f][i]

LEMMA FlattenedAscends ==
  ASSUME NEW E, NEW ss \in Seq(Seq(E)), BlocksAscend(ss)
  PROVE  SameEntries(ss, FlattenSeq(ss)) /\ Ascends(FlattenSeq(ss)) /\ FlattenSeq(ss) \in Seq(E)
  <1> DEFINE flat == FlattenSeq(ss)
             N == Len(ss)
  <1>1. flat \in Seq(E) /\ N \in Nat /\ Len(flat) \in Nat
    BY Flattened
  <1>2. PICK end : Spread(ss, flat, end)
    BY Flattened
  <1> HIDE DEF flat
  <1>3. \A f \in 1 .. N : /\ Len(ss[f]) \in Nat
                          /\ end[f] = end[f - 1] + Len(ss[f])
                          /\ end[f] \in Nat /\ end[f - 1] \in Nat
    <2>1. ASSUME NEW f \in 1 .. N
          PROVE  /\ Len(ss[f]) \in Nat
                 /\ end[f] = end[f - 1] + Len(ss[f])
                 /\ end[f] \in Nat /\ end[f - 1] \in Nat
      <3>1. ss[f] \in Seq(E)
        OBVIOUS
      <3>2. f \in 0 .. N /\ f - 1 \in 0 .. N
        BY <1>1
      <3>3. end[f] = end[f - 1] + Len(ss[f]) /\ end \in [0 .. N -> Nat]
        BY <1>2 DEF Spread
      <3> HIDE DEF N
      <3>4. end[f] \in Nat /\ end[f - 1] \in Nat
        BY <3>2, <3>3
      <3>5. QED
        BY <3>1, <3>3, <3>4
    <2>2. QED
      BY <2>1
  <1>4. \A f, g \in 0 .. N : f <= g => end[f] <= end[g]
    <2>1. end \in [0 .. N -> Nat]
      BY <1>2 DEF Spread
    <2>2. ASSUME NEW f \in 1 .. N
          PROVE  end[f - 1] <= end[f]
      <3>1. Len(ss[f]) \in Nat /\ end[f] = end[f - 1] + Len(ss[f]) /\ end[f - 1] \in Nat
        BY <1>3
      <3>2. QED
        BY <3>1
    <2>3. QED
      BY <1>1, <2>1, <2>2, EndsAscend
  <1>5. ASSUME NEW k \in 1 .. Len(flat)
        PROVE  \E f \in 1 .. N : \E i \in 1 .. Len(ss[f]) :
                 flat[k] = ss[f][i] /\ k = end[f - 1] + i
    <2>1. PICK f \in 1 .. N : end[f - 1] < k /\ k <= end[f]
      BY <1>2 DEF Spread
    <2> DEFINE i == k - end[f - 1]
    <2>2. i \in 1 .. Len(ss[f]) /\ k = end[f - 1] + i
      BY <1>1, <1>3, <2>1
    <2>3. flat[end[f - 1] + i] = ss[f][i]
      <3> HIDE DEF i
      <3>1. QED
        BY <2>2, <1>2 DEF Spread
    <2>4. QED
      BY <2>2, <2>3
  <1>6. ASSUME NEW f \in 1 .. N, NEW i \in 1 .. Len(ss[f])
        PROVE  \E k \in 1 .. Len(flat) : flat[k] = ss[f][i]
    <2>1. end[f] <= end[N] /\ Len(flat) = end[N]
      <3>1. f \in 0 .. N /\ N \in 0 .. N /\ f <= N
        BY <1>1
      <3>2. QED
        BY <3>1, <1>4, <1>2 DEF Spread
    <2>2. end[f - 1] + i \in 1 .. Len(flat)
      BY <2>1, <1>1, <1>3
    <2>3. flat[end[f - 1] + i] = ss[f][i]
      BY <1>2 DEF Spread
    <2>4. QED
      BY <2>2, <2>3
  <1>7. ASSUME NEW k \in 1 .. Len(flat), NEW m \in 1 .. Len(flat), k < m
        PROVE  flat[k].address < flat[m].address
    <2>1a. PICK f \in 1 .. N : \E i \in 1 .. Len(ss[f]) : flat[k] = ss[f][i] /\ k = end[f - 1] + i
      BY <1>5
    <2>1. PICK i \in 1 .. Len(ss[f]) : flat[k] = ss[f][i] /\ k = end[f - 1] + i
      BY <2>1a
    <2>2a. PICK g \in 1 .. N : \E j \in 1 .. Len(ss[g]) : flat[m] = ss[g][j] /\ m = end[g - 1] + j
      BY <1>5
    <2>2. PICK j \in 1 .. Len(ss[g]) : flat[m] = ss[g][j] /\ m = end[g - 1] + j
      BY <2>2a
    <2>3. CASE f = g
      <3>1. i < j
        <4>1. i \in Nat /\ j \in Nat /\ end[f - 1] \in Nat
          BY <1>3
        <4>2. end[f - 1] + i < end[f - 1] + j
          BY <1>7, <2>1, <2>2, <2>3
        <4>3. QED
          BY <4>1, <4>2
      <3>2. QED
        BY <3>1, <2>1, <2>2, <2>3 DEF BlocksAscend
    <2>4. CASE f < g
      BY <2>1, <2>2, <2>4 DEF BlocksAscend
    <2>5. CASE g < f
      <3>1. g \in 0 .. N /\ f - 1 \in 0 .. N /\ g <= f - 1
        BY <2>5, <1>1
      <3>2. end[g] <= end[f - 1]
        BY <3>1, <1>4
      <3>3. m <= end[g] /\ end[f - 1] < k
        <4>1. /\ end[g] = end[g - 1] + Len(ss[g]) /\ end[g - 1] \in Nat /\ Len(ss[g]) \in Nat
              /\ end[f - 1] \in Nat
          BY <1>3
        <4>2. i \in Nat /\ i > 0 /\ j \in Nat /\ j <= Len(ss[g])
          BY <1>3
        <4>3. k = end[f - 1] + i /\ m = end[g - 1] + j
          BY <2>1, <2>2
        <4>4. end[f - 1] < k
          BY <4>1, <4>2, <4>3
        <4>5. m <= end[g]
          <5> DEFINE b == end[g - 1]
                     n == Len(ss[g])
          <5>1. b \in Nat /\ n \in Nat /\ end[g] = b + n /\ m = b + j /\ j \in Nat /\ j <= n
            BY <4>1, <4>2, <4>3
          <5> HIDE DEF b, n
          <5>2. b + j <= b + n
            BY <5>1
          <5>3. QED
            BY <5>1, <5>2
        <4>6. QED
          BY <4>4, <4>5
      <3>4. QED
        BY <3>2, <3>3, <1>1, <1>3, <1>7
    <2>6. QED
      BY <2>3, <2>4, <2>5, <1>1
  <1>8. QED
    BY <1>1, <1>5, <1>6, <1>7 DEF SameEntries, Ascends, flat

\* The entry of a line, and of a file.
LineEntry(functions, start, f, i) ==
  [address |-> LineAt(start[f], i), line |-> functions[f].body[i].line - 1]
FileEntry(functions, start, f) == [address |-> start[f], name |-> functions[f].file]
BeginsFile(functions, f) == f = 1 \/ functions[f].file # functions[f - 1].file

\* The tables the compiler writes.
LinesOK(functions, start, table) ==
  /\ table \in Seq([address : Nat, line : Nat])
  /\ Ascends(table)
  /\ \A k \in 1 .. Len(table) : \E f \in 1 .. Len(functions) :
       \E i \in 1 .. Len(functions[f].body) : table[k] = LineEntry(functions, start, f, i)
  /\ \A f \in 1 .. Len(functions) : \A i \in 1 .. Len(functions[f].body) :
       \E k \in 1 .. Len(table) : table[k] = LineEntry(functions, start, f, i)
FilesOK(functions, start, table) ==
  /\ Len(table) \in Nat /\ DOMAIN table = 1 .. Len(table)
  /\ \A k \in 1 .. Len(table) : table[k].address \in Nat
  /\ Ascends(table)
  /\ \A k \in 1 .. Len(table) : \E f \in 1 .. Len(functions) :
       BeginsFile(functions, f) /\ table[k] = FileEntry(functions, start, f)
  /\ \A f \in 1 .. Len(functions) : BeginsFile(functions, f) =>
       \E k \in 1 .. Len(table) : table[k] = FileEntry(functions, start, f)
SymbolsOK(functions, start, table) ==
  table = [f \in DOMAIN functions |-> [codestart |-> start[f], codeend |-> start[f + 1], name |-> f]]

LEMMA LineTableIs ==
  ASSUME NEW functions, FunctionsOK(functions), NEW start, StartsOK(functions, start)
  PROVE  LinesOK(functions, start,
           FlattenSeq([f \in DOMAIN functions |-> [i \in DOMAIN functions[f].body |->
                  [address |-> LineAt(start[f], i), line |-> functions[f].body[i].line - 1]]]))
  <1> DEFINE E == [address : Nat, line : Nat]
             N == Len(functions)
             block(f) == [i \in DOMAIN functions[f].body |->
                            [address |-> LineAt(start[f], i), line |-> functions[f].body[i].line - 1]]
             ss == [f \in DOMAIN functions |-> block(f)]
  <1>1. N \in Nat /\ DOMAIN functions = 1 .. N
    BY DEF FunctionsOK
  <1>2. ASSUME NEW f \in 1 .. N
        PROVE  /\ block(f) \in Seq(E) /\ Len(block(f)) = Len(functions[f].body)
               /\ start[f] \in Nat /\ start[f + 1] \in Nat
               /\ start[f + 1] = start[f] + 2 + 2 * Len(functions[f].body)
               /\ Len(functions[f].body) \in Nat
               /\ \A i \in 1 .. Len(functions[f].body) :
                    /\ block(f)[i] = LineEntry(functions, start, f, i)
                    /\ block(f)[i].address = start[f] + 1 + 2 * (i - 1)
    <2> DEFINE L == Len(functions[f].body)
    <2>1. L \in Nat /\ DOMAIN functions[f].body = 1 .. L
      BY BodyLength
    <2>2. f \in 1 .. N + 1 /\ f + 1 \in 1 .. N + 1
      BY <1>1
    <2>3. start[f] \in Nat /\ start[f + 1] \in Nat /\ start[f + 1] = start[f] + 2 + 2 * L
      BY <2>2 DEF StartsOK
    <2>4. ASSUME NEW i \in 1 .. L
          PROVE  /\ block(f)[i] = LineEntry(functions, start, f, i)
                 /\ block(f)[i].address = start[f] + 1 + 2 * (i - 1)
                 /\ block(f)[i] \in E
      <3>1. block(f)[i] = LineEntry(functions, start, f, i)
        BY <2>1 DEF LineEntry
      <3>2. functions[f].body[i].line \in Nat \ {0}
        <4> DEFINE body == functions[f].body
                   T == [line : Nat \ {0}, calls : 0 .. Len(functions)]
        <4>1. body \in Seq(T) /\ i \in 1 .. Len(body)
          BY <1>1, <2>1 DEF FunctionsOK
        <4>2. body[i] \in T
          <5> HIDE DEF T, body
          <5>1. QED
            BY <4>1
        <4>3. QED
          BY <4>2
      <3>3. functions[f].body[i].line - 1 \in Nat
        BY <3>2
      <3>4. LineAt(start[f], i) = start[f] + 1 + 2 * (i - 1) /\ LineAt(start[f], i) \in Nat
        BY <2>1, <2>3 DEF LineAt
      <3>5. QED
        BY <3>1, <3>3, <3>4 DEF LineEntry
    <2>5. DOMAIN block(f) = 1 .. L /\ block(f) \in [1 .. L -> E]
      BY <2>1, <2>4
    <2> HIDE DEF block, E, L
    <2>6. block(f) \in Seq(E) /\ Len(block(f)) = L
      BY <2>1, <2>5
    <2>7. QED
      BY <2>1, <2>3, <2>4, <2>6 DEF L
  <1>3. /\ Len(ss) = N /\ ss \in Seq(Seq(E))
        /\ \A f \in 1 .. N : ss[f] = block(f)
    <2> HIDE DEF block, E
    <2>1. ss \in [1 .. N -> Seq(E)]
      BY <1>1, <1>2
    <2>2. QED
      BY <1>1, <2>1
  <1> HIDE DEF ss, block
  <1>4. BlocksAscend(ss)
    <2>1. ASSUME NEW f \in 1 .. N, NEW i \in 1 .. Len(ss[f]), NEW j \in 1 .. Len(ss[f]), i < j
          PROVE  ss[f][i].address < ss[f][j].address
      <3>1. i \in 1 .. Len(functions[f].body) /\ j \in 1 .. Len(functions[f].body)
        BY <1>2, <1>3
      <3>2. ss[f][i].address = start[f] + 1 + 2 * (i - 1) /\ ss[f][j].address = start[f] + 1 + 2 * (j - 1)
        BY <3>1, <1>2, <1>3
      <3>3. start[f] \in Nat /\ i \in Nat /\ j \in Nat
        BY <1>2, <3>1
      <3>4. QED
        BY <3>2, <3>3, <2>1
    <2>2. ASSUME NEW f \in 1 .. N, NEW g \in 1 .. N, f < g, NEW i \in 1 .. Len(ss[f]), NEW j \in 1 .. Len(ss[g])
          PROVE  ss[f][i].address < ss[g][j].address
      <3>1. i \in 1 .. Len(functions[f].body) /\ j \in 1 .. Len(functions[g].body)
        BY <1>2, <1>3
      <3>2. ss[f][i].address = start[f] + 1 + 2 * (i - 1) /\ ss[g][j].address = start[g] + 1 + 2 * (j - 1)
        BY <3>1, <1>2, <1>3
      <3>3. start[f + 1] = start[f] + 2 + 2 * Len(functions[f].body) /\ start[f] \in Nat /\ start[g] \in Nat
            /\ Len(functions[f].body) \in Nat
        BY <1>2
      <3>4. start[f + 1] <= start[g]
        <4>1. f + 1 \in 1 .. N + 1 /\ g \in 1 .. N + 1 /\ (f + 1 = g \/ f + 1 < g)
          BY <1>1, <2>2
        <4>2. f + 1 < g => start[f + 1] < start[g]
          BY <4>1 DEF StartsOK
        <4>3. start[f + 1] \in Nat
          BY <1>2
        <4>4. QED
          BY <4>1, <4>2, <4>3, <3>3
      <3> DEFINE L == Len(functions[f].body)
                 a == ss[f][i].address
                 b == ss[g][j].address
      <3>5. /\ L \in Nat /\ i \in Nat /\ i <= L /\ j \in Nat /\ j > 0
            /\ start[f + 1] = start[f] + 2 + 2 * L
        BY <3>1, <3>3, <1>2
      <3>6. a = start[f] + 1 + 2 * (i - 1) /\ b = start[g] + 1 + 2 * (j - 1)
        BY <3>2
      <3> HIDE DEF L, a, b
      <3> DEFINE s == start[f]
                 t == start[g]
                 u == start[f + 1]
      <3>7. s \in Nat /\ t \in Nat /\ u = s + 2 + 2 * L /\ u <= t /\ a = s + 1 + 2 * (i - 1) /\ b = t + 1 + 2 * (j - 1)
        BY <3>3, <3>4, <3>5, <3>6
      <3>7a. a < b
        <4> HIDE DEF s, t, u
        <4>1. QED
          BY <3>5, <3>7
      <3>8. QED
        BY <3>7a DEF a, b
    <2>3. QED
      BY <2>1, <2>2, <1>3 DEF BlocksAscend
  <1>5. SameEntries(ss, FlattenSeq(ss)) /\ Ascends(FlattenSeq(ss)) /\ FlattenSeq(ss) \in Seq(E)
    BY <1>3, <1>4, FlattenedAscends
  <1>6. LinesOK(functions, start, FlattenSeq(ss))
    <2>1. \A f \in 1 .. N : /\ Len(ss[f]) = Len(functions[f].body)
                            /\ \A i \in 1 .. Len(functions[f].body) : ss[f][i] = LineEntry(functions, start, f, i)
      BY <1>2, <1>3
    <2> DEFINE flat == FlattenSeq(ss)
    <2>2. SameEntries(ss, flat) /\ Ascends(flat) /\ flat \in Seq(E) /\ Len(ss) = N
      BY <1>3, <1>5
    <2> HIDE DEF flat
    <2>3. ASSUME NEW k \in 1 .. Len(flat)
          PROVE  \E f \in 1 .. N : \E i \in 1 .. Len(functions[f].body) : flat[k] = LineEntry(functions, start, f, i)
      <3>1. PICK f \in 1 .. N : \E i \in 1 .. Len(ss[f]) : flat[k] = ss[f][i]
        BY <2>2 DEF SameEntries
      <3>2. PICK i \in 1 .. Len(ss[f]) : flat[k] = ss[f][i]
        BY <3>1
      <3>3. i \in 1 .. Len(functions[f].body) /\ ss[f][i] = LineEntry(functions, start, f, i)
        BY <2>1
      <3>4. QED
        BY <3>2, <3>3
    <2>4. ASSUME NEW f \in 1 .. N, NEW i \in 1 .. Len(functions[f].body)
          PROVE  \E k \in 1 .. Len(flat) : flat[k] = LineEntry(functions, start, f, i)
      <3>1. i \in 1 .. Len(ss[f]) /\ ss[f][i] = LineEntry(functions, start, f, i)
        BY <2>1
      <3>2. PICK k \in 1 .. Len(flat) : flat[k] = ss[f][i]
        BY <2>2, <3>1 DEF SameEntries
      <3>3. QED
        BY <3>1, <3>2
    <2>5. QED
      BY <2>2, <2>3, <2>4 DEF LinesOK, flat
  <1>7. QED
    BY <1>6 DEF ss, block

LEMMA FilesAre ==
  ASSUME NEW functions, FunctionsOK(functions), NEW start, StartsOK(functions, start)
  PROVE  FilesOK(functions, start,
           FlattenSeq([f \in DOMAIN functions |->
                  IF BeginsFile(functions, f) THEN <<[address |-> start[f], name |-> functions[f].file]>> ELSE <<>>]))
  <1> DEFINE N == Len(functions)
             E == [address : Nat, name : {functions[f].file : f \in 1 .. N}]
             block(f) == IF BeginsFile(functions, f) THEN <<[address |-> start[f], name |-> functions[f].file]>> ELSE <<>>
             ss == [f \in DOMAIN functions |-> block(f)]
  <1>1. N \in Nat /\ DOMAIN functions = 1 .. N
    BY DEF FunctionsOK
  <1>2. ASSUME NEW f \in 1 .. N
        PROVE  /\ block(f) \in Seq(E) /\ start[f] \in Nat
               /\ BeginsFile(functions, f) => Len(block(f)) = 1 /\ block(f)[1] = FileEntry(functions, start, f)
               /\ ~BeginsFile(functions, f) => Len(block(f)) = 0
    <2>1. f \in 1 .. N + 1
      BY <1>1
    <2>2. start[f] \in Nat
      BY <2>1 DEF StartsOK
    <2>3. FileEntry(functions, start, f) \in E
      BY <2>2 DEF FileEntry
    <2>4. CASE BeginsFile(functions, f)
      <3>1. block(f) = <<FileEntry(functions, start, f)>>
        BY <2>4 DEF FileEntry
      <3> HIDE DEF block, E
      <3>2. QED
        BY <2>2, <2>3, <2>4, <3>1
    <2>5. CASE ~BeginsFile(functions, f)
      <3>1. block(f) = <<>>
        BY <2>5
      <3>2. <<>> \in Seq(E)
        OBVIOUS
      <3> HIDE DEF block, E
      <3>3. QED
        BY <2>2, <2>5, <3>1, <3>2
    <2>6. QED
      BY <2>4, <2>5
  <1>3. /\ Len(ss) = N /\ ss \in Seq(Seq(E))
        /\ \A f \in 1 .. N : ss[f] = block(f)
    <2> HIDE DEF block, E
    <2>1. ss \in [1 .. N -> Seq(E)]
      BY <1>1, <1>2
    <2>2. QED
      BY <1>1, <2>1
  <1> HIDE DEF ss, block, E
  <1>4. ASSUME NEW f \in 1 .. N, NEW i \in 1 .. Len(ss[f])
        PROVE  BeginsFile(functions, f) /\ i = 1 /\ ss[f][i] = FileEntry(functions, start, f)
    <2>1. ss[f] = block(f)
      BY <1>3
    <2>2. CASE BeginsFile(functions, f)
      <3>1. Len(block(f)) = 1 /\ block(f)[1] = FileEntry(functions, start, f)
        BY <2>2, <1>2
      <3>2. i = 1
        BY <2>1, <3>1
      <3>3. QED
        BY <2>1, <2>2, <3>1, <3>2
    <2>3. CASE ~BeginsFile(functions, f)
      <3>1. Len(block(f)) = 0
        BY <2>3, <1>2
      <3>2. QED
        BY <2>1, <3>1
    <2>4. QED
      BY <2>2, <2>3
  <1>5. BlocksAscend(ss)
    <2>1. ASSUME NEW f \in 1 .. N, NEW i \in 1 .. Len(ss[f]), NEW j \in 1 .. Len(ss[f]), i < j
          PROVE  FALSE
      BY <1>4, <2>1
    <2>2. ASSUME NEW f \in 1 .. N, NEW g \in 1 .. N, f < g, NEW i \in 1 .. Len(ss[f]), NEW j \in 1 .. Len(ss[g])
          PROVE  ss[f][i].address < ss[g][j].address
      <3>1. ss[f][i] = FileEntry(functions, start, f) /\ ss[g][j] = FileEntry(functions, start, g)
        BY <1>4
      <3>1a. ss[f][i].address = start[f] /\ ss[g][j].address = start[g]
        BY <3>1 DEF FileEntry
      <3>2. f \in 1 .. N + 1 /\ g \in 1 .. N + 1
        BY <1>1
      <3>3. QED
        BY <3>1a, <3>2, <2>2 DEF StartsOK
    <2>3. QED
      BY <2>1, <2>2, <1>3 DEF BlocksAscend
  <1> DEFINE flat == FlattenSeq(ss)
  <1>6. SameEntries(ss, flat) /\ Ascends(flat) /\ flat \in Seq(E)
    BY <1>3, <1>5, FlattenedAscends
  <1> HIDE DEF flat
  <1>7. Len(flat) \in Nat /\ DOMAIN flat = 1 .. Len(flat) /\ \A k \in 1 .. Len(flat) : flat[k].address \in Nat
    <2>1. ASSUME NEW k \in 1 .. Len(flat)
          PROVE  flat[k].address \in Nat
      <3>1. flat[k] \in E
        BY <1>6
      <3>2. QED
        BY <3>1 DEF E
    <2>2. QED
      BY <1>6, <2>1
  <1>8. ASSUME NEW k \in 1 .. Len(flat)
        PROVE  \E f \in 1 .. N : BeginsFile(functions, f) /\ flat[k] = FileEntry(functions, start, f)
    <2>1. PICK f \in 1 .. N : \E i \in 1 .. Len(ss[f]) : flat[k] = ss[f][i]
      BY <1>3, <1>6 DEF SameEntries
    <2>2. QED
      BY <2>1, <1>4
  <1>9. ASSUME NEW f \in 1 .. N, BeginsFile(functions, f)
        PROVE  \E k \in 1 .. Len(flat) : flat[k] = FileEntry(functions, start, f)
    <2>1. 1 \in 1 .. Len(ss[f]) /\ ss[f][1] = FileEntry(functions, start, f)
      <3>1. ss[f] = block(f)
        BY <1>3
      <3>2. Len(block(f)) = 1 /\ block(f)[1] = FileEntry(functions, start, f)
        BY <1>2, <1>9
      <3>3. QED
        BY <3>1, <3>2
    <2>2. \E k \in 1 .. Len(flat) : flat[k] = ss[f][1]
      BY <1>3, <1>6, <2>1 DEF SameEntries
    <2>3. QED
      BY <2>1, <2>2
  <1>10. QED
    BY <1>6, <1>7, <1>8, <1>9 DEF FilesOK, flat, ss, block

\* A script as the compiler writes it.
ScriptOK(s) ==
  /\ FunctionsOK(s.functions) /\ s.first_symbol \in Nat
  /\ StartsOK(s.functions, CodeStart(s.functions))
  /\ LinesOK(s.functions, CodeStart(s.functions), s.lines)
  /\ FilesOK(s.functions, CodeStart(s.functions), s.files)
  /\ SymbolsOK(s.functions, CodeStart(s.functions), s.symbols)

LEMMA CompilesOK ==
  ASSUME NEW source, IsSource(source)
  PROVE  ScriptOK(Compile(source))
  <1> DEFINE F == source.functions
             start == CodeStart(F)
             s == Compile(source)
  <1>1. FunctionsOK(F) /\ source.first_symbol \in Nat
    BY DEF IsSource, FunctionsOK
  <1>2. StartsOK(F, start)
    BY <1>1, StartsAre
  <1> HIDE DEF start
  <1>3. s.functions = F /\ s.first_symbol = source.first_symbol
    BY DEF Compile
  <1>4. s.lines = FlattenSeq([f \in DOMAIN F |-> [i \in DOMAIN F[f].body |->
                    [address |-> LineAt(start[f], i), line |-> F[f].body[i].line - 1]]])
    BY DEF Compile, start
  <1>5. s.files = FlattenSeq([f \in DOMAIN F |->
                    IF BeginsFile(F, f) THEN <<[address |-> start[f], name |-> F[f].file]>> ELSE <<>>])
    BY DEF Compile, start, BeginsFile
  <1>6. s.symbols = [f \in DOMAIN F |-> [codestart |-> start[f], codeend |-> start[f + 1], name |-> f]]
    BY DEF Compile, start
  <1> HIDE DEF s, F
  <1>7. LinesOK(F, start, s.lines)
    BY <1>1, <1>2, <1>4, LineTableIs
  <1>8. FilesOK(F, start, s.files)
    BY <1>1, <1>2, <1>5, FilesAre
  <1>9. SymbolsOK(F, start, s.symbols)
    BY <1>6 DEF SymbolsOK
  <1>10. ScriptOK(s)
    BY <1>1, <1>2, <1>3, <1>7, <1>8, <1>9 DEF ScriptOK, start
  <1>11. QED
    BY <1>10 DEF s

(***************************************************************************)
(* parse.rs: the loop over blocks of lines.                                *)
(***************************************************************************)

\* A loop that goes from n to next[n] for as long as go[n] says so, from n on.
Loops(M, low, next, go, r) ==
  r \in [low .. M -> 0 .. M] /\ \A n \in low .. M : r[n] = IF go[n] THEN r[next[n]] ELSE n

LEMMA LoopExists ==
  ASSUME NEW M \in Nat, NEW next \in [0 .. M -> 0 .. M], NEW go \in [0 .. M -> BOOLEAN],
         \A n \in 0 .. M : go[n] => next[n] > n
  PROVE  \E r : Loops(M, 0, next, go, r)
  <1> DEFINE P == [k \in 0 .. M |-> \E r : Loops(M, M - k, next, go, r)]
  <1>1. P \in [0 .. M -> BOOLEAN]
    OBVIOUS
  <1>2. P[0]
    <2>1. ~go[M]
      <3>1. M \in 0 .. M /\ next[M] \in 0 .. M
        OBVIOUS
      <3>2. QED
        BY <3>1
    <2>2. Loops(M, M - 0, next, go, [n \in M - 0 .. M |-> n])
      BY <2>1 DEF Loops
    <2>3. 0 \in 0 .. M
      OBVIOUS
    <2>4. QED
      BY <2>2, <2>3
  <1>3. ASSUME NEW k \in 0 .. M, k < M, P[k]
        PROVE  P[k + 1]
    <2> DEFINE low == M - (k + 1)
    <2>1. low \in 0 .. M /\ low + 1 = M - k /\ k + 1 \in 0 .. M /\ low \in Nat
      BY <1>3
    <2>2. PICK r : Loops(M, low + 1, next, go, r)
      BY <1>3, <2>1
    <2> HIDE DEF low, P
    <2> DEFINE t == [n \in low .. M |-> IF n = low THEN IF go[low] THEN r[next[low]] ELSE low ELSE r[n]]
    <2>3. go[low] => next[low] \in low + 1 .. M
      BY <2>1
    <2>4. t \in [low .. M -> 0 .. M]
      <3>1. ASSUME NEW n \in low .. M
            PROVE  t[n] \in 0 .. M
        <4>1. n = low \/ n \in low + 1 .. M
          BY <2>1
        <4>2. QED
          BY <2>1, <2>2, <2>3, <4>1 DEF Loops
      <3>2. QED
        BY <3>1
    <2>5. ASSUME NEW n \in low .. M
          PROVE  t[n] = IF go[n] THEN t[next[n]] ELSE n
      <3>1. go[n] => next[n] \in low + 1 .. M
        <4>1. n \in 0 .. M
          BY <2>1
        <4>2. next[n] \in 0 .. M /\ (go[n] => next[n] > n)
          BY <4>1
        <4>3. QED
          BY <2>1, <4>2
      <3>2. go[n] => t[next[n]] = r[next[n]]
        <4>1. SUFFICES ASSUME go[n]
                       PROVE  t[next[n]] = r[next[n]]
          OBVIOUS
        <4>2. next[n] \in low .. M /\ next[n] # low
          BY <4>1, <3>1, <2>1
        <4>3. QED
          BY <4>2
      <3>3. CASE n = low
        BY <3>2, <3>3
      <3>4. CASE n # low
        <4>1. n \in low + 1 .. M /\ t[n] = r[n]
          BY <3>4, <2>1
        <4>2. r[n] = IF go[n] THEN r[next[n]] ELSE n
          BY <4>1, <2>2 DEF Loops
        <4>3. QED
          BY <4>1, <4>2, <3>2
      <3>5. QED
        BY <3>3, <3>4
    <2>6. Loops(M, low, next, go, t)
      <3> HIDE DEF t
      <3>1. QED
        BY <2>4, <2>5 DEF Loops
    <2>7. QED
      BY <2>1, <2>6 DEF P, low
  <1>4. \A k \in 0 .. M : P[k]
    <2> HIDE DEF P
    <2>1. QED
      BY <1>1, <1>2, <1>3, UpTo
  <1>5. M \in 0 .. M /\ M - M = 0
    OBVIOUS
  <1>6. QED
    BY <1>4, <1>5

LEMMA Division ==
  ASSUME NEW p \in Int, p > 0, NEW m \in Int
  PROVE  m = p * (m \div p) + (m % p)
  OBVIOUS

LEMMA Remainder ==
  ASSUME NEW p \in Int, p > 0, NEW m \in Int, NEW q \in Int, NEW r \in 0 .. p - 1, m = p * q + r
  PROVE  m % p = r
  OBVIOUS

\* Two numbers that leave the same remainder are p apart, or more.
LEMMA Apart ==
  ASSUME NEW p \in Nat \ {0}, NEW m \in Nat, NEW n \in Nat, m < n, m % p = n % p
  PROVE  m + p <= n /\ (m + p) % p = n % p
  <1> DEFINE a == m \div p
             b == n \div p
  <1>0. p \in Int /\ p > 0 /\ m \in Int /\ n \in Int
    OBVIOUS
  <1>1. a \in Int /\ b \in Int /\ m = p * a + (m % p) /\ n = p * b + (n % p)
    <2>1. a \in Int /\ b \in Int
      BY <1>0
    <2>2. QED
      BY <1>0, <2>1, Division
  <1>2. m % p \in 0 .. p - 1
    BY <1>0
  <1>3. (m + p) % p = m % p
    <2>1. m + p = p * (a + 1) + (m % p) /\ a + 1 \in Int /\ m + p \in Int
      <3> HIDE DEF a, b
      <3>1. QED
        BY <1>0, <1>1, <1>2
    <2> HIDE DEF a, b
    <2>2. QED
      BY <1>0, <1>2, <2>1, Remainder
  <1> HIDE DEF a, b
  <1>4. p * a < p * b
    BY <1>1, <1>2
  <1>5. a < b
    BY <1>1, <1>4
  <1>6. p * (a + 1) <= p * b
    BY <1>1, <1>5
  <1>7. QED
    BY <1>1, <1>2, <1>3, <1>6

\* The table ends where the symbols begin, or where its count says.
CountTellsOf(table, first) ==
  \/ Len(table) < Half
  \/ Len(table) % (2 * Half) >= Half /\ first <= table[Len(table)].address

LEMMA TableIsRead ==
  ASSUME NEW table \in Seq([address : Nat, line : Nat]), Ascends(table), NEW first \in Nat,
         CountTellsOf(table, first),
         NEW entries, entries = table \o <<[address |-> first, line |-> 0], [address |-> 0, line |-> 0]>>
  PROVE  ReadLineTable(entries, Len(table) % (2 * Half)) =
           [i \in 1 .. Len(table) |-> [table[i] EXCEPT !.line = @ + 1]]
  <1> DEFINE N == Len(table)
             M == Len(entries)
             p == 2 * Half
             count == N % p
             more(n) == n > 0 /\ n < M /\ entries[n + 1].address > entries[n].address
             min(n) == IF n < M THEN n ELSE M
             go == [n \in 0 .. M |-> OverflowPossible(count) /\ more(n)]
             next == [n \in 0 .. M |-> min(n + p)]
             Solves(r) == r = [n \in 0 .. M |-> IF OverflowPossible(count) /\ more(n) THEN r[min(n + 2 * Half)] ELSE n]
             read == CHOOSE r : Solves(r)
  <1>1. Half \in Nat /\ Half > 0 /\ N \in Nat /\ p \in Int /\ p > 0 /\ p \in Nat \ {0}
    BY VmDebugAssumption
  <1>2. /\ M = N + 2
        /\ \A i \in 1 .. N : entries[i] = table[i]
        /\ entries[N + 1].address = first
    <2> DEFINE E == [address : Nat, line : Nat]
               tail == <<[address |-> first, line |-> 0], [address |-> 0, line |-> 0]>>
    <2>1. tail \in Seq(E) /\ Len(tail) = 2 /\ tail[1].address = first
      OBVIOUS
    <2>2. table \in Seq(E) /\ entries = table \o tail
      OBVIOUS
    <2> HIDE DEF E, tail
    <2>3. 1 \in 1 .. Len(tail)
      BY <2>1
    <2>4. (table \o tail)[Len(table) + 1] = tail[1]
      BY <2>1, <2>2, <2>3
    <2>5. Len(table \o tail) = Len(table) + Len(tail)
      BY <2>1, <2>2
    <2>6. \A i \in 1 .. Len(table) : (table \o tail)[i] = table[i]
      BY <2>1, <2>2
    <2>7. QED
      BY <2>1, <2>2, <2>4, <2>5, <2>6
  <1>3. count \in 0 .. p - 1 /\ count \in Nat /\ count <= N
    <2>1. N % p \in 0 .. p - 1
      <3> HIDE DEF p, N
      <3>1. QED
        BY <1>1
    <2>2. N % p <= N
      <3> DEFINE b == N \div p
                 c == N % p
      <3> HIDE DEF p, N
      <3>1. N = p * b + c /\ b \in Int
        <4>1. N \in Int
          BY <1>1
        <4>2. QED
          BY <1>1, <4>1, Division
      <3>2. c \in 0 .. p - 1
        BY <2>1
      <3> HIDE DEF b, c
      <3>3. b < 0 => p * b <= -p
        BY <1>1, <3>1
      <3>4. b >= 0
        <4>1. SUFFICES ASSUME b < 0
                       PROVE  FALSE
          BY <3>1
        <4> DEFINE product == p * b
        <4>2. product \in Int /\ product <= -p /\ N = product + c
          BY <4>1, <1>1, <3>1, <3>3
        <4> HIDE DEF product
        <4>3. QED
          BY <1>1, <3>2, <4>2
      <3>5. p * b >= 0 /\ p * b \in Int
        BY <1>1, <3>1, <3>4
      <3>6. c <= N
        BY <1>1, <3>1, <3>2, <3>5
      <3>7. QED
        BY <3>6 DEF c
    <2>3. QED
      BY <1>1, <2>1, <2>2
  <1> HIDE DEF M, N, count
  <1>4. /\ next \in [0 .. M -> 0 .. M] /\ go \in [0 .. M -> BOOLEAN]
        /\ \A n \in 0 .. M : go[n] => next[n] > n
    <2>1. M \in Nat
      BY <1>1, <1>2
    <2>2. ASSUME NEW n \in 0 .. M
          PROVE  min(n + p) \in 0 .. M
      <3> HIDE DEF p
      <3>1. QED
        BY <1>1, <2>1
    <2>3. next \in [0 .. M -> 0 .. M]
      <3> HIDE DEF min
      <3>1. QED
        BY <2>2
    <2>4. go \in [0 .. M -> BOOLEAN]
      OBVIOUS
    <2>5. ASSUME NEW n \in 0 .. M, go[n]
          PROVE  next[n] > n
      <3>1. n < M
        BY <2>5
      <3>2. min(n + p) > n
        <4> HIDE DEF p, go, next
        <4>1. QED
          BY <1>1, <2>1, <3>1
      <3>3. QED
        BY <3>2
    <2>6. QED
      BY <2>3, <2>4, <2>5
  <1>5. Solves(read)
    <2>1. PICK r : Loops(M, 0, next, go, r)
      <3>1. M \in Nat
        BY <1>1, <1>2
      <3> HIDE DEF next, go
      <3>2. QED
        BY <3>1, <1>4, LoopExists
    <2>2. ASSUME NEW n \in 0 .. M
          PROVE  r[n] = IF OverflowPossible(count) /\ more(n) THEN r[min(n + 2 * Half)] ELSE n
      <3>1. r[n] = IF go[n] THEN r[next[n]] ELSE n
        BY <2>1 DEF Loops
      <3>2. go[n] = (OverflowPossible(count) /\ more(n)) /\ next[n] = min(n + 2 * Half)
        OBVIOUS
      <3> HIDE DEF go, next, min, more
      <3>3. QED
        BY <3>1, <3>2
    <2>3. Solves(r)
      <3>1. r = [n \in 0 .. M |-> r[n]]
        BY <2>1 DEF Loops
      <3> HIDE DEF min, more
      <3>2. QED
        BY <2>2, <3>1
    <2> HIDE DEF Solves
    <2>4. QED
      BY <2>3
  <1>6. \A n \in 0 .. M : read[n] = IF OverflowPossible(count) /\ more(n) THEN read[min(n + p)] ELSE n
    <2> HIDE DEF read, min, more
    <2>1. QED
      BY <1>5
  <1>7. ReadLineTable(entries, N % p) = [i \in 1 .. read[min(count)] |-> [entries[i] EXCEPT !.line = @ + 1]]
    BY DEF ReadLineTable, count, M
  <1> HIDE DEF read, Solves, go, next
  <1>8. min(count) = count /\ count \in 0 .. M
    BY <1>1, <1>2, <1>3
  <1>9. read[count] = N
    <2>1. CASE N < Half
      <3>1. N % p = N
        <4>1. N = p * 0 + N /\ N \in 0 .. p - 1 /\ N \in Int
          BY <1>1, <2>1
        <4>1a. 0 \in Int
          OBVIOUS
        <4> HIDE DEF p
        <4>2. QED
          BY <1>1, <4>1, <4>1a, Remainder, Zenon
      <3>2. count = N
        BY <3>1 DEF count
      <3>3. ~OverflowPossible(count)
        BY <1>1, <2>1, <3>2 DEF OverflowPossible
      <3>4. QED
        BY <1>6, <1>8, <3>2, <3>3
    <2>2. CASE ~(N < Half)
      <3>1. count >= Half /\ first <= table[N].address
        BY <2>2 DEF CountTellsOf, N, count
      <3>2. OverflowPossible(count) /\ count > 0
        BY <1>1, <1>3, <3>1 DEF OverflowPossible
      <3>3. \A k \in 1 .. N : table[k].address \in Nat
        <4> DEFINE E == [address : Nat, line : Nat]
        <4>1. ASSUME NEW k \in 1 .. N
              PROVE  table[k] \in E
          <5> HIDE DEF E
          <5>1. table \in Seq(E)
            BY DEF E
          <5>2. QED
            BY <5>1 DEF N
        <4>2. QED
          BY <4>1
      <3>4. ASSUME NEW m \in 0 .. N, m >= count, m < N
            PROVE  more(m)
        <4>1. m \in 1 .. N /\ m + 1 \in 1 .. N /\ m < m + 1 /\ m > 0 /\ m < M
          BY <1>1, <1>2, <1>3, <3>2, <3>4
        <4>2. table[m].address < table[m + 1].address
          BY <4>1 DEF Ascends, N
        <4>3. entries[m + 1].address > entries[m].address
          BY <4>1, <4>2, <3>3, <1>2
        <4>4. QED
          BY <4>1, <4>3
      <3>5. read[N] = N
        <4>1. N \in 0 .. M /\ N \in 1 .. N
          BY <1>1, <1>2, <1>3, <3>2
        <4>2. ~more(N)
          <5>1. entries[N] = table[N] /\ table[N].address \in Nat /\ entries[N + 1].address = first
            BY <4>1, <3>3, <1>2
          <5>2. ~(first > table[N].address)
            BY <5>1, <3>1
          <5>3. QED
            BY <5>1, <5>2
        <4>3. QED
          BY <4>1, <4>2, <1>6
      <3> DEFINE P == [k \in 0 .. N |-> \A m \in 0 .. N : m >= count /\ m % p = count /\ N - m <= k => read[m] = N]
      <3>6. \A k \in 0 .. N : P[k]
        <4>1. P \in [0 .. N -> BOOLEAN]
          OBVIOUS
        <4>2. P[0]
          <5>1. \A m \in 0 .. N : N - m <= 0 => m = N
            BY <1>1
          <5>2. 0 \in 0 .. N
            BY <1>1
          <5>3. QED
            BY <3>5, <5>1, <5>2
        <4>3. ASSUME NEW k \in 0 .. N, k < N, P[k]
              PROVE  P[k + 1]
          <5>1. SUFFICES ASSUME NEW m \in 0 .. N, m >= count, m % p = count, N - m <= k + 1
                         PROVE  read[m] = N
            BY <1>1, <4>3
          <5>2. CASE m = N
            BY <5>2, <3>5
          <5>3. CASE m # N
            <6>1. m < N /\ m \in Nat
              BY <5>3, <1>1
            <6>2. m + p <= N /\ (m + p) % p = count
              <7>1. m % p = N % p
                BY <5>1 DEF count
              <7> HIDE DEF p
              <7>2. QED
                BY <6>1, <7>1, <1>1, Apart DEF count
            <6>3. m + p \in 0 .. N /\ m + p >= count /\ N - (m + p) <= k
              BY <6>1, <6>2, <1>1, <1>3, <5>1
            <6>4. read[m + p] = N
              <7>1. \A l \in 0 .. N : l >= count /\ l % p = count /\ N - l <= k => read[l] = N
                BY <4>3
              <7> HIDE DEF p, P
              <7>2. QED
                BY <7>1, <6>2, <6>3
            <6>5. more(m)
              BY <3>4, <5>1, <6>1
            <6>6. min(m + p) = m + p /\ m \in 0 .. M
              <7> HIDE DEF p
              <7>1. QED
                BY <6>3, <1>1, <1>2
            <6> HIDE DEF min, more, p, P
            <6>7. QED
              BY <6>4, <6>5, <6>6, <3>2, <1>6
          <5>4. QED
            BY <5>2, <5>3
        <4> HIDE DEF P
        <4>4. QED
          BY <1>1, <4>1, <4>2, <4>3, UpTo
      <3>7. count % p = count
        <4>1. count = p * 0 + count /\ count \in Int
          BY <1>1, <1>3
        <4>1a. 0 \in Int
          OBVIOUS
        <4> HIDE DEF p
        <4>2. QED
          BY <1>1, <1>3, <4>1, <4>1a, Remainder, Zenon
      <3>8. N \in 0 .. N /\ count \in 0 .. N /\ N - count <= N
        BY <1>1, <1>3
      <3>9. \A m \in 0 .. N : m >= count /\ m % p = count /\ N - m <= N => read[m] = N
        BY <3>6, <3>8
      <3> HIDE DEF P, p
      <3>10. QED
        BY <1>3, <3>7, <3>8, <3>9
    <2>3. QED
      BY <2>1, <2>2
  <1>10. QED
    BY <1>2, <1>7, <1>8, <1>9 DEF N

(***************************************************************************)
(* The tables do not change.                                               *)
(***************************************************************************)

TablesInv ==
  /\ ScriptOK(script)
  /\ lines = ReadLineTable(AfterFiles(script), Len(LineTable) % (2 * Half))

LEMMA TablesHold == Spec => []TablesInv
  <1>1. Init => TablesInv
    <2>1. SUFFICES ASSUME Init
                   PROVE  TablesInv
      OBVIOUS
    <2>2. PICK source \in Sources : script = Compile(source)
      BY <2>1 DEF Init, Scripts
    <2>3. IsSource(source)
      BY VmDebugAssumption
    <2>4. ScriptOK(script)
      BY <2>2, <2>3, CompilesOK
    <2>5. QED
      BY <2>1, <2>4 DEF Init, TablesInv
  <1>2. TablesInv /\ [Next]_vars => TablesInv'
    <2>1. SUFFICES ASSUME [Next]_vars
                   PROVE  script' = script /\ lines' = lines
      BY DEF TablesInv, LineTable
    <2>2. QED
      BY <2>1 DEF Next, Exec, Call, CallNative, NativeReturns, NextLine, Retn, Enter, OnTop, vars
  <1>3. QED
    BY <1>1, <1>2, PTL DEF Spec

LEMMA LinesAre ==
  ASSUME TablesInv, CountTells
  PROVE  lines = [i \in 1 .. Len(LineTable) |-> [LineTable[i] EXCEPT !.line = @ + 1]]
  <1>1. LineTable \in Seq([address : Nat, line : Nat]) /\ Ascends(LineTable) /\ script.first_symbol \in Nat
    BY DEF TablesInv, ScriptOK, LinesOK, LineTable
  <1>2. CountTellsOf(LineTable, script.first_symbol)
    BY DEF CountTells, CountTellsOf
  <1>3. AfterFiles(script) = LineTable \o <<[address |-> script.first_symbol, line |-> 0], [address |-> 0, line |-> 0]>>
    BY DEF AfterFiles, LineTable
  <1>4. lines = ReadLineTable(AfterFiles(script), Len(LineTable) % (2 * Half))
    BY DEF TablesInv
  <1>5. QED
    BY <1>1, <1>2, <1>3, <1>4, TableIsRead

\* The lines parsed are the lines written, however many they are, if their count
\* shows that it overflowed: read_line_table (parse.rs:211) goes on block by block
\* and stops at the symbols.
THEOREM LinesAreReadBack == Spec => []LinesReadBack
  <1>1. TablesInv => LinesReadBack
    <2>1. SUFFICES ASSUME TablesInv, CountTells
                   PROVE  lines = [i \in DOMAIN LineTable |-> [LineTable[i] EXCEPT !.line = @ + 1]]
      BY DEF LinesReadBack
    <2>2. DOMAIN LineTable = 1 .. Len(LineTable)
      BY DEF TablesInv, ScriptOK, LinesOK, LineTable
    <2>3. QED
      BY <2>1, <2>2, LinesAre
  <1>2. QED
    BY <1>1, TablesHold, PTL

(***************************************************************************)
(* query.rs: what is found at an address of a function.                    *)
(***************************************************************************)

\* Where the functions of the script begin, and how many there are.
Begin == CodeStart(Functions)
Count == Len(Functions)

\* An address in the code of a function.
Inside(f, address) == f \in 1 .. Count /\ address \in Nat /\ Begin[f] <= address /\ address < Begin[f + 1]

LEMMA BeginFacts ==
  ASSUME TablesInv
  PROVE  /\ FunctionsOK(Functions) /\ Count \in Nat /\ DOMAIN Functions = 1 .. Count
         /\ \A f \in 1 .. Count :
              /\ Begin[f] \in Nat /\ Begin[f + 1] \in Nat
              /\ Begin[f + 1] = Begin[f] + 2 + 2 * Len(Functions[f].body)
              /\ Len(Functions[f].body) \in Nat /\ Len(Functions[f].body) > 0
              /\ DOMAIN Functions[f].body = 1 .. Len(Functions[f].body)
              /\ symbols[f] = [codestart |-> Begin[f], codeend |-> Begin[f + 1], name |-> f]
         /\ DOMAIN symbols = 1 .. Count
         /\ \A f, g \in 1 .. Count + 1 : (f < g => Begin[f] < Begin[g]) /\ (f <= g => Begin[f] <= Begin[g])
  <1>1. FunctionsOK(Functions) /\ StartsOK(Functions, Begin) /\ SymbolsOK(Functions, Begin, symbols)
    BY DEF TablesInv, ScriptOK, Functions, Begin, symbols
  <1>2. Count \in Nat /\ DOMAIN Functions = 1 .. Count
    BY <1>1 DEF FunctionsOK, Count
  <1>3. \A f \in 1 .. Count + 1 : Begin[f] \in Nat
    BY <1>1 DEF StartsOK, Count
  <1>4. ASSUME NEW f \in 1 .. Count
        PROVE  /\ Begin[f] \in Nat /\ Begin[f + 1] \in Nat
               /\ Begin[f + 1] = Begin[f] + 2 + 2 * Len(Functions[f].body)
               /\ Len(Functions[f].body) \in Nat /\ Len(Functions[f].body) > 0
               /\ DOMAIN Functions[f].body = 1 .. Len(Functions[f].body)
               /\ symbols[f] = [codestart |-> Begin[f], codeend |-> Begin[f + 1], name |-> f]
    <2>1. f \in 1 .. Count + 1 /\ f + 1 \in 1 .. Count + 1
      BY <1>2
    <2>2. symbols[f] = [codestart |-> Begin[f], codeend |-> Begin[f + 1], name |-> f]
      BY <1>1, <1>2 DEF SymbolsOK
    <2>3. Begin[f + 1] = Begin[f] + 2 + 2 * Len(Functions[f].body)
      BY <1>1 DEF StartsOK, Count
    <2>4. /\ Len(Functions[f].body) \in Nat /\ Len(Functions[f].body) > 0
          /\ DOMAIN Functions[f].body = 1 .. Len(Functions[f].body)
      BY <1>1, BodyLength DEF Count
    <2>5. QED
      BY <1>3, <2>1, <2>2, <2>3, <2>4
  <1>5. DOMAIN symbols = 1 .. Count
    BY <1>1, <1>2 DEF SymbolsOK
  <1>6. ASSUME NEW f \in 1 .. Count + 1, NEW g \in 1 .. Count + 1
        PROVE  (f < g => Begin[f] < Begin[g]) /\ (f <= g => Begin[f] <= Begin[g])
    <2>1. f < g => Begin[f] < Begin[g]
      BY <1>1 DEF StartsOK, Count
    <2>2. Begin[f] \in Nat /\ Begin[g] \in Nat
      BY <1>3
    <2>3. f <= g => f < g \/ f = g
      BY <1>2
    <2>4. QED
      BY <2>1, <2>2, <2>3
  <1>7. QED
    BY <1>1, <1>2, <1>4, <1>5, <1>6

\* An address is in one function only.
LEMMA OneFunction ==
  ASSUME TablesInv, NEW f, NEW g, NEW address, Inside(f, address), Inside(g, address)
  PROVE  f = g
  <1>1. Count \in Nat /\ f \in 1 .. Count /\ g \in 1 .. Count /\ address \in Nat
    BY BeginFacts DEF Inside
  <1>2. f + 1 \in 1 .. Count + 1 /\ g + 1 \in 1 .. Count + 1 /\ f \in 1 .. Count + 1 /\ g \in 1 .. Count + 1
    BY <1>1
  <1>3. Begin[f] \in Nat /\ Begin[g] \in Nat /\ Begin[f + 1] \in Nat /\ Begin[g + 1] \in Nat
    BY <1>1, BeginFacts
  <1>4. CASE f < g
    <2>1. Begin[f + 1] <= Begin[g]
      BY <1>1, <1>2, <1>4, BeginFacts
    <2>2. QED
      BY <1>1, <1>3, <2>1 DEF Inside
  <1>5. CASE g < f
    <2>1. Begin[g + 1] <= Begin[f]
      BY <1>1, <1>2, <1>5, BeginFacts
    <2>2. QED
      BY <1>1, <1>3, <2>1 DEF Inside
  <1>6. QED
    BY <1>1, <1>4, <1>5

LEMMA FunctionFound ==
  ASSUME TablesInv, NEW f, NEW address, Inside(f, address)
  PROVE  LookupFunction(address) = <<symbols[f]>>
  <1> DEFINE hits == {i \in DOMAIN symbols : symbols[i].codestart <= address /\ symbols[i].codeend > address}
  <1>1. f \in 1 .. Count /\ address \in Nat /\ Count \in Nat
    BY BeginFacts DEF Inside
  <1>2. hits = {f}
    <2>1. \A i \in 1 .. Count : /\ symbols[i].codestart = Begin[i] /\ symbols[i].codeend = Begin[i + 1]
                                /\ Begin[i] \in Nat /\ Begin[i + 1] \in Nat
      BY BeginFacts
    <2>2. \A i \in hits : Inside(i, address)
      BY <1>1, <2>1, BeginFacts DEF Inside
    <2>3. f \in hits
      BY <1>1, <2>1, BeginFacts DEF Inside
    <2> HIDE DEF hits
    <2>4. QED
      BY <2>2, <2>3, OneFunction
  <1>3. (CHOOSE i \in hits : \A j \in hits : i <= j) = f
    <2> HIDE DEF hits
    <2>1. \A i \in hits : i = f
      BY <1>2
    <2>2. f \in hits /\ \A j \in hits : f <= j
      BY <1>1, <1>2
    <2>3. QED
      BY <2>1, <2>2
  <1>4. LookupFunction(address) = FindFirst(symbols, hits)
    BY DEF LookupFunction
  <1> HIDE DEF hits
  <1>5. hits # {}
    BY <1>2
  <1>6. QED
    BY <1>3, <1>4, <1>5 DEF FindFirst

\* take_while and last, on a table that is sorted.
LEMMA LastFound ==
  ASSUME NEW table, Len(table) \in Nat, \A k \in 1 .. Len(table) : table[k].address \in Nat, Ascends(table),
         NEW address \in Nat, NEW n \in 1 .. Len(table), table[n].address <= address,
         n < Len(table) => table[n + 1].address > address
  PROVE  LastUpTo(table, address) = <<table[n]>>
  <1> DEFINE N == Len(table)
             Stops(k) == /\ \A i \in 1 .. k : table[i].address <= address
                         /\ k < N => table[k + 1].address > address
  <1>1. ASSUME NEW i \in 1 .. n
        PROVE  table[i].address <= address
    <2>1. i \in 1 .. N /\ (i = n \/ i < n)
      OBVIOUS
    <2>2. i < n => table[i].address < table[n].address
      BY <2>1 DEF Ascends
    <2>3. table[i].address \in Nat /\ table[n].address \in Nat
      BY <2>1
    <2>4. QED
      BY <2>1, <2>2, <2>3
  <1>2. Stops(n)
    BY <1>1
  <1>3. ASSUME NEW k \in 0 .. N, Stops(k)
        PROVE  k = n
    <2>1. CASE k < n
      <3>1. k + 1 \in 1 .. n /\ k + 1 \in 1 .. N /\ k < N
        BY <2>1
      <3>2. table[k + 1].address <= address /\ table[k + 1].address > address /\ table[k + 1].address \in Nat
        BY <3>1, <1>1, <1>3
      <3>3. QED
        BY <3>2
    <2>2. CASE k > n
      <3>1. n + 1 \in 1 .. k /\ n + 1 \in 1 .. N /\ n < N
        BY <2>2
      <3>2. table[n + 1].address > address /\ table[n + 1].address \in Nat
        BY <3>1
      <3>2a. table[n + 1].address <= address
        <4>1. \A i \in 1 .. k : table[i].address <= address
          BY <1>3
        <4>2. QED
          BY <3>1, <4>1
      <3>3. QED
        BY <3>2, <3>2a
    <2>3. QED
      BY <2>1, <2>2
  <1> HIDE DEF Stops
  <1> DEFINE last == CHOOSE k \in 0 .. N : Stops(k)
  <1>4. last = n /\ n # 0
    <2>1. n \in 0 .. N /\ n # 0
      OBVIOUS
    <2> HIDE DEF N
    <2>2. QED
      BY <1>2, <1>3, <2>1
  <1>5. LastUpTo(table, address) = IF last = 0 THEN <<>> ELSE <<table[last]>>
    BY DEF LastUpTo, Stops
  <1> HIDE DEF last, N
  <1>6. QED
    BY <1>4, <1>5

\* The entry of the file table that a function falls under.
Covers(k, f) ==
  /\ k \in 1 .. Len(files)
  /\ files[k].name = Functions[f].file /\ files[k].address <= Begin[f]
  /\ k < Len(files) => Begin[f + 1] <= files[k + 1].address

LEMMA FileFacts ==
  ASSUME TablesInv
  PROVE  /\ Len(files) \in Nat /\ DOMAIN files = 1 .. Len(files) /\ Ascends(files)
         /\ \A k \in 1 .. Len(files) : files[k].address \in Nat
         /\ \A k \in 1 .. Len(files) : \E f \in 1 .. Count :
              BeginsFile(Functions, f) /\ files[k].address = Begin[f] /\ files[k].name = Functions[f].file
         /\ \A f \in 1 .. Count : BeginsFile(Functions, f) =>
              \E k \in 1 .. Len(files) : files[k].address = Begin[f] /\ files[k].name = Functions[f].file
  <1>1. FilesOK(Functions, Begin, files)
    BY DEF TablesInv, ScriptOK, Functions, Begin, files
  <1>2. \A f : FileEntry(Functions, Begin, f).address = Begin[f] /\ FileEntry(Functions, Begin, f).name = Functions[f].file
    BY DEF FileEntry
  <1>3. \A k \in 1 .. Len(files) : \E f \in 1 .. Count :
          BeginsFile(Functions, f) /\ files[k] = FileEntry(Functions, Begin, f)
    BY <1>1 DEF FilesOK, Count
  <1>4. \A f \in 1 .. Count : BeginsFile(Functions, f) =>
          \E k \in 1 .. Len(files) : files[k] = FileEntry(Functions, Begin, f)
    BY <1>1 DEF FilesOK, Count
  <1>5. /\ Len(files) \in Nat /\ DOMAIN files = 1 .. Len(files) /\ Ascends(files)
        /\ \A k \in 1 .. Len(files) : files[k].address \in Nat
    BY <1>1 DEF FilesOK
  <1>6. ASSUME NEW k \in 1 .. Len(files)
        PROVE  \E f \in 1 .. Count :
                 BeginsFile(Functions, f) /\ files[k].address = Begin[f] /\ files[k].name = Functions[f].file
    BY <1>2, <1>3
  <1>7. ASSUME NEW f \in 1 .. Count, BeginsFile(Functions, f)
        PROVE  \E k \in 1 .. Len(files) : files[k].address = Begin[f] /\ files[k].name = Functions[f].file
    BY <1>2, <1>4, <1>7
  <1>8. QED
    BY <1>5, <1>6, <1>7

\* The function at which the file of a function was begun.
LEMMA FileBegan ==
  ASSUME TablesInv, NEW f \in 1 .. Count
  PROVE  \E g \in 1 .. f : /\ BeginsFile(Functions, g) /\ Functions[g].file = Functions[f].file
                           /\ \A h \in g + 1 .. f : ~BeginsFile(Functions, h)
  <1> DEFINE Began(n) == \E g \in 1 .. n : /\ BeginsFile(Functions, g) /\ Functions[g].file = Functions[n].file
                                           /\ \A h \in g + 1 .. n : ~BeginsFile(Functions, h)
             P == [n \in 0 .. Count |-> n > 0 => Began(n)]
  <1>1. Count \in Nat
    BY BeginFacts
  <1>2. P \in [0 .. Count -> BOOLEAN] /\ P[0]
    <2> HIDE DEF Began
    <2>1. 0 \in 0 .. Count /\ ~(0 > 0)
      BY <1>1
    <2>2. QED
      BY <2>1
  <1>3. ASSUME NEW n \in 0 .. Count, n < Count, P[n]
        PROVE  P[n + 1]
    <2>1. n + 1 \in 0 .. Count /\ n + 1 > 0 /\ (n + 1) - 1 = n /\ n \in Nat
      BY <1>1, <1>3
    <2>2. CASE BeginsFile(Functions, n + 1)
      <3>1. Began(n + 1)
        <4>1. n + 1 \in 1 .. n + 1 /\ \A h \in (n + 1) + 1 .. n + 1 : FALSE
          BY <2>1
        <4>2. QED
          BY <4>1, <2>2
      <3> HIDE DEF Began
      <3>2. QED
        BY <2>1, <3>1
    <2>3. CASE ~BeginsFile(Functions, n + 1)
      <3>1. n + 1 # 1 /\ Functions[n + 1].file = Functions[n].file
        BY <2>1, <2>3 DEF BeginsFile
      <3>2. n > 0
        BY <2>1, <3>1
      <3>3. Began(n)
        <4> HIDE DEF Began
        <4>1. QED
          BY <1>3, <3>2
      <3>4. PICK g \in 1 .. n : /\ BeginsFile(Functions, g) /\ Functions[g].file = Functions[n].file
                                /\ \A h \in g + 1 .. n : ~BeginsFile(Functions, h)
        BY <3>3
      <3>5. \A h \in g + 1 .. n + 1 : ~BeginsFile(Functions, h)
        <4>1. \A h \in g + 1 .. n + 1 : h = n + 1 \/ h \in g + 1 .. n
          BY <2>1
        <4>2. QED
          BY <4>1, <3>4, <2>3
      <3>6. Began(n + 1)
        <4>1. g \in 1 .. n + 1
          BY <2>1
        <4>2. QED
          BY <4>1, <3>1, <3>4, <3>5
      <3> HIDE DEF Began
      <3>7. QED
        BY <2>1, <3>6
    <2>4. QED
      BY <2>2, <2>3
  <1>4. \A n \in 0 .. Count : P[n]
    <2> HIDE DEF P
    <2>1. QED
      BY <1>1, <1>2, <1>3, UpTo
  <1>5. f \in 0 .. Count /\ f > 0
    BY <1>1
  <1> HIDE DEF Began
  <1>6. Began(f)
    BY <1>4, <1>5
  <1>7. QED
    BY <1>6 DEF Began

LEMMA Covered ==
  ASSUME TablesInv, NEW f \in 1 .. Count
  PROVE  \E k : Covers(k, f)
  <1>1. PICK g \in 1 .. f : /\ BeginsFile(Functions, g) /\ Functions[g].file = Functions[f].file
                            /\ \A h \in g + 1 .. f : ~BeginsFile(Functions, h)
    BY FileBegan
  <1>2. Count \in Nat /\ g \in 1 .. Count /\ g \in 1 .. Count + 1 /\ f \in 1 .. Count + 1 /\ f + 1 \in 1 .. Count + 1 /\ g <= f
    BY BeginFacts
  <1>3. PICK k \in 1 .. Len(files) : files[k].address = Begin[g] /\ files[k].name = Functions[g].file
    BY <1>1, <1>2, FileFacts
  <1>4. Begin[g] <= Begin[f]
    BY <1>2, BeginFacts
  <1>5. ASSUME k < Len(files)
        PROVE  Begin[f + 1] <= files[k + 1].address
    <2>1. k + 1 \in 1 .. Len(files) /\ k < k + 1
      BY <1>5, FileFacts
    <2>2. PICK h \in 1 .. Count : BeginsFile(Functions, h) /\ files[k + 1].address = Begin[h]
      BY <2>1, FileFacts
    <2>3. files[k].address < files[k + 1].address
      BY <2>1, FileFacts DEF Ascends
    <2>4. h \in 1 .. Count + 1
      BY <1>2
    <2>5. ~(h <= g)
      <3>1. SUFFICES ASSUME h <= g
                     PROVE  FALSE
        OBVIOUS
      <3>2. Begin[h] <= Begin[g]
        BY <1>2, <2>4, <3>1, BeginFacts
      <3>3. Begin[h] \in Nat /\ Begin[g] \in Nat
        BY <1>2, BeginFacts
      <3>4. QED
        BY <1>3, <2>2, <2>3, <3>2, <3>3
    <2>6. ~(h \in g + 1 .. f)
      BY <1>1, <2>2
    <2>7. f + 1 <= h
      BY <1>2, <2>5, <2>6
    <2>8. QED
      BY <1>2, <2>2, <2>4, <2>7, BeginFacts
  <1>6. QED
    BY <1>1, <1>3, <1>4, <1>5 DEF Covers

LEMMA FileFound ==
  ASSUME TablesInv, NEW f, NEW address, Inside(f, address)
  PROVE  LookupFile(address) = <<Functions[f].file>>
  <1>1. f \in 1 .. Count /\ address \in Nat /\ Begin[f] <= address /\ address < Begin[f + 1]
    BY DEF Inside
  <1>2. PICK k : Covers(k, f)
    BY <1>1, Covered
  <1>3. k \in 1 .. Len(files) /\ files[k].address <= Begin[f] /\ files[k].name = Functions[f].file
        /\ (k < Len(files) => Begin[f + 1] <= files[k + 1].address)
    BY <1>2 DEF Covers
  <1>4. Begin[f] \in Nat /\ Begin[f + 1] \in Nat /\ files[k].address \in Nat
    BY <1>1, <1>3, BeginFacts, FileFacts
  <1>5. files[k].address <= address
    BY <1>1, <1>3, <1>4
  <1>6. k < Len(files) => files[k + 1].address > address
    <2>1. SUFFICES ASSUME k < Len(files)
                   PROVE  files[k + 1].address > address
      OBVIOUS
    <2>2. k + 1 \in 1 .. Len(files)
      BY <1>3, <2>1, FileFacts
    <2>3. files[k + 1].address \in Nat
      BY <2>2, FileFacts
    <2>4. QED
      BY <1>1, <1>3, <1>4, <2>1, <2>3
  <1>7. LastUpTo(files, address) = <<files[k]>>
    BY <1>1, <1>3, <1>5, <1>6, FileFacts, LastFound
  <1>8. QED
    BY <1>3, <1>7 DEF LookupFile

(***************************************************************************)
(* query.rs: breakpoints.                                                  *)
(***************************************************************************)

\* Line k of the table is line i of function f.
IsLine(k, f, i) ==
  /\ k \in 1 .. Len(lines) /\ f \in 1 .. Count /\ i \in 1 .. Len(Functions[f].body)
  /\ lines[k].address = BreakAt(f, i)
  /\ lines[k].line = Functions[f].body[i].line

LEMMA BreakIsInside ==
  ASSUME TablesInv, NEW f \in 1 .. Count, NEW i \in 1 .. Len(Functions[f].body)
  PROVE  /\ Inside(f, BreakAt(f, i)) /\ BreakAt(f, i) = Begin[f] + 1 + 2 * (i - 1)
         /\ Inside(f, ReturnTo(f, i)) /\ ReturnTo(f, i) > 0
         /\ i \in Nat /\ Functions[f].body[i].line \in Nat \ {0}
         /\ Functions[f].body[i].calls \in 0 .. Count
  <1> DEFINE L == Len(Functions[f].body)
             b == Begin[f]
             e == Begin[f + 1]
  <1>1. b \in Nat /\ e \in Nat /\ e = b + 2 + 2 * L /\ L \in Nat /\ symbols[f].codestart = b
    <2>1. b \in Nat /\ e \in Nat /\ e = b + 2 + 2 * L /\ L \in Nat
      BY BeginFacts
    <2>2. symbols[f] = [codestart |-> Begin[f], codeend |-> Begin[f + 1], name |-> f]
      BY BeginFacts
    <2>3. QED
      BY <2>1, <2>2
  <1>2. i \in Nat /\ i >= 1 /\ i <= L
    BY <1>1
  <1>3. BreakAt(f, i) = b + 1 + 2 * (i - 1) /\ ReturnTo(f, i) = b + 1 + 2 * ((i + 1) - 1)
    <2> HIDE DEF b
    <2>1. QED
      BY <1>1 DEF BreakAt, ReturnTo, LineAt
  <1>4. Functions[f].body[i].line \in Nat \ {0} /\ Functions[f].body[i].calls \in 0 .. Count
    <2> DEFINE body == Functions[f].body
               T == [line : Nat \ {0}, calls : 0 .. Len(Functions)]
    <2>1. body \in Seq(T) /\ i \in 1 .. Len(body)
      BY BeginFacts DEF FunctionsOK
    <2>2. body[i] \in T
      <3> HIDE DEF T, body
      <3>1. QED
        BY <2>1
    <2>3. QED
      BY <2>2 DEF Count
  <1>5. BreakAt(f, i) \in Nat /\ ReturnTo(f, i) \in Nat
        /\ b <= BreakAt(f, i) /\ BreakAt(f, i) < e /\ b <= ReturnTo(f, i) /\ ReturnTo(f, i) < e /\ ReturnTo(f, i) > 0
    <2> HIDE DEF b, e, L
    <2>1. QED
      BY <1>1, <1>2, <1>3
  <1>6. QED
    BY <1>2, <1>3, <1>4, <1>5 DEF Inside

LEMMA LineFacts ==
  ASSUME TablesInv, CountTells
  PROVE  /\ Len(lines) \in Nat /\ DOMAIN lines = 1 .. Len(lines) /\ Ascends(lines)
         /\ \A k \in 1 .. Len(lines) : lines[k].address \in Nat /\ lines[k].line \in Nat \ {0}
         /\ \A k \in 1 .. Len(lines) : \E f, i : IsLine(k, f, i)
         /\ \A f \in 1 .. Count : \A i \in 1 .. Len(Functions[f].body) : \E k : IsLine(k, f, i)
  <1> DEFINE N == Len(LineTable)
  <1>1. LinesOK(Functions, Begin, LineTable)
    BY DEF TablesInv, ScriptOK, Functions, Begin, LineTable
  <1>2. LineTable \in Seq([address : Nat, line : Nat]) /\ N \in Nat
    BY <1>1 DEF LinesOK
  <1>3. lines = [k \in 1 .. N |-> [LineTable[k] EXCEPT !.line = @ + 1]]
    BY LinesAre
  <1>4. Len(lines) = N /\ DOMAIN lines = 1 .. N
    BY <1>2, <1>3
  <1>5. ASSUME NEW k \in 1 .. N
        PROVE  /\ LineTable[k].address \in Nat /\ LineTable[k].line \in Nat
               /\ lines[k].address = LineTable[k].address /\ lines[k].line = LineTable[k].line + 1
    <2> DEFINE E == [address : Nat, line : Nat]
    <2>1. LineTable[k] \in E
      <3> HIDE DEF E
      <3>1. LineTable \in Seq(E)
        BY <1>2 DEF E
      <3>2. QED
        BY <3>1
    <2>2. lines[k] = [LineTable[k] EXCEPT !.line = @ + 1]
      BY <1>3
    <2>3. QED
      BY <2>1, <2>2
  <1> HIDE DEF N
  <1>6. Ascends(lines)
    <2>1. \A k, m \in 1 .. N : k < m => LineTable[k].address < LineTable[m].address
      BY <1>1 DEF LinesOK, Ascends, N
    <2>2. QED
      BY <2>1, <1>4, <1>5 DEF Ascends
  <1>7. ASSUME NEW k \in 1 .. N, NEW f \in 1 .. Count, NEW i \in 1 .. Len(Functions[f].body),
               LineTable[k] = LineEntry(Functions, Begin, f, i)
        PROVE  IsLine(k, f, i)
    <2>1. LineTable[k].address = LineAt(Begin[f], i) /\ LineTable[k].line = Functions[f].body[i].line - 1
      BY <1>7 DEF LineEntry
    <2>2. BreakAt(f, i) = LineAt(Begin[f], i)
      BY BeginFacts DEF BreakAt
    <2>3. Functions[f].body[i].line \in Nat \ {0}
      BY BreakIsInside
    <2>4. lines[k].line = Functions[f].body[i].line
      BY <1>5, <2>1, <2>3
    <2>5. QED
      BY <1>4, <1>5, <2>1, <2>2, <2>4 DEF IsLine
  <1>8. ASSUME NEW k \in 1 .. N
        PROVE  \E f, i : IsLine(k, f, i)
    <2>1. PICK f \in 1 .. Count : \E i \in 1 .. Len(Functions[f].body) : LineTable[k] = LineEntry(Functions, Begin, f, i)
      BY <1>1 DEF LinesOK, Count, N
    <2>2. QED
      BY <2>1, <1>7
  <1>9. ASSUME NEW f \in 1 .. Count, NEW i \in 1 .. Len(Functions[f].body)
        PROVE  \E k : IsLine(k, f, i)
    <2>1. PICK k \in 1 .. N : LineTable[k] = LineEntry(Functions, Begin, f, i)
      BY <1>1 DEF LinesOK, Count, N
    <2>2. QED
      BY <2>1, <1>7
  <1>10. \A k \in 1 .. Len(lines) : lines[k].address \in Nat /\ lines[k].line \in Nat \ {0}
    BY <1>4, <1>5
  <1>11. \A k \in 1 .. Len(lines) : \E f, i : IsLine(k, f, i)
    BY <1>4, <1>8
  <1>12. QED
    BY <1>2, <1>4, <1>6, <1>9, <1>10, <1>11

\* A line in the range of an entry of the file table is in that file.
LEMMA InFileIs ==
  ASSUME TablesInv, NEW k, NEW f, NEW i, IsLine(k, f, i)
  PROVE  /\ \E j : Covers(j, f) /\ InFile(j, lines[k])
         /\ \A j \in 1 .. Len(files) : InFile(j, lines[k]) => Covers(j, f)
  <1>1. f \in 1 .. Count /\ Inside(f, BreakAt(f, i)) /\ lines[k].address = BreakAt(f, i)
    BY BreakIsInside DEF IsLine
  <1> DEFINE a == lines[k].address
  <1>2. a \in Nat /\ Begin[f] <= a /\ a < Begin[f + 1] /\ Begin[f] \in Nat /\ Begin[f + 1] \in Nat
    BY <1>1, BeginFacts DEF Inside
  <1>3. PICK j : Covers(j, f)
    BY <1>1, Covered
  <1>4. Len(files) \in Nat /\ j \in 1 .. Len(files)
    BY <1>3, FileFacts DEF Covers
  <1> HIDE DEF a
  <1>5. j < Len(files) => Begin[f + 1] <= files[j + 1].address /\ files[j + 1].address \in Nat /\ j + 1 \in 1 .. Len(files)
    <2>1. j < Len(files) => j + 1 \in 1 .. Len(files)
      BY <1>4
    <2>2. QED
      BY <1>3, <2>1, FileFacts DEF Covers
  <1>6. files[j].address <= Begin[f] /\ files[j].address \in Nat
    BY <1>3, <1>4, FileFacts DEF Covers
  <1>7. InFile(j, lines[k])
    <2>1. a >= files[j].address /\ (j < Len(files) => a < files[j + 1].address)
      BY <1>2, <1>5, <1>6
    <2>2. QED
      BY <2>1 DEF InFile, a
  <1>8. ASSUME NEW h \in 1 .. Len(files), InFile(h, lines[k])
        PROVE  h = j
    <2>1. a >= files[h].address /\ files[h].address \in Nat
      BY <1>8, FileFacts DEF InFile, a
    <2>2. CASE h < j
      <3>1. h + 1 \in 1 .. Len(files) /\ h < Len(files) /\ (h + 1 = j \/ h + 1 < j)
        BY <1>4, <2>2
      <3>2. a < files[h + 1].address /\ files[h + 1].address \in Nat
        BY <1>8, <3>1, FileFacts DEF InFile, a
      <3>3. files[h + 1].address <= files[j].address
        <4>1. h + 1 < j => files[h + 1].address < files[j].address
          BY <1>4, <3>1, FileFacts DEF Ascends
        <4>2. QED
          BY <4>1, <3>1, <3>2, <1>6
      <3>4. QED
        BY <1>2, <1>6, <3>2, <3>3
    <2>3. CASE j < h
      <3>1. j < Len(files) /\ (j + 1 = h \/ j + 1 < h)
        BY <1>4, <2>3
      <3>2. files[j + 1].address <= files[h].address
        <4>1. j + 1 < h => files[j + 1].address < files[h].address
          BY <1>5, <3>1, FileFacts DEF Ascends
        <4>2. QED
          BY <4>1, <3>1, <1>5, <2>1
      <3>3. QED
        BY <1>2, <1>5, <2>1, <3>1, <3>2
    <2>4. QED
      BY <1>4, <2>2, <2>3
  <1>9. QED
    BY <1>3, <1>7, <1>8

\* A query for the address of a line gives the line.
LEMMA LineFound ==
  ASSUME TablesInv, CountTells, NEW k \in 1 .. Len(lines)
  PROVE  LookupLine(lines[k].address) = <<lines[k].line>>
  <1>1. Len(lines) \in Nat /\ lines[k].address \in Nat
    BY LineFacts
  <1>2. ASSUME k < Len(lines)
        PROVE  lines[k + 1].address > lines[k].address
    <2>1. k + 1 \in 1 .. Len(lines) /\ k < k + 1
      BY <1>1, <1>2
    <2>2. lines[k].address < lines[k + 1].address /\ lines[k + 1].address \in Nat
      BY <2>1, LineFacts DEF Ascends
    <2>3. QED
      BY <1>1, <2>2
  <1>3. lines[k].address <= lines[k].address
    BY <1>1
  <1>4. LastUpTo(lines, lines[k].address) = <<lines[k]>>
    BY <1>1, <1>2, <1>3, LineFacts, LastFound
  <1>5. QED
    BY <1>4 DEF LookupLine

\* The first of a set of indices, and what find makes of it.
LEMMA FirstFound ==
  ASSUME NEW table, NEW n \in Nat, NEW hits \in SUBSET (1 .. n)
  PROVE  /\ hits = {} => FindFirst(table, hits) = <<>>
         /\ hits # {} => \E k \in hits : FindFirst(table, hits) = <<table[k]>> /\ \A j \in hits : k <= j
  <1>1. hits = {} => FindFirst(table, hits) = <<>>
    BY DEF FindFirst
  <1>2. ASSUME hits # {}
        PROVE  \E k \in hits : FindFirst(table, hits) = <<table[k]>> /\ \A j \in hits : k <= j
    <2>1. \E k \in hits : \A j \in hits : k <= j
      <3>1. hits \in SUBSET Nat
        OBVIOUS
      <3>2. QED
        BY <1>2, <3>1, LeastNumber
    <2> DEFINE k == CHOOSE k \in hits : \A j \in hits : k <= j
    <2>2. k \in hits /\ \A j \in hits : k <= j
      BY <2>1
    <2>3. FindFirst(table, hits) = <<table[k]>>
      BY <1>2 DEF FindFirst
    <2> HIDE DEF k
    <2>4. QED
      BY <2>2, <2>3
  <1>3. QED
    BY <1>1, <1>2

\* A breakpoint by function stops at the function's first line.
LEMMA FunctionBreaks ==
  ASSUME TablesInv, CountTells, NEW f \in 1 .. Count
  PROVE  FunctionAddress(f) = BreakAt(f, 1)
  <1> DEFINE hits == {i \in DOMAIN symbols : symbols[i].name = f}
             function == FindFirst(symbols, hits)[1]
             inside == {lines[k].address : k \in DOMAIN lines} \cap function.codestart .. function.codeend - 1
  <1>1. hits = {f}
    BY BeginFacts
  <1>2. FindFirst(symbols, hits) = <<symbols[f]>>
    <2>1. hits \in SUBSET (1 .. Count) /\ hits # {} /\ Count \in Nat
      BY <1>1, BeginFacts
    <2>2. PICK k \in hits : FindFirst(symbols, hits) = <<symbols[k]>>
      <3> HIDE DEF hits
      <3>1. QED
        BY <2>1, FirstFound
    <2>3. QED
      BY <2>2, <1>1
  <1>3. function = symbols[f]
    <2> HIDE DEF hits
    <2>1. QED
      BY <1>2
  <1>4. function.codestart = Begin[f] /\ function.codeend = Begin[f + 1]
    <2> HIDE DEF function
    <2>1. QED
      BY <1>3, BeginFacts
  <1>5. FunctionAddress(f) = IF inside = {} THEN function.codestart ELSE CHOOSE a \in inside : \A b \in inside : a <= b
    BY DEF FunctionAddress
  <1>6. Begin[f] \in Nat /\ Begin[f + 1] \in Nat /\ 1 \in 1 .. Len(Functions[f].body)
    BY BeginFacts
  <1> HIDE DEF function
  <1>7. BreakAt(f, 1) = Begin[f] + 1 /\ BreakAt(f, 1) \in Nat /\ Inside(f, BreakAt(f, 1))
    BY <1>6, BreakIsInside DEF Inside
  <1>8. BreakAt(f, 1) \in inside
    <2>1. PICK k : IsLine(k, f, 1)
      BY <1>6, LineFacts
    <2>2. k \in DOMAIN lines /\ lines[k].address = BreakAt(f, 1)
      BY <2>1, LineFacts DEF IsLine
    <2>3. BreakAt(f, 1) \in Begin[f] .. Begin[f + 1] - 1
      BY <1>6, <1>7 DEF Inside
    <2>4. QED
      BY <1>4, <2>2, <2>3
  <1>9. ASSUME NEW a \in inside
        PROVE  a \in Nat /\ BreakAt(f, 1) <= a
    <2>1. PICK k \in 1 .. Len(lines) : a = lines[k].address
      BY LineFacts
    <2>2. PICK g, i : IsLine(k, g, i)
      BY <2>1, LineFacts
    <2>3. /\ g \in 1 .. Count /\ i \in 1 .. Len(Functions[g].body) /\ a = BreakAt(g, i)
          /\ Inside(g, a) /\ a = Begin[g] + 1 + 2 * (i - 1) /\ i \in Nat
      BY <2>1, <2>2, BreakIsInside DEF IsLine
    <2>4. Inside(f, a)
      BY <1>4, <1>6, <2>3 DEF Inside
    <2>5. g = f
      BY <2>3, <2>4, OneFunction
    <2>6. QED
      BY <1>6, <1>7, <2>3, <2>5
  <1> HIDE DEF inside
  <1>10. (CHOOSE a \in inside : \A b \in inside : a <= b) = BreakAt(f, 1)
    <2>1. \A a \in inside : (\A b \in inside : a <= b) => a = BreakAt(f, 1)
      BY <1>7, <1>8, <1>9
    <2>2. \A b \in inside : BreakAt(f, 1) <= b
      BY <1>9
    <2>3. QED
      BY <1>8, <2>1, <2>2
  <1>11. QED
    BY <1>5, <1>8, <1>10

\* What BreakpointLands says of one file and line.
LandsRight(want, line) ==
  LET named == {f \in DOMAIN Functions : FileNameMatches(Functions[f].file, want)}
      below == {l \in UNION {ToSet(Functions[f].body) : f \in named} : l.line >= line}
      address == LineToAddress(line, want)
  IN IF below = {} THEN address = None
     ELSE /\ \A file \in ToSet(LookupFile(address)) : FileNameMatches(file, want)
          /\ Ascending(named) => \A l \in below : LookupLine(address)[1] <= l.line
          /\ LookupLine(address)[1] >= line

LEMMA BreakpointIsRight ==
  ASSUME TablesInv, CountTells, NEW want, NEW line \in Nat
  PROVE  LandsRight(want, line)
  <1> DEFINE named == {f \in DOMAIN Functions : FileNameMatches(Functions[f].file, want)}
             below == {l \in UNION {ToSet(Functions[f].body) : f \in named} : l.line >= line}
             hits(i) == {n \in DOMAIN lines : InFile(i, lines[n]) /\ lines[n].line >= line}
             found(i) == FindFirst(lines, hits(i))
             instances == {i \in DOMAIN files : FileNameMatches(files[i].name, want) /\ found(i) # <<>>}
             address == LineToAddress(line, want)
  <1>1. address = IF instances = {} THEN None
                  ELSE found(CHOOSE i \in instances : \A j \in instances : i <= j)[1].address
    BY DEF LineToAddress
  <1>2. /\ Len(lines) \in Nat /\ DOMAIN lines = 1 .. Len(lines)
        /\ Len(files) \in Nat /\ DOMAIN files = 1 .. Len(files)
        /\ DOMAIN Functions = 1 .. Count /\ Count \in Nat
    BY LineFacts, FileFacts, BeginFacts
  <1>3. \A i : hits(i) \in SUBSET (1 .. Len(lines))
    BY <1>2
  <1>4. ASSUME NEW i
        PROVE  /\ hits(i) = {} => found(i) = <<>>
               /\ hits(i) # {} => found(i) # <<>> /\ \E k \in hits(i) : found(i) = <<lines[k]>> /\ \A j \in hits(i) : k <= j
    <2>1. hits(i) \in SUBSET (1 .. Len(lines)) /\ Len(lines) \in Nat
      BY <1>2, <1>3
    <2> DEFINE set == hits(i)
    <2>2. /\ set = {} => FindFirst(lines, set) = <<>>
          /\ set # {} => \E k \in set : FindFirst(lines, set) = <<lines[k]>> /\ \A j \in set : k <= j
      <3> HIDE DEF set
      <3>1. set \in SUBSET (1 .. Len(lines))
        BY <2>1 DEF set
      <3>2. QED
        BY <2>1, <3>1, FirstFound
    <2> HIDE DEF hits
    <2>3. QED
      BY <2>2
  \* An entry with a line as far down is of the file, and the line in a function of it.
  <1>5. ASSUME NEW j \in instances, NEW k \in hits(j)
        PROVE  \E f, i : IsLine(k, f, i) /\ Covers(j, f) /\ f \in named /\ Functions[f].body[i] \in below
    <2>1. k \in 1 .. Len(lines) /\ InFile(j, lines[k]) /\ lines[k].line >= line
      BY <1>2
    <2>2. PICK f, i : IsLine(k, f, i)
      BY <2>1, LineFacts
    <2>3. j \in 1 .. Len(files) /\ FileNameMatches(files[j].name, want)
      BY <1>2
    <2>4. Covers(j, f)
      BY <2>1, <2>2, <2>3, InFileIs
    <2>5. f \in named
      BY <1>2, <2>2, <2>3, <2>4 DEF IsLine, Covers
    <2>6. Functions[f].body[i] \in below
      <3>1. i \in DOMAIN Functions[f].body /\ Functions[f].body[i].line >= line
        BY <2>1, <2>2, BeginFacts DEF IsLine
      <3> HIDE DEF named
      <3>2. QED
        BY <2>5, <3>1 DEF ToSet
    <2>7. QED
      BY <2>2, <2>4, <2>5, <2>6
  \* A line as far down, in a function of the file, is in the range of an entry.
  <1>6. ASSUME NEW l \in below
        PROVE  \E f \in named : \E i, j, k :
                 /\ IsLine(k, f, i) /\ Functions[f].body[i] = l /\ Covers(j, f)
                 /\ j \in instances /\ k \in hits(j) /\ InFile(j, lines[k])
    <2>1. PICK f \in named : l \in ToSet(Functions[f].body)
      OBVIOUS
    <2>2. PICK i \in DOMAIN Functions[f].body : l = Functions[f].body[i]
      BY <2>1 DEF ToSet
    <2>3. f \in 1 .. Count /\ i \in 1 .. Len(Functions[f].body) /\ l.line >= line
      BY <1>2, <2>2, BeginFacts
    <2>4. PICK k : IsLine(k, f, i)
      BY <2>3, LineFacts
    <2>5. PICK j : Covers(j, f) /\ InFile(j, lines[k])
      BY <2>4, InFileIs
    <2>6. k \in hits(j)
      BY <1>2, <2>2, <2>3, <2>4, <2>5 DEF IsLine
    <2>7. found(j) # <<>>
      <3> HIDE DEF hits, found
      <3>1. QED
        BY <2>6, <1>4
    <2>8. j \in instances
      BY <1>2, <2>5, <2>7 DEF Covers
    <2>9. QED
      BY <2>2, <2>4, <2>5, <2>6, <2>8
  <1>7. CASE below = {}
    <2>1. instances = {}
      <3>1. SUFFICES ASSUME NEW j \in instances
                     PROVE  FALSE
        OBVIOUS
      <3>2. hits(j) # {}
        BY <1>4
      <3>3. PICK k \in hits(j) : TRUE
        BY <3>2
      <3> HIDE DEF instances, hits, named, below
      <3>4. QED
        BY <1>5, <1>7, <3>3
    <2>2. address = None
      BY <1>1, <2>1
    <2> HIDE DEF address
    <2>3. QED
      BY <1>7, <2>2 DEF LandsRight, address
  <1>8. CASE below # {}
    <2>1. instances # {} /\ instances \in SUBSET Nat
      <3>1. instances # {}
        <4> HIDE DEF instances, hits, named, below
        <4>1. QED
          BY <1>6, <1>8
      <3>2. instances \in SUBSET (1 .. Len(files))
        <4> HIDE DEF found
        <4>1. QED
          BY <1>2
      <3> HIDE DEF instances
      <3>3. instances \in SUBSET Nat
        BY <3>2
      <3>4. QED
        BY <3>1, <3>3
    <2> DEFINE first == CHOOSE i \in instances : \A j \in instances : i <= j
    <2>2. first \in instances /\ \A j \in instances : first <= j
      <3> HIDE DEF instances
      <3>1. \E i \in instances : \A j \in instances : i <= j
        BY <2>1, LeastNumber
      <3>2. QED
        BY <3>1
    <2>3. address = found(first)[1].address
      BY <1>1, <2>1
    <2>4. found(first) # <<>>
      BY <2>2
    <2> HIDE DEF first, instances, found
    <2>5. PICK m \in hits(first) : found(first) = <<lines[m]>> /\ \A j \in hits(first) : m <= j
      BY <1>4, <2>4
    <2>6. address = lines[m].address
      BY <2>3, <2>5
    <2>7. PICK g, h : IsLine(m, g, h) /\ Covers(first, g) /\ g \in named
      <3> HIDE DEF hits, named, below
      <3>1. QED
        BY <1>5, <2>2, <2>5
    <2>8. m \in 1 .. Len(lines) /\ InFile(first, lines[m]) /\ lines[m].line >= line
      BY <1>2, <2>5
    <2>9. /\ g \in 1 .. Count /\ h \in 1 .. Len(Functions[g].body)
          /\ lines[m].address = BreakAt(g, h) /\ lines[m].line = Functions[g].body[h].line
      BY <2>7 DEF IsLine
    <2>10. LookupFile(address) = <<Functions[g].file>> /\ LookupLine(address) = <<lines[m].line>>
      <3>1. Inside(g, address)
        BY <2>6, <2>9, BreakIsInside
      <3>2. QED
        BY <2>6, <2>8, <3>1, FileFound, LineFound
    <2>11. ASSUME NEW file \in ToSet(LookupFile(address))
           PROVE  FileNameMatches(file, want)
      <3>1. file = Functions[g].file
        BY <2>10 DEF ToSet
      <3>2. QED
        BY <2>7, <3>1
    <2>12. ASSUME Ascending(named), NEW l \in below
           PROVE  LookupLine(address)[1] <= l.line
      <3>0. PICK f \in named : \E i, j, k :
              /\ IsLine(k, f, i) /\ Functions[f].body[i] = l /\ Covers(j, f)
              /\ j \in instances /\ k \in hits(j) /\ InFile(j, lines[k])
        BY <1>6
      <3>1. PICK i, j, k : /\ IsLine(k, f, i) /\ Functions[f].body[i] = l /\ Covers(j, f)
                           /\ j \in instances /\ k \in hits(j) /\ InFile(j, lines[k])
        BY <3>0
      <3>2. /\ k \in 1 .. Len(lines) /\ f \in 1 .. Count /\ i \in 1 .. Len(Functions[f].body)
            /\ lines[k].address = BreakAt(f, i) /\ lines[k].line = l.line
        BY <3>1 DEF IsLine
      <3>3. lines[k].address \in Nat /\ lines[m].address \in Nat /\ lines[k].line \in Nat /\ lines[m].line \in Nat
        BY <2>8, <3>2, LineFacts
      <3>4. first <= j /\ first \in 1 .. Len(files) /\ j \in 1 .. Len(files)
        BY <2>2, <2>7, <3>1 DEF Covers
      <3>5. m <= k
        <4>1. CASE first = j
          BY <2>5, <3>1, <4>1
        <4>2. CASE first # j
          <5>1. first < Len(files) /\ first + 1 \in 1 .. Len(files) /\ (first + 1 = j \/ first + 1 < j)
            BY <1>2, <3>4, <4>2
          <5>2. lines[m].address < files[first + 1].address
            BY <2>8, <5>1 DEF InFile
          <5>3. files[first + 1].address <= files[j].address
            <6>1. files[first + 1].address \in Nat /\ files[j].address \in Nat
              BY <3>4, <5>1, FileFacts
            <6>2. first + 1 < j => files[first + 1].address < files[j].address
              BY <3>4, <5>1, FileFacts DEF Ascends
            <6>3. QED
              BY <5>1, <6>1, <6>2
          <5>4. files[j].address <= lines[k].address /\ files[j].address \in Nat /\ files[first + 1].address \in Nat
            BY <3>1, <3>4, <5>1, FileFacts DEF InFile
          <5>5. lines[m].address < lines[k].address
            BY <5>2, <5>3, <5>4, <3>3
          <5>6. ~(k < m)
            <6>1. k < m => lines[k].address < lines[m].address
              BY <2>8, <3>2, LineFacts DEF Ascends
            <6>2. QED
              BY <5>5, <6>1, <3>3
          <5>7. QED
            BY <5>6, <2>8, <3>2, <1>2
        <4>3. QED
          BY <4>1, <4>2
      <3>6. lines[m].line <= l.line
        <4>1. CASE m = k
          BY <4>1, <3>2, <3>3
        <4>2. CASE m # k
          <5>1. lines[m].address < lines[k].address
            <6>1. m < k
              BY <3>5, <4>2, <2>8, <3>2, <1>2
            <6>2. QED
              BY <6>1, <2>8, <3>2, LineFacts DEF Ascends
          <5>2. /\ Inside(g, lines[m].address) /\ Inside(f, lines[k].address)
                /\ lines[m].address = Begin[g] + 1 + 2 * (h - 1) /\ lines[k].address = Begin[f] + 1 + 2 * (i - 1)
                /\ h \in Nat /\ i \in Nat
            BY <2>9, <3>2, BreakIsInside
          <5>3. g < f \/ (g = f /\ h < i)
            <6>1. CASE g = f
              <7>1. Begin[g] \in Nat
                BY <2>9, BeginFacts
              <7>2. QED
                BY <6>1, <5>1, <5>2, <7>1
            <6>2. CASE f < g
              <7>1. f + 1 \in 1 .. Count + 1 /\ g \in 1 .. Count + 1 /\ f + 1 <= g
                BY <6>2, <2>9, <3>2, <1>2
              <7>2. Begin[f + 1] <= Begin[g] /\ Begin[f + 1] \in Nat /\ Begin[g] \in Nat
                BY <7>1, <2>9, <3>2, BeginFacts
              <7>3. lines[k].address < Begin[f + 1] /\ Begin[g] <= lines[m].address
                BY <5>2 DEF Inside
              <7>4. QED
                BY <7>2, <7>3, <5>1, <3>3
            <6>3. QED
              BY <6>1, <6>2, <2>9, <3>2, <1>2
          <5>4. h \in DOMAIN Functions[g].body /\ i \in DOMAIN Functions[f].body
            BY <2>9, <3>2, BeginFacts
          <5>5. Functions[g].body[h].line <= Functions[f].body[i].line
            <6> HIDE DEF named
            <6>1. QED
              BY <2>7, <2>12, <3>1, <5>3, <5>4 DEF Ascending
          <5>6. QED
            BY <5>5, <2>9, <3>1
        <4>3. QED
          BY <4>1, <4>2
      <3>7. QED
        BY <3>6, <2>10
    <2>13. LookupLine(address)[1] >= line
      BY <2>8, <2>10
    <2> HIDE DEF address
    <2>14. QED
      BY <1>8, <2>11, <2>12, <2>13 DEF LandsRight, address
  <1>9. QED
    BY <1>7, <1>8

\* A breakpoint stops in the file asked for, at the line or the nearest below it
\* that has code, and is refused only if there is none (line_to_address,
\* query.rs:116), for any table of files and any file that is included again; one
\* for a function stops at its first line (function_address, query.rs:81).
THEOREM BreakpointsLand == Spec => []BreakpointLands
  <1>1. TablesInv => BreakpointLands
    <2>1. SUFFICES ASSUME TablesInv, CountTells
                   PROVE  /\ \A want \in Files, line \in 1 .. 9 : LandsRight(want, line)
                          /\ \A f \in DOMAIN Functions : FunctionAddress(f) = BreakAt(f, 1)
      BY DEF BreakpointLands, LandsRight
    <2>2. \A want \in Files, line \in 1 .. 9 : LandsRight(want, line)
      <3>1. \A line \in 1 .. 9 : line \in Nat
        OBVIOUS
      <3>2. QED
        BY <2>1, <3>1, BreakpointIsRight
    <2>3. \A f \in DOMAIN Functions : FunctionAddress(f) = BreakAt(f, 1)
      BY <2>1, BeginFacts, FunctionBreaks
    <2>4. QED
      BY <2>2, <2>3
  <1>2. QED
    BY <1>1, TablesHold, PTL

(***************************************************************************)
(* The stack: a frame of four cells for each call.                         *)
(***************************************************************************)

\* The first cell of the frame of call d, and its FRM.
Cell(d) == Stp \div CELL - 4 * d
FrmAt(d) == IF d = 0 THEN 0 ELSE Stp - 16 * d + 4
Depth == Len(calls)

CallsAre ==
  calls \in Seq([fn : 1 .. Count, line : Nat \ {0}, native : BOOLEAN, ret : Nat, stk : Int, frm : Int])
RegistersAre == stk = Stp - 16 * Depth /\ Hea <= stk /\ frm = FrmAt(Depth)
MemoryIs == memory \in [0 .. Stp \div CELL - 1 -> Int]

\* A call's lines end behind its body; while a native runs, at a line.
LineIs(d) ==
  /\ calls[d].line <= Len(Functions[calls[d].fn].body) + 1
  /\ calls[d].native => calls[d].line <= Len(Functions[calls[d].fn].body)

\* What a call keeps of its caller, and has in memory.
KeepsIs(d) == calls[d].stk = Stp - 16 * (d - 1) /\ calls[d].frm = FrmAt(d - 1)
FrameIs(d) ==
  /\ memory[Cell(d)] = 100 + d - 1
  /\ memory[Cell(d) + 1] = calls[d].frm
  /\ memory[Cell(d) + 2] = calls[d].ret

\* A call made by a line, not by a native, returns behind it.
ReturnIs(d) ==
  calls[d].ret # 0 =>
    /\ d > 1 /\ calls[d - 1].native = FALSE
    /\ calls[d - 1].line <= Len(Functions[calls[d - 1].fn].body)
    /\ calls[d].ret = ReturnTo(calls[d - 1].fn, calls[d - 1].line)

StackInv ==
  /\ CallsAre /\ RegistersAre /\ MemoryIs
  /\ \A d \in 1 .. Depth : LineIs(d) /\ KeepsIs(d) /\ FrameIs(d) /\ ReturnIs(d)

\* The stack in cells, of which it has a whole number.
LEMMA StackFacts ==
  /\ Stp \in Nat /\ Hea \in Nat /\ Stp \div CELL \in Nat /\ Stp = 4 * (Stp \div CELL)
  /\ CELL = 4 /\ FrameSize = 16
  <1>1. Stp \in Nat /\ Hea \in Nat /\ Stp % 4 = 0
    BY VmDebugAssumption
  <1>2. Stp \div 4 \in Nat /\ Stp = 4 * (Stp \div 4)
    BY <1>1
  <1>3. QED
    BY <1>1, <1>2 DEF CELL, FrameSize

LEMMA CallFacts ==
  ASSUME StackInv
  PROVE  /\ Depth \in Nat /\ DOMAIN calls = 1 .. Depth
         /\ \A d \in 1 .. Depth :
              /\ calls[d].fn \in 1 .. Count /\ calls[d].line \in Nat \ {0} /\ calls[d].native \in BOOLEAN
              /\ calls[d].ret \in Nat /\ calls[d].stk \in Int /\ calls[d].frm \in Int
  <1> DEFINE C == [fn : 1 .. Count, line : Nat \ {0}, native : BOOLEAN, ret : Nat, stk : Int, frm : Int]
  <1>1. calls \in Seq(C)
    BY DEF StackInv, CallsAre
  <1>2. Depth \in Nat /\ DOMAIN calls = 1 .. Depth
    <2> HIDE DEF C
    <2>1. QED
      BY <1>1 DEF Depth
  <1>3. ASSUME NEW d \in 1 .. Depth
        PROVE  calls[d] \in C
    <2> HIDE DEF C
    <2>1. QED
      BY <1>1 DEF Depth
  <1>4. QED
    BY <1>2, <1>3

LEMMA StackInit == Init /\ TablesInv => StackInv
  <1>1. SUFFICES ASSUME Init, TablesInv
                 PROVE  StackInv
    OBVIOUS
  <1>2. calls = <<>> /\ Depth = 0
    BY <1>1 DEF Init, Depth
  <1>3. CallsAre
    <2> DEFINE C == [fn : 1 .. Count, line : Nat \ {0}, native : BOOLEAN, ret : Nat, stk : Int, frm : Int]
    <2> HIDE DEF C
    <2>1. <<>> \in Seq(C)
      OBVIOUS
    <2>2. QED
      BY <1>2, <2>1 DEF CallsAre, C
  <1>4. RegistersAre
    <2>1. stk = Stp /\ frm = 0 /\ Hea \in Nat /\ Stp \in Nat /\ Hea < Stp
      BY <1>1, VmDebugAssumption DEF Init
    <2>2. QED
      BY <1>2, <2>1 DEF RegistersAre, FrmAt
  <1>5. MemoryIs
    BY <1>1 DEF Init, MemoryIs
  <1>6. QED
    BY <1>2, <1>3, <1>4, <1>5 DEF StackInv

\* Entering a function, from a line of the caller or from outside the machine.
LEMMA EnterKeeps ==
  ASSUME TablesInv, StackInv, NEW f \in 1 .. Count, NEW ret \in Nat, Enter(f, ret),
         ret # 0 => /\ calls # <<>> /\ Top.native = FALSE
                    /\ Top.line <= Len(Functions[Top.fn].body)
                    /\ ret = ReturnTo(Top.fn, Top.line)
  PROVE  StackInv'
  <1>0. PICK D \in Nat : D = Depth
    BY CallFacts
  <1> DEFINE call == [fn |-> f, line |-> 1, native |-> FALSE, ret |-> ret, stk |-> stk, frm |-> frm]
             C == [fn : 1 .. Count, line : Nat \ {0}, native : BOOLEAN, ret : Nat, stk : Int, frm : Int]
             c == Cell(D + 1)
  <1>1. /\ script' = script /\ Functions' = Functions /\ Count' = Count /\ symbols' = symbols
        /\ calls' = Append(calls, call)
    BY DEF Enter, Functions, Count, symbols
  <1>2. D \in Nat /\ DOMAIN calls = 1 .. D
    BY <1>0, CallFacts
  <1>3. stk \in Int /\ frm \in Int /\ stk = Stp - 16 * D /\ frm = FrmAt(D) /\ Hea + 16 <= stk
    <2>1. stk = Stp - 16 * D /\ frm = FrmAt(D) /\ Hea + 16 <= stk
      BY <1>0, StackFacts DEF StackInv, RegistersAre, Enter
    <2>2. QED
      BY <2>1, <1>2, StackFacts DEF FrmAt
  <1>4. calls' \in Seq(C) /\ Depth' = D + 1 /\ calls'[D + 1] = call /\ \A d \in 1 .. D : calls'[d] = calls[d]
    <2>1. calls \in Seq(C)
      BY DEF StackInv, CallsAre
    <2>2. call \in C
      BY <1>3
    <2> HIDE DEF C, call
    <2>3. QED
      BY <1>0, <1>1, <2>1, <2>2 DEF Depth
  <1>4a. /\ call.fn = f /\ call.line = 1 /\ call.native = FALSE
         /\ call.ret = ret /\ call.stk = stk /\ call.frm = frm
    OBVIOUS
  <1>4b. \A d \in 1 .. D : calls'[d] = calls[d]
    BY <1>4
  <1> HIDE DEF C, call
  <1>5. stk' = Stp - 16 * (D + 1) /\ Hea <= stk' /\ frm' = FrmAt(D + 1) /\ stk' \in Int
    <2>1. stk' = stk - 16 /\ frm' = stk' + 4
      BY StackFacts DEF Enter
    <2>2. stk' = Stp - 16 * (D + 1) /\ Hea <= stk' /\ stk' \in Int
      BY <2>1, <1>2, <1>3, StackFacts
    <2>3. D + 1 # 0
      BY <1>2
    <2>4. QED
      BY <2>1, <2>2, <2>3 DEF FrmAt
  <1> DEFINE T == Stp \div CELL
  <1>6. /\ T \in Nat /\ Stp = 4 * T /\ c = T - 4 * (D + 1) /\ stk' = 4 * c /\ stk' \div CELL = c
        /\ c \in 0 .. T - 1 /\ c + 1 \in 0 .. T - 1 /\ c + 2 \in 0 .. T - 1 /\ c + 3 \in 0 .. T - 1
    <2>1. T \in Nat /\ Stp = 4 * T /\ Hea \in Nat /\ CELL = 4
      BY StackFacts
    <2>2. c = T - 4 * (D + 1)
      BY DEF Cell
    <2> HIDE DEF T, c
    <2>3. stk' = 4 * c /\ c \in Int
      BY <2>1, <2>2, <1>2, <1>5
    <2>4. stk' \div CELL = c
      BY <2>1, <2>3
    <2>5. c >= 0
      BY <2>1, <2>3, <1>5
    <2>6. c + 3 <= T - 1
      BY <2>1, <2>2, <1>2
    <2>7. QED
      BY <2>1, <2>2, <2>3, <2>4, <2>5, <2>6
  <1> HIDE DEF c, T
  <1>7. /\ memory \in [0 .. T - 1 -> Int]
        /\ memory' = [memory EXCEPT ![c] = 100 + D, ![c + 1] = frm, ![c + 2] = ret, ![c + 3] = 0]
    <2>1. memory \in [0 .. T - 1 -> Int]
      BY DEF StackInv, MemoryIs, T
    <2>2. memory' = [memory EXCEPT ![stk' \div CELL] = 100 + Len(calls), ![stk' \div CELL + 1] = frm,
                                   ![stk' \div CELL + 2] = ret, ![stk' \div CELL + 3] = 0]
      BY DEF Enter
    <2>3. QED
      BY <1>0, <2>1, <2>2, <1>6 DEF Depth
  <1>7a. \A n \in 0 .. T - 1 :
           memory'[n] = IF n = c + 3 THEN 0 ELSE IF n = c + 2 THEN ret
                        ELSE IF n = c + 1 THEN frm ELSE IF n = c THEN 100 + D ELSE memory[n]
    BY <1>7
  <1>8. memory' \in [0 .. T - 1 -> Int]
    <2>1. 100 + D \in Int /\ ret \in Int /\ 0 \in Int
      BY <1>2
    <2>2. memory' = [n \in 0 .. T - 1 |-> memory'[n]]
      BY <1>7
    <2>3. \A n \in 0 .. T - 1 : memory'[n] \in Int
      BY <2>1, <1>3, <1>7, <1>7a
    <2>4. QED
      BY <2>2, <2>3
  <1>9. /\ memory'[c] = 100 + D /\ memory'[c + 1] = frm /\ memory'[c + 2] = ret
        /\ \A n \in 0 .. T - 1 : n > c + 3 => memory'[n] = memory[n]
    <2>1. c \in Int /\ c # c + 1 /\ c # c + 2 /\ c # c + 3 /\ c + 1 # c + 2 /\ c + 1 # c + 3 /\ c + 2 # c + 3
      BY <1>6
    <2>2. memory'[c] = 100 + D
      BY <2>1, <1>6, <1>7a
    <2>3. memory'[c + 1] = frm
      BY <2>1, <1>6, <1>7a
    <2>4. memory'[c + 2] = ret
      BY <2>1, <1>6, <1>7a
    <2>5. ASSUME NEW n \in 0 .. T - 1, n > c + 3
          PROVE  memory'[n] = memory[n]
      <3>1. n # c /\ n # c + 1 /\ n # c + 2 /\ n # c + 3
        BY <2>1, <2>5
      <3>2. QED
        BY <3>1, <1>7a
    <2>6. QED
      BY <2>2, <2>3, <2>4, <2>5
  <1>10. ASSUME NEW d \in 1 .. D
         PROVE  LineIs(d)' /\ KeepsIs(d)' /\ FrameIs(d)' /\ ReturnIs(d)'
    <2>1. LineIs(d) /\ KeepsIs(d) /\ FrameIs(d) /\ ReturnIs(d)
      BY <1>0 DEF StackInv
    <2>2. calls'[d] = calls[d] /\ (d > 1 => calls'[d - 1] = calls[d - 1])
      <3>1. calls'[d] = calls[d]
        BY <1>4b
      <3>2. d > 1 => d - 1 \in 1 .. D
        BY <1>2
      <3>3. QED
        BY <3>1, <3>2, <1>4b
    <2>3. LineIs(d)' /\ KeepsIs(d)'
      BY <2>1, <2>2, <1>1 DEF LineIs, KeepsIs
    <2>4. ReturnIs(d)'
      BY <2>1, <2>2, <1>1 DEF ReturnIs, ReturnTo, BreakAt
    <2>5. /\ Cell(d) \in 0 .. T - 1 /\ Cell(d) + 1 \in 0 .. T - 1 /\ Cell(d) + 2 \in 0 .. T - 1
          /\ Cell(d) > c + 3
      <3>1. Cell(d) = T - 4 * d /\ d \in Nat /\ d >= 1 /\ d <= D
        BY <1>2 DEF Cell, T
      <3>2. QED
        BY <3>1, <1>2, <1>6
    <2>6. memory'[Cell(d)] = memory[Cell(d)] /\ memory'[Cell(d) + 1] = memory[Cell(d) + 1]
          /\ memory'[Cell(d) + 2] = memory[Cell(d) + 2]
      <3>1. Cell(d) + 1 > c + 3 /\ Cell(d) + 2 > c + 3
        <4> DEFINE first == Cell(d)
        <4>1. first \in Int /\ c \in Int /\ first > c + 3
          BY <2>5, <1>6
        <4> HIDE DEF first
        <4>2. first + 1 > c + 3 /\ first + 2 > c + 3
          BY <4>1
        <4>3. QED
          BY <4>2 DEF first
      <3>2. QED
        BY <2>5, <3>1, <1>9
    <2>7. FrameIs(d)'
      BY <2>1, <2>2, <2>6 DEF FrameIs, Cell
    <2>8. QED
      BY <2>3, <2>4, <2>7
  <1>11. LineIs(D + 1)' /\ KeepsIs(D + 1)' /\ FrameIs(D + 1)' /\ ReturnIs(D + 1)'
    <2> DEFINE e == D + 1
    <2>1. e \in Nat /\ e - 1 = D
      BY <1>2
    <2>2. /\ calls'[e].fn = f /\ calls'[e].line = 1 /\ calls'[e].native = FALSE
          /\ calls'[e].ret = ret /\ calls'[e].stk = stk /\ calls'[e].frm = frm
      BY <1>4, <1>4a
    <2>3. Len(Functions[f].body) \in Nat
      BY BeginFacts
    <2>4. c = Cell(e)
      BY DEF c
    <2> HIDE DEF e, call
    <2>5. LineIs(e)'
      <3>1. 1 <= Len(Functions[f].body) + 1
        BY <2>3
      <3>2. QED
        BY <2>2, <3>1, <1>1 DEF LineIs
    <2>6. KeepsIs(e)'
      <3>1. stk = Stp - 16 * (e - 1) /\ frm = FrmAt(e - 1)
        BY <2>1, <1>3
      <3>2. QED
        BY <2>2, <3>1 DEF KeepsIs, FrmAt
    <2>7. FrameIs(e)'
      <3>1. memory'[Cell(e)] = 100 + e - 1
        BY <2>1, <2>4, <1>2, <1>9 DEF e
      <3>2. memory'[Cell(e) + 1] = calls'[e].frm /\ memory'[Cell(e) + 2] = calls'[e].ret
        BY <2>2, <2>4, <1>9
      <3>3. QED
        BY <3>1, <3>2 DEF FrameIs, Cell
    <2>8. ReturnIs(e)'
      <3>1. SUFFICES ASSUME ret # 0
                     PROVE  /\ e > 1 /\ calls'[e - 1].native = FALSE
                            /\ calls'[e - 1].line <= Len(Functions[calls'[e - 1].fn].body)
                            /\ ret = ReturnTo(calls'[e - 1].fn, calls'[e - 1].line)
        <4>1. ReturnIs(e)' = (calls'[e].ret # 0 =>
                               /\ e > 1 /\ calls'[e - 1].native = FALSE
                               /\ calls'[e - 1].line <= Len(Functions[calls'[e - 1].fn].body)
                               /\ calls'[e].ret = ReturnTo(calls'[e - 1].fn, calls'[e - 1].line))
          BY <1>1 DEF ReturnIs, ReturnTo, BreakAt
        <4>2. calls'[e].ret = ret
          BY <2>2
        <4>3. QED
          BY <4>1, <4>2
      <3>2. calls # <<>> /\ Top.native = FALSE /\ Top.line <= Len(Functions[Top.fn].body) /\ ret = ReturnTo(Top.fn, Top.line)
        BY <3>1
      <3>3. D > 0
        <4>1. calls \in Seq(C)
          BY DEF StackInv, CallsAre, C
        <4>2. QED
          BY <1>0, <3>2, <4>1 DEF Depth
      <3>4. calls'[e - 1] = Top
        <4>1. D \in 1 .. D
          BY <3>3, <1>2
        <4>2. QED
          BY <1>0, <2>1, <4>1, <1>4b DEF Top, Depth
      <3>5. QED
        BY <2>1, <3>2, <3>3, <3>4
    <2>9. QED
      BY <2>5, <2>6, <2>7, <2>8 DEF e
  <1>12. CallsAre'
    BY <1>1, <1>4 DEF CallsAre, C
  <1>13. RegistersAre'
    BY <1>4, <1>5 DEF RegistersAre, FrmAt
  <1>14. MemoryIs'
    BY <1>8 DEF MemoryIs, T
  <1>15. \A d \in 1 .. D + 1 : d \in 1 .. D \/ d = D + 1
    BY <1>2
  <1>16. ASSUME NEW d \in (1 .. Depth)'
         PROVE  LineIs(d)' /\ KeepsIs(d)' /\ FrameIs(d)' /\ ReturnIs(d)'
    <2>1. d \in 1 .. D \/ d = D + 1
      BY <1>4, <1>15
    <2>2. CASE d \in 1 .. D
      BY <2>2, <1>10
    <2>3. CASE d = D + 1
      BY <2>3, <1>11
    <2>4. QED
      BY <2>1, <2>2, <2>3
  <1>17. QED
    BY <1>12, <1>13, <1>14, <1>16 DEF StackInv


\* A step of the call on top, in its lines or into a native or out of it.
LEMMA TopKeeps ==
  ASSUME StackInv, calls # <<>>, NEW line \in Nat \ {0}, NEW native \in BOOLEAN,
         line <= Len(Functions[Top.fn].body) + 1,
         native => line <= Len(Functions[Top.fn].body),
         OnTop([fn |-> Top.fn, line |-> line, native |-> native,
                ret |-> Top.ret, stk |-> Top.stk, frm |-> Top.frm])
  PROVE  StackInv'
  <1> DEFINE C == [fn : 1 .. Count, line : Nat \ {0}, native : BOOLEAN, ret : Nat, stk : Int, frm : Int]
             call == [fn |-> Top.fn, line |-> line, native |-> native,
                      ret |-> Top.ret, stk |-> Top.stk, frm |-> Top.frm]
  <1>0. PICK D \in Nat : D = Depth
    BY CallFacts
  <1>1. calls \in Seq(C) /\ DOMAIN calls = 1 .. D /\ D >= 1
    <2>1. calls \in Seq(C) /\ DOMAIN calls = 1 .. D
      BY <1>0, CallFacts DEF StackInv, CallsAre
    <2> HIDE DEF C
    <2>2. QED
      BY <2>1
  <1>2. Top = calls[D] /\ D \in 1 .. D
    BY <1>0, <1>1 DEF Top, Depth
  <1>3. /\ Top.fn \in 1 .. Count /\ Top.ret \in Nat /\ Top.stk \in Int /\ Top.frm \in Int
    BY <1>0, <1>2, CallFacts
  <1>4. call \in C
    BY <1>3
  <1>5. /\ calls' = [calls EXCEPT ![D] = call]
        /\ UNCHANGED <<script, lines, frm, stk, memory>>
        /\ Functions' = Functions /\ Count' = Count /\ symbols' = symbols
    BY <1>0 DEF OnTop, Depth, Functions, Count, symbols
  <1>6. /\ call.fn = Top.fn /\ call.line = line /\ call.native = native
        /\ call.ret = Top.ret /\ call.stk = Top.stk /\ call.frm = Top.frm
    OBVIOUS
  <1> HIDE DEF C, call
  <1>7. calls' \in Seq(C) /\ Depth' = D /\ calls'[D] = call /\ \A d \in 1 .. D : d # D => calls'[d] = calls[d]
    BY <1>0, <1>1, <1>2, <1>4, <1>5 DEF Depth
  <1>8. ASSUME NEW d \in 1 .. D
        PROVE  LineIs(d)' /\ KeepsIs(d)' /\ FrameIs(d)' /\ ReturnIs(d)'
    <2>1. LineIs(d) /\ KeepsIs(d) /\ FrameIs(d) /\ ReturnIs(d)
      BY <1>0 DEF StackInv
    <2>2. /\ calls'[d].fn = calls[d].fn /\ calls'[d].ret = calls[d].ret
          /\ calls'[d].stk = calls[d].stk /\ calls'[d].frm = calls[d].frm
      <3>1. CASE d = D
        BY <3>1, <1>2, <1>6, <1>7
      <3>2. CASE d # D
        BY <3>2, <1>7
      <3>3. QED
        BY <3>1, <3>2
    <2>3. LineIs(d)'
      <3>1. CASE d = D
        BY <3>1, <1>2, <1>5, <1>6, <1>7 DEF LineIs
      <3>2. CASE d # D
        BY <3>2, <2>1, <1>5, <1>7 DEF LineIs
      <3>3. QED
        BY <3>1, <3>2
    <2>4. KeepsIs(d)'
      BY <2>1, <2>2 DEF KeepsIs, FrmAt
    <2>5. FrameIs(d)'
      BY <2>1, <2>2, <1>5 DEF FrameIs, Cell
    <2>6. ReturnIs(d)'
      <3>1. d > 1 => calls'[d - 1] = calls[d - 1]
        <4>1. d > 1 => d - 1 \in 1 .. D /\ d - 1 # D
          BY <1>1
        <4>2. QED
          BY <4>1, <1>7
      <3>2. QED
        BY <2>1, <2>2, <3>1, <1>5 DEF ReturnIs, ReturnTo, BreakAt
    <2>7. QED
      BY <2>3, <2>4, <2>5, <2>6
  <1>9. CallsAre'
    BY <1>5, <1>7 DEF CallsAre, C
  <1>10. RegistersAre'
    BY <1>0, <1>5, <1>7 DEF StackInv, RegistersAre, FrmAt
  <1>11. MemoryIs'
    BY <1>5 DEF StackInv, MemoryIs
  <1>12. QED
    BY <1>7, <1>8, <1>9, <1>10, <1>11 DEF StackInv

\* Leaving a function: the registers are as they were when it was entered, and
\* its caller goes on behind the call.
LEMMA RetnKeeps ==
  ASSUME TablesInv, StackInv, Retn
  PROVE  StackInv'
  <1> DEFINE C == [fn : 1 .. Count, line : Nat \ {0}, native : BOOLEAN, ret : Nat, stk : Int, frm : Int]
             below == SubSeq(calls, 1, Len(calls) - 1)
  <1>0. PICK D \in Nat : D = Depth
    BY CallFacts
  <1>1. calls \in Seq(C) /\ DOMAIN calls = 1 .. D /\ D >= 1
    <2>1. calls \in Seq(C) /\ DOMAIN calls = 1 .. D /\ calls # <<>>
      BY <1>0, CallFacts DEF StackInv, CallsAre, Retn
    <2> HIDE DEF C
    <2>2. QED
      BY <2>1
  <1>2. Top = calls[D] /\ D \in 1 .. D
    BY <1>0, <1>1 DEF Top, Depth
  <1>3. LineIs(D) /\ KeepsIs(D) /\ ReturnIs(D)
    BY <1>0, <1>2 DEF StackInv
  <1>4. PICK E \in Nat : E = D - 1
    BY <1>1
  <1>5. /\ stk' = Stp - 16 * E /\ frm' = FrmAt(E)
        /\ UNCHANGED <<script, lines, memory>>
        /\ Functions' = Functions /\ Count' = Count /\ symbols' = symbols
    BY <1>2, <1>3, <1>4 DEF Retn, KeepsIs, Functions, Count, symbols
  <1>6. /\ below \in Seq(C) /\ Len(below) = E
        /\ \A d \in 1 .. E : below[d] = calls[d]
    <2> HIDE DEF C
    <2>1. QED
      BY <1>0, <1>1, <1>4 DEF Depth
  <1>6a. \A d \in 1 .. E : d \in 1 .. D
    BY <1>1, <1>4
  <1>7. calls' = IF calls[D].ret = 0 THEN below ELSE [below EXCEPT ![E].line = @ + 1]
    BY <1>2, <1>6 DEF Retn
  <1>8. calls[D].ret # 0 =>
          /\ E \in 1 .. E /\ calls[E].native = FALSE
          /\ calls[E].line <= Len(Functions[calls[E].fn].body)
    <2>1. SUFFICES ASSUME calls[D].ret # 0
                   PROVE  /\ E \in 1 .. E /\ calls[E].native = FALSE
                          /\ calls[E].line <= Len(Functions[calls[E].fn].body)
      OBVIOUS
    <2>2. QED
      BY <2>1, <1>3, <1>4 DEF ReturnIs
  <1>9. ASSUME NEW d \in 1 .. E
        PROVE  /\ calls[d].fn \in 1 .. Count /\ calls[d].line \in Nat \ {0} /\ calls[d].native \in BOOLEAN
               /\ calls[d].ret \in Nat /\ calls[d].stk \in Int /\ calls[d].frm \in Int
               /\ calls[d] \in C
    <2>1. d \in 1 .. D
      BY <1>6a
    <2>2. calls[d] \in C
      <3> HIDE DEF C
      <3>1. QED
        BY <2>1, <1>1
    <2>3. QED
      BY <2>2
  <1>10. /\ calls' \in Seq(C) /\ Len(calls') = E
         /\ \A d \in 1 .. E :
              /\ calls'[d].fn = calls[d].fn /\ calls'[d].ret = calls[d].ret
              /\ calls'[d].stk = calls[d].stk /\ calls'[d].frm = calls[d].frm
              /\ calls'[d].native = calls[d].native
              /\ d # E => calls'[d] = calls[d]
              /\ calls'[d].line = calls[d].line \/ (calls[D].ret # 0 /\ d = E /\ calls'[d].line = calls[d].line + 1)
    <2> HIDE DEF below
    <2>1. CASE calls[D].ret = 0
      <3>1. calls' = below
        BY <2>1, <1>7
      <3> HIDE DEF C
      <3>2. QED
        BY <3>1, <1>6
    <2>2. CASE calls[D].ret # 0
      <3>1. calls' = [below EXCEPT ![E].line = @ + 1] /\ E \in 1 .. E
        BY <2>2, <1>7, <1>8
      <3>2. below[E] = calls[E] /\ calls[E] \in C
        BY <3>1, <1>6, <1>9
      <3> DEFINE one == [calls[E] EXCEPT !.line = @ + 1]
      <3>3. one \in C
        BY <3>1, <3>2
      <3>4. /\ one.fn = calls[E].fn /\ one.ret = calls[E].ret /\ one.stk = calls[E].stk
            /\ one.frm = calls[E].frm /\ one.native = calls[E].native /\ one.line = calls[E].line + 1
        BY <3>2
      <3>5. calls' = [below EXCEPT ![E] = one]
        BY <3>1, <3>2
      <3> HIDE DEF C, one
      <3>6. calls' \in Seq(C) /\ Len(calls') = E /\ calls'[E] = one /\ \A d \in 1 .. E : d # E => calls'[d] = calls[d]
        BY <3>1, <3>3, <3>5, <1>6
      <3>7. ASSUME NEW d \in 1 .. E
            PROVE  /\ calls'[d].fn = calls[d].fn /\ calls'[d].ret = calls[d].ret
                   /\ calls'[d].stk = calls[d].stk /\ calls'[d].frm = calls[d].frm
                   /\ calls'[d].native = calls[d].native
                   /\ d # E => calls'[d] = calls[d]
                   /\ calls'[d].line = calls[d].line \/ (calls[D].ret # 0 /\ d = E /\ calls'[d].line = calls[d].line + 1)
        <4>1. CASE d = E
          BY <4>1, <3>4, <3>6, <2>2
        <4>2. CASE d # E
          BY <4>2, <3>6
        <4>3. QED
          BY <4>1, <4>2
      <3>8. QED
        BY <3>6, <3>7
    <2>3. QED
      BY <2>1, <2>2
  <1> HIDE DEF C, below
  <1>10a. \A d \in 1 .. E : Len(Functions[calls[d].fn].body) \in Int
    BY <1>9, BeginFacts
  <1>11. ASSUME NEW d \in 1 .. E
         PROVE  LineIs(d)' /\ KeepsIs(d)' /\ FrameIs(d)' /\ ReturnIs(d)'
    <2>1. LineIs(d) /\ KeepsIs(d) /\ FrameIs(d) /\ ReturnIs(d)
      BY <1>0, <1>6a DEF StackInv
    <2>2. /\ calls'[d].fn = calls[d].fn /\ calls'[d].ret = calls[d].ret
          /\ calls'[d].stk = calls[d].stk /\ calls'[d].frm = calls[d].frm
          /\ calls'[d].native = calls[d].native
      BY <1>10
    <2>3. LineIs(d)'
      <3>1. CASE calls'[d].line = calls[d].line
        BY <3>1, <2>1, <2>2, <1>5 DEF LineIs
      <3>2. CASE calls[D].ret # 0 /\ d = E /\ calls'[d].line = calls[d].line + 1
        <4> DEFINE L == Len(Functions[calls[d].fn].body)
        <4>1. calls[d].line \in Nat /\ calls[d].native = FALSE /\ calls[d].line <= L
          BY <3>2, <1>8, <1>9
        <4>2. L \in Int
          BY <1>10a
        <4>3. QED
          BY <4>1, <3>2, <2>2, <1>5 DEF LineIs
      <3>3. QED
        BY <3>1, <3>2, <1>10
    <2>4. KeepsIs(d)'
      BY <2>1, <2>2 DEF KeepsIs, FrmAt
    <2>5. FrameIs(d)'
      BY <2>1, <2>2, <1>5 DEF FrameIs, Cell
    <2>6. ReturnIs(d)'
      <3>1. d > 1 => calls'[d - 1] = calls[d - 1]
        <4>1. d > 1 => d - 1 \in 1 .. E /\ d - 1 # E
          BY <1>4
        <4>2. QED
          BY <4>1, <1>10
      <3>2. QED
        BY <2>1, <2>2, <3>1, <1>5 DEF ReturnIs, ReturnTo, BreakAt
    <2>7. QED
      BY <2>3, <2>4, <2>5, <2>6
  <1>13. CallsAre'
    BY <1>5, <1>10 DEF CallsAre, C
  <1>14. RegistersAre'
    <2>1. Hea <= Stp - 16 * D /\ Depth' = E
      BY <1>0, <1>10 DEF StackInv, RegistersAre, Depth
    <2>2. Hea <= Stp - 16 * E
      BY <2>1, <1>4, StackFacts
    <2>3. QED
      BY <2>1, <2>2, <1>5 DEF RegistersAre, FrmAt
  <1>15. MemoryIs'
    BY <1>5 DEF StackInv, MemoryIs
  <1>16. QED
    BY <1>10, <1>11, <1>13, <1>14, <1>15 DEF StackInv, Depth

LEMMA StackStep == TablesInv /\ StackInv /\ [Next]_vars => StackInv'
  <1>1. SUFFICES ASSUME TablesInv, StackInv, [Next]_vars
                 PROVE  StackInv'
    OBVIOUS
  <1>2. ASSUME NEW f \in DOMAIN Functions, Exec(f)
        PROVE  StackInv'
    <2>1. f \in 1 .. Count /\ Enter(f, 0) /\ 0 \in Nat
      BY <1>1, <1>2, BeginFacts DEF Exec
    <2>2. QED
      BY <1>1, <2>1, EnterKeeps
  <1>3. ASSUME calls # <<>>
        PROVE  /\ Top.fn \in 1 .. Count /\ Top.line \in Nat \ {0} /\ Top.native \in BOOLEAN
               /\ Top \in [fn : 1 .. Count, line : Nat \ {0}, native : BOOLEAN, ret : Nat, stk : Int, frm : Int]
               /\ Len(Functions[Top.fn].body) \in Nat
               /\ Top.line <= Len(Functions[Top.fn].body) + 1
               /\ Top.native => Top.line <= Len(Functions[Top.fn].body)
    <2> DEFINE C == [fn : 1 .. Count, line : Nat \ {0}, native : BOOLEAN, ret : Nat, stk : Int, frm : Int]
    <2>1. calls \in Seq(C)
      BY <1>1 DEF StackInv, CallsAre
    <2>2. Depth \in 1 .. Depth
      <3> HIDE DEF C
      <3>1. QED
        BY <2>1, <1>3 DEF Depth
    <2>3. Top \in C
      <3> HIDE DEF C
      <3>1. QED
        BY <2>1, <2>2 DEF Depth, Top
    <2>4. LineIs(Depth)
      BY <1>1, <2>2 DEF StackInv
    <2>5. Len(Functions[Top.fn].body) \in Nat
      BY <1>1, <2>3, BeginFacts
    <2>6. QED
      BY <2>3, <2>4, <2>5 DEF LineIs, Depth, Top
  <1>4. ASSUME Call
        PROVE  StackInv'
    <2>1. calls # <<>> /\ Top.native = FALSE /\ Top.line <= Len(Functions[Top.fn].body)
          /\ Statement.calls # 0 /\ Enter(Statement.calls, ReturnTo(Top.fn, Top.line))
      BY <1>4, <1>3 DEF Call, AtLine
    <2>2. Top.fn \in 1 .. Count /\ Top.line \in 1 .. Len(Functions[Top.fn].body)
      BY <1>3, <2>1
    <2>3. /\ Inside(Top.fn, ReturnTo(Top.fn, Top.line))
          /\ Functions[Top.fn].body[Top.line].calls \in 0 .. Count
      BY <1>1, <2>2, BreakIsInside
    <2>4. ReturnTo(Top.fn, Top.line) \in Nat /\ Statement.calls \in 1 .. Count
      BY <2>1, <2>3, BeginFacts DEF Inside, Statement
    <2>5. QED
      BY <1>1, <2>1, <2>4, EnterKeeps
  <1>5. ASSUME calls # <<>>, NEW line \in Nat \ {0}, NEW native \in BOOLEAN,
               line <= Len(Functions[Top.fn].body) + 1,
               native => line <= Len(Functions[Top.fn].body),
               OnTop([Top EXCEPT !.line = line, !.native = native])
        PROVE  StackInv'
    <2> DEFINE call == [fn |-> Top.fn, line |-> line, native |-> native,
                        ret |-> Top.ret, stk |-> Top.stk, frm |-> Top.frm]
    <2>1. [Top EXCEPT !.line = line, !.native = native] = call
      <3>1. Top \in [fn : 1 .. Count, line : Nat \ {0}, native : BOOLEAN, ret : Nat, stk : Int, frm : Int]
        BY <1>3, <1>5
      <3> DEFINE one == [Top EXCEPT !.line = line]
      <3>2. one = [fn |-> Top.fn, line |-> line, native |-> Top.native,
                   ret |-> Top.ret, stk |-> Top.stk, frm |-> Top.frm]
        BY <3>1
      <3>3. [Top EXCEPT !.line = line, !.native = native] = [one EXCEPT !.native = native]
        OBVIOUS
      <3> HIDE DEF one
      <3>4. [one EXCEPT !.native = native] = call
        BY <3>2
      <3>5. QED
        BY <3>3, <3>4
    <2>2. OnTop(call)
      BY <1>5, <2>1
    <2>3. QED
      BY <1>1, <1>5, <2>2, TopKeeps
  <1>6. ASSUME CallNative
        PROVE  StackInv'
    <2>1. calls # <<>> /\ Top.line <= Len(Functions[Top.fn].body) /\ OnTop([Top EXCEPT !.native = TRUE])
      BY <1>6 DEF CallNative, AtLine
    <2>2. [Top EXCEPT !.native = TRUE] = [Top EXCEPT !.line = Top.line, !.native = TRUE]
      BY <1>3, <2>1
    <2>3. QED
      BY <1>3, <1>5, <2>1, <2>2
  <1>7. ASSUME NativeReturns
        PROVE  StackInv'
    <2>1. calls # <<>> /\ Top.native /\ OnTop([Top EXCEPT !.native = FALSE, !.line = @ + 1])
      BY <1>7 DEF NativeReturns
    <2>2. [Top EXCEPT !.native = FALSE, !.line = @ + 1] = [Top EXCEPT !.line = Top.line + 1, !.native = FALSE]
      BY <1>3, <2>1
    <2>3. Top.line + 1 \in Nat \ {0} /\ Top.line + 1 <= Len(Functions[Top.fn].body) + 1
      BY <1>3, <2>1
    <2>4. QED
      BY <1>5, <2>1, <2>2, <2>3
  <1>8. ASSUME NextLine
        PROVE  StackInv'
    <2>1. calls # <<>> /\ Top.native = FALSE /\ Top.line <= Len(Functions[Top.fn].body)
          /\ OnTop([Top EXCEPT !.line = @ + 1])
      BY <1>3, <1>8 DEF NextLine, AtLine
    <2>2. [Top EXCEPT !.line = @ + 1] = [Top EXCEPT !.line = Top.line + 1, !.native = FALSE]
      BY <1>3, <2>1
    <2>3. Top.line + 1 \in Nat \ {0} /\ Top.line + 1 <= Len(Functions[Top.fn].body) + 1
      BY <1>3, <2>1
    <2>4. QED
      BY <1>5, <2>1, <2>2, <2>3
  <1>9. ASSUME Retn
        PROVE  StackInv'
    BY <1>1, <1>9, RetnKeeps
  <1>10. ASSUME UNCHANGED vars
         PROVE  StackInv'
    BY <1>1, <1>10 DEF vars, StackInv, CallsAre, RegistersAre, MemoryIs, LineIs, KeepsIs, FrameIs, ReturnIs,
                       ReturnTo, BreakAt, Depth, Count, Functions, symbols, FrmAt, Cell
  <1>11. QED
    BY <1>1, <1>2, <1>4, <1>6, <1>7, <1>8, <1>9, <1>10 DEF Next

LEMMA StackHolds == Spec => [](TablesInv /\ StackInv)
  <1>1. Spec => []TablesInv
    BY TablesHold
  <1>2. QED
    BY <1>1, StackInit, StackStep, PTL DEF Spec

(***************************************************************************)
(* The walk: as many of the callers as it records, from the top down to    *)
(* the public that was entered from outside.                               *)
(***************************************************************************)

\* A cell of the stack that is in use.
LEMMA CellRead ==
  ASSUME StackInv, NEW c \in Int, stk <= 4 * c, c < Stp \div CELL
  PROVE  ReadCell(4 * c) = <<memory[c]>>
  <1> DEFINE T == Stp \div CELL
             a == 4 * c
  <1>1. T \in Nat /\ Stp = 4 * T /\ Hea \in Nat /\ CELL = 4
    BY StackFacts
  <1>2. stk \in Int /\ Hea <= stk
    <2>1. Depth \in Nat /\ stk = Stp - 16 * Depth /\ Hea <= stk
      BY CallFacts DEF StackInv, RegistersAre
    <2>2. QED
      BY <2>1, StackFacts
  <1>3. c \in Int /\ c < T /\ stk <= a /\ a \in Int /\ a \div 4 = c
    BY DEF T
  <1>4. a < 4 * T
    BY <1>1, <1>3
  <1> HIDE DEF T, a
  <1>5. DataPtr(a)
    BY <1>1, <1>2, <1>3, <1>4 DEF DataPtr
  <1>6. ReadCell(a) = <<memory[c]>>
    BY <1>1, <1>3, <1>5 DEF ReadCell
  <1>7. QED
    BY <1>6 DEF a

\* What is read through the FRM of a call: its return address, its caller's FRM
\* and its local.
LEMMA FrameRead ==
  ASSUME StackInv, NEW d \in 1 .. Depth
  PROVE  /\ FrmAt(d) \in Int /\ 0 < FrmAt(d) /\ FrmAt(d) + CELL < Stp
         /\ ReadCell(FrmAt(d) + CELL) = <<calls[d].ret>>
         /\ ReadCell(FrmAt(d)) = <<FrmAt(d - 1)>>
         /\ ReadCell(LocalOf(FrmAt(d))) = <<100 + d - 1>>
  <1> DEFINE T == Stp \div CELL
             c == Cell(d)
             a == FrmAt(d)
  <1>1. T \in Nat /\ Stp = 4 * T /\ Hea \in Nat /\ CELL = 4
    BY StackFacts
  <1>2. /\ Depth \in Nat /\ d \in Nat /\ 1 <= d /\ d <= Depth
        /\ stk = Stp - 16 * Depth /\ Hea <= stk
    BY CallFacts DEF StackInv, RegistersAre
  <1>3. c = T - 4 * d
    BY DEF Cell
  <1>4. a = Stp - 16 * d + 4
    BY <1>2 DEF FrmAt
  <1> HIDE DEF T, c, a
  <1>5. /\ c \in Int /\ stk \in Int /\ a = 4 * (c + 1) /\ a + 4 = 4 * (c + 2) /\ a + (-4) = 4 * c
        /\ stk <= 4 * c /\ c + 2 < T /\ c >= 0
    <2>1. c \in Int /\ stk \in Int /\ a \in Int
      BY <1>1, <1>2, <1>3, <1>4
    <2>2. a = 4 * (c + 1) /\ a + 4 = 4 * (c + 2) /\ a + (-4) = 4 * c
      BY <1>1, <1>2, <1>3, <1>4
    <2>3. stk <= 4 * c
      BY <1>1, <1>2, <1>3
    <2>4. c + 2 < T
      BY <1>1, <1>2, <1>3
    <2>5. c >= 0
      BY <2>1, <2>3, <1>1, <1>2
    <2>6. QED
      BY <2>1, <2>2, <2>3, <2>4, <2>5
  <1>6. a \in Int /\ 0 < a /\ a + CELL < Stp
    BY <1>1, <1>5
  <1>7. FrameIs(d) /\ KeepsIs(d)
    BY DEF StackInv
  <1>8. ReadCell(4 * c) = <<memory[c]>>
    <2>1. c \in Int /\ stk <= 4 * c /\ c < T
      BY <1>1, <1>5
    <2>2. QED
      BY <2>1, CellRead DEF T
  <1>9. ReadCell(4 * (c + 1)) = <<memory[c + 1]>>
    <2>1. c + 1 \in Int /\ stk <= 4 * (c + 1) /\ c + 1 < T
      BY <1>1, <1>5
    <2>2. QED
      BY <2>1, CellRead DEF T
  <1>10. ReadCell(4 * (c + 2)) = <<memory[c + 2]>>
    <2>1. c + 2 \in Int /\ stk <= 4 * (c + 2) /\ c + 2 < T
      BY <1>1, <1>5
    <2>2. QED
      BY <2>1, CellRead DEF T
  <1>11. memory[c] = 100 + d - 1 /\ memory[c + 1] = FrmAt(d - 1) /\ memory[c + 2] = calls[d].ret
    BY <1>7 DEF FrameIs, KeepsIs, c
  <1>12. a + CELL = 4 * (c + 2) /\ LocalOf(a) = 4 * c
    BY <1>1, <1>5 DEF LocalOf
  <1>13. /\ ReadCell(a + CELL) = <<calls[d].ret>> /\ ReadCell(a) = <<FrmAt(d - 1)>>
         /\ ReadCell(LocalOf(a)) = <<100 + d - 1>>
    BY <1>5, <1>8, <1>9, <1>10, <1>11, <1>12
  <1>14. QED
    BY <1>6, <1>13 DEF a

\* The first call from outside below a call that is running.
LEMMA EnteredIs ==
  ASSUME StackInv, calls # <<>>
  PROVE  /\ Depth \in Nat /\ Entered \in 1 .. Depth /\ calls[Entered].ret = 0
         /\ \A e \in Entered + 1 .. Depth : calls[e].ret # 0
  <1> DEFINE IsIt(d) == calls[d].ret = 0 /\ \A e \in d + 1 .. Depth : calls[e].ret # 0
             S == {Depth - d : d \in {d \in 1 .. Depth : calls[d].ret = 0}}
  <1>1. Depth \in Nat /\ DOMAIN calls = 1 .. Depth /\ Depth >= 1
    <2> DEFINE C == [fn : 1 .. Count, line : Nat \ {0}, native : BOOLEAN, ret : Nat, stk : Int, frm : Int]
    <2>1. calls \in Seq(C)
      BY DEF StackInv, CallsAre
    <2> HIDE DEF C
    <2>2. QED
      BY <2>1, CallFacts DEF Depth
  <1>2. calls[1].ret = 0
    <2>1. 1 \in 1 .. Depth /\ ~(1 > 1)
      BY <1>1
    <2>2. ReturnIs(1)
      BY <2>1 DEF StackInv
    <2>3. QED
      BY <2>1, <2>2 DEF ReturnIs
  <1>3. S \in SUBSET Nat
    BY <1>1
  <1>4. S # {}
    <2>1. Depth - 1 \in S
      BY <1>1, <1>2
    <2>2. QED
      BY <2>1
  <1>5. PICK i \in S : \A j \in S : i <= j
    BY <1>3, <1>4, LeastNumber
  <1>6. PICK d \in 1 .. Depth : calls[d].ret = 0 /\ i = Depth - d
    BY <1>5
  <1>7. ASSUME NEW e \in d + 1 .. Depth
        PROVE  calls[e].ret # 0
    <2>1. e \in 1 .. Depth /\ d \in Nat /\ e > d
      BY <1>1
    <2>2. SUFFICES ASSUME calls[e].ret = 0
                   PROVE  FALSE
      OBVIOUS
    <2>3. Depth - e \in S
      BY <2>1, <2>2
    <2>4. Depth - d <= Depth - e
      BY <2>3, <1>5, <1>6
    <2>5. QED
      BY <2>1, <2>4, <1>1
  <1>8. \E x \in DOMAIN calls : IsIt(x)
    BY <1>1, <1>6, <1>7
  <1>9. Entered = CHOOSE x \in DOMAIN calls : IsIt(x)
    BY DEF Entered, Depth
  <1> HIDE DEF IsIt
  <1>10. Entered \in DOMAIN calls /\ IsIt(Entered)
    BY <1>8, <1>9
  <1>11. QED
    BY <1>1, <1>10 DEF IsIt

\* The frames after m callers, and the walk after n steps.
Callers == Depth - Entered
Seen(top, m) ==
  [j \in 1 .. m + 1 |-> [cip |-> IF j = 1 THEN top ELSE calls[Depth - j + 2].ret, frm |-> FrmAt(Depth - j + 1)]]
Walked(top, n) ==
  LET m == IF n <= Callers THEN n ELSE Callers
  IN [frames |-> Seen(top, m), frm |-> FrmAt(Depth - m), on |-> n <= Callers]

\* A step of the walk, as stack.rs takes it.
WalkOne(w) ==
  LET ret == ReadCell(w.frm + CELL)
      prev == ReadCell(w.frm)
  IN IF w.on /\ 0 < w.frm /\ w.frm + CELL < Stp /\ ret # <<>> /\ prev # <<>> /\ Returns(ret[1])
     THEN [frames |-> Append(w.frames, [cip |-> ret[1], frm |-> prev[1]]),
           frm |-> prev[1], on |-> w.frm < prev[1] /\ prev[1] < Stp]
     ELSE [w EXCEPT !.on = FALSE]

LEMMA WalkedStep ==
  ASSUME StackInv, calls # <<>>, NEW top, NEW n \in Nat
  PROVE  WalkOne(Walked(top, n)) = Walked(top, n + 1)
  <1> DEFINE L == Depth
             c == Callers
             w == Walked(top, n)
             m == IF n <= c THEN n ELSE c
             d == L - m
             ret == ReadCell(w.frm + CELL)
             prev == ReadCell(w.frm)
  <1>1. L \in Nat /\ Entered \in 1 .. L /\ c = L - Entered /\ c \in Nat
        /\ calls[Entered].ret = 0 /\ \A e \in Entered + 1 .. L : calls[e].ret # 0
    BY EnteredIs DEF Callers
  <1>2. m \in Nat /\ m <= c /\ d \in 1 .. L /\ d \in Nat
    BY <1>1
  <1>3. w = [frames |-> Seen(top, m), frm |-> FrmAt(d), on |-> n <= c]
    BY DEF Walked
  <1>4. w.frames = Seen(top, m) /\ w.frm = FrmAt(d) /\ w.on = (n <= c)
    BY <1>3
  <1>5. /\ FrmAt(d) \in Int /\ 0 < FrmAt(d) /\ FrmAt(d) + CELL < Stp
        /\ ret = <<calls[d].ret>> /\ prev = <<FrmAt(d - 1)>>
        /\ calls[d].ret \in Nat
    BY <1>2, <1>4, FrameRead, CallFacts
  <1>6. /\ ret # <<>> /\ prev # <<>> /\ ret[1] = calls[d].ret /\ prev[1] = FrmAt(d - 1)
    BY <1>5
  <1> HIDE DEF w, ret, prev
  <1>7. CASE n < c
    <2>1. m = n /\ d > Entered /\ n + 1 <= c /\ d \in Entered + 1 .. L /\ n <= c
      BY <1>1, <1>2, <1>7
    <2>2. calls[d].ret # 0 /\ d > 1
      BY <2>1, <1>1
    <2>3. Returns(ret[1])
      BY <2>2, <1>5, <1>6 DEF Returns
    <2>4. FrmAt(d) < FrmAt(d - 1) /\ FrmAt(d - 1) < Stp
      <3>1. d \in Nat /\ d > 1 /\ d # 0 /\ d - 1 # 0
        BY <1>2, <2>2
      <3>2. FrmAt(d) = Stp - 16 * d + 4 /\ FrmAt(d - 1) = Stp - 16 * (d - 1) + 4
        BY <3>1 DEF FrmAt
      <3>3. QED
        BY <3>1, <3>2, StackFacts
    <2>5. WalkOne(w) = [frames |-> Append(w.frames, [cip |-> ret[1], frm |-> prev[1]]),
                        frm |-> prev[1], on |-> w.frm < prev[1] /\ prev[1] < Stp]
      <3>1. w.on /\ 0 < w.frm /\ w.frm + CELL < Stp
        BY <1>4, <1>5, <2>1
      <3>2. QED
        BY <3>1, <1>6, <2>3 DEF WalkOne, ret, prev
    <2>6. Append(Seen(top, m), [cip |-> calls[d].ret, frm |-> FrmAt(d - 1)]) = Seen(top, m + 1)
      <3> DEFINE one(j) == [cip |-> IF j = 1 THEN top ELSE calls[L - j + 2].ret, frm |-> FrmAt(L - j + 1)]
                 k == m + 1
      <3>1. one(k + 1) = [cip |-> calls[d].ret, frm |-> FrmAt(d - 1)]
        <4>1. k + 1 # 1 /\ L - (k + 1) + 2 = d /\ L - (k + 1) + 1 = d - 1
          BY <1>1, <1>2
        <4>2. QED
          BY <4>1
      <3>2. Seen(top, m) = [j \in 1 .. k |-> one(j)] /\ Seen(top, m + 1) = [j \in 1 .. k + 1 |-> one(j)]
        BY DEF Seen
      <3>3. k \in Nat
        BY <1>2
      <3> HIDE DEF one, k
      <3>4. Append([j \in 1 .. k |-> one(j)], one(k + 1)) = [j \in 1 .. k + 1 |-> one(j)]
        BY <3>3
      <3>5. QED
        BY <3>1, <3>2, <3>4
    <2>7. WalkOne(w) = [frames |-> Seen(top, m + 1), frm |-> FrmAt(d - 1), on |-> TRUE]
      BY <1>4, <1>6, <2>4, <2>5, <2>6
    <2>8. Walked(top, n + 1) = [frames |-> Seen(top, m + 1), frm |-> FrmAt(d - 1), on |-> TRUE]
      <3>1. n + 1 <= c /\ m + 1 = n + 1 /\ d - 1 = L - (n + 1)
        BY <2>1, <1>1, <1>2
      <3>2. QED
        BY <3>1 DEF Walked
    <2>9. QED
      BY <2>7, <2>8 DEF w
  <1>8. CASE ~(n < c)
    <2>1. m = c /\ d = Entered /\ ~(n + 1 <= c) /\ d = L - c
      BY <1>1, <1>8
    <2>2. ret[1] = 0
      BY <2>1, <1>1, <1>6
    <2>3. ~Returns(ret[1])
      BY <2>2 DEF Returns
    <2>4. WalkOne(w) = [w EXCEPT !.on = FALSE]
      BY <2>3 DEF WalkOne, ret, prev
    <2>5. WalkOne(w) = [frames |-> Seen(top, c), frm |-> FrmAt(L - c), on |-> FALSE]
      BY <2>1, <2>4, <1>3
    <2>6. Walked(top, n + 1) = [frames |-> Seen(top, c), frm |-> FrmAt(L - c), on |-> FALSE]
      <3>1. (n + 1 <= c) = FALSE
        BY <2>1
      <3>2. QED
        BY <3>1 DEF Walked
    <2>7. QED
      BY <2>5, <2>6 DEF w
  <1>9. QED
    BY <1>7, <1>8

\* The walk has the frames of the callers, as many as it records.
LEMMA WalkIs ==
  ASSUME StackInv, calls # <<>>, NEW top
  PROVE  Walk(top) = Seen(top, IF MAX_DEPTH <= Callers THEN MAX_DEPTH ELSE Callers)
  <1> DEFINE Solves(g) == g = [n \in 0 .. MAX_DEPTH |->
               IF n = 0 THEN [frames |-> <<[cip |-> top, frm |-> frm]>>, frm |-> frm, on |-> TRUE]
               ELSE WalkOne(g[n - 1])]
             walk == CHOOSE g : Solves(g)
             w == [n \in 0 .. MAX_DEPTH |-> Walked(top, n)]
  <1>1. MAX_DEPTH \in Nat
    BY VmDebugAssumption
  <1>2. Walked(top, 0) = [frames |-> <<[cip |-> top, frm |-> frm]>>, frm |-> frm, on |-> TRUE]
    <2>1. Depth \in Nat /\ Callers \in Nat /\ 0 <= Callers /\ frm = FrmAt(Depth)
      BY EnteredIs DEF Callers, StackInv, RegistersAre
    <2>2. Depth - 0 = Depth /\ Depth - 1 + 1 = Depth
      BY <2>1
    <2>3. Walked(top, 0) = [frames |-> Seen(top, 0), frm |-> frm, on |-> TRUE]
      BY <2>1, <2>2 DEF Walked
    <2>4. Seen(top, 0) = <<[cip |-> top, frm |-> frm]>>
      BY <2>1, <2>2 DEF Seen
    <2>5. QED
      BY <2>3, <2>4
  <1>3. Solves(w)
    <2>1. ASSUME NEW n \in 0 .. MAX_DEPTH
          PROVE  w[n] = IF n = 0 THEN [frames |-> <<[cip |-> top, frm |-> frm]>>, frm |-> frm, on |-> TRUE]
                        ELSE WalkOne(w[n - 1])
      <3>1. CASE n = 0
        BY <3>1, <1>1, <1>2
      <3>2. CASE n # 0
        <4>1. n - 1 \in Nat /\ n - 1 \in 0 .. MAX_DEPTH /\ (n - 1) + 1 = n
          BY <3>2, <1>1
        <4>2. WalkOne(Walked(top, n - 1)) = Walked(top, n)
          BY <4>1, WalkedStep
        <4>3. QED
          BY <3>2, <4>1, <4>2
      <3>3. QED
        BY <3>1, <3>2
    <2>2. QED
      BY <2>1
  <1>4. Solves(walk)
    <2> HIDE DEF Solves, w
    <2>1. QED
      BY <1>3
  <1>5. Walk(top) = walk[MAX_DEPTH].frames
    BY DEF Walk, WalkOne
  <1>6. /\ walk[0] = Walked(top, 0)
        /\ \A n \in 0 .. MAX_DEPTH : n < MAX_DEPTH => walk[n + 1] = WalkOne(walk[n])
    <2> HIDE DEF walk
    <2>1. walk[0] = Walked(top, 0)
      BY <1>1, <1>2, <1>4
    <2>2. ASSUME NEW n \in 0 .. MAX_DEPTH, n < MAX_DEPTH
          PROVE  walk[n + 1] = WalkOne(walk[n])
      <3>1. n + 1 \in 0 .. MAX_DEPTH /\ n + 1 # 0 /\ (n + 1) - 1 = n
        BY <1>1, <2>2
      <3>2. QED
        BY <3>1, <1>4
    <2>3. QED
      BY <2>1, <2>2
  <1> HIDE DEF walk, Solves
  <1> DEFINE P == [n \in 0 .. MAX_DEPTH |-> walk[n] = Walked(top, n)]
  <1>7. \A n \in 0 .. MAX_DEPTH : P[n]
    <2>1. P \in [0 .. MAX_DEPTH -> BOOLEAN]
      OBVIOUS
    <2>2. P[0]
      <3>1. 0 \in 0 .. MAX_DEPTH /\ walk[0] = Walked(top, 0)
        BY <1>1, <1>6
      <3>2. QED
        BY <3>1, Zenon
    <2>3. ASSUME NEW n \in 0 .. MAX_DEPTH, n < MAX_DEPTH, P[n]
          PROVE  P[n + 1]
      <3>1. n + 1 \in 0 .. MAX_DEPTH /\ n \in Nat
        BY <1>1, <2>3
      <3>2. walk[n + 1] = WalkOne(Walked(top, n))
        BY <1>6, <2>3
      <3>3. QED
        BY <3>1, <3>2, WalkedStep
    <2> HIDE DEF P
    <2>4. QED
      BY <1>1, <2>1, <2>2, <2>3, UpTo
  <1>8. walk[MAX_DEPTH] = Walked(top, MAX_DEPTH)
    <2>1. MAX_DEPTH \in 0 .. MAX_DEPTH
      BY <1>1
    <2>2. P[MAX_DEPTH]
      BY <2>1, <1>7
    <2>3. QED
      BY <2>1, <2>2, Zenon
  <1>9. QED
    BY <1>5, <1>8 DEF Walked

\* The functions that are running, from the top down to the public.
Running == Reverse(SubSeq(calls, Entered, Len(calls)))

LEMMA RunningIs ==
  ASSUME StackInv, calls # <<>>
  PROVE  Len(Running) = Callers + 1 /\ \A n \in 1 .. Callers + 1 : Running[n] = calls[Depth - n + 1]
  <1> DEFINE C == [fn : 1 .. Count, line : Nat \ {0}, native : BOOLEAN, ret : Nat, stk : Int, frm : Int]
             L == Depth
             E == Entered
             s == SubSeq(calls, E, L)
  <1>1. L \in Nat /\ E \in 1 .. L /\ Callers = L - E
    BY EnteredIs DEF Callers
  <1>2. calls \in Seq(C)
    BY DEF StackInv, CallsAre
  <1> HIDE DEF C
  <1>3. L = Len(calls)
    BY DEF Depth
  <1> HIDE DEF L, E
  <1>4. Len(s) = L - E + 1 /\ \A i \in 1 .. L - E + 1 : s[i] = calls[E + i - 1]
    BY <1>1, <1>2, <1>3
  <1>5. Running = [i \in 1 .. Len(s) |-> s[(Len(s) - i) + 1]]
    BY <1>3 DEF Running, Reverse, E
  <1> HIDE DEF s
  <1> DEFINE k == L - E + 1
  <1>6. k \in Nat /\ k = Callers + 1 /\ Running = [i \in 1 .. k |-> s[(k - i) + 1]]
    BY <1>1, <1>4, <1>5
  <1>7. Len(Running) = k
    BY <1>6
  <1>8. ASSUME NEW n \in 1 .. k
        PROVE  Running[n] = calls[L - n + 1]
    <2>1. (k - n) + 1 \in 1 .. k /\ E + ((k - n) + 1) - 1 = L - n + 1
      BY <1>1
    <2>2. s[(k - n) + 1] = calls[E + ((k - n) + 1) - 1]
      BY <2>1, <1>4
    <2>3. QED
      BY <2>1, <2>2, <1>6
  <1>9. QED
    BY <1>6, <1>7, <1>8 DEF L

\* In a hook, each frame of a walk is the call's that it stands for: the address
\* in it is in the function that is running there, and in its file, and its FRM
\* leads to that function's own local; no frame is left out, and none follows that
\* of the public (Amx::call_stack, stack.rs:24), for any script, any nesting of
\* calls and of natives that enter publics, and any depth the walk is cut at.
THEOREM WalksAreCallChains == Spec => []WalkIsCallChain
  <1>1. TablesInv /\ StackInv => WalkIsCallChain
    <2> DEFINE top == BreakAt(Top.fn, Top.line)
               m == IF MAX_DEPTH <= Callers THEN MAX_DEPTH ELSE Callers
               frames == Walk(top)
    <2>1. SUFFICES ASSUME TablesInv, StackInv, AtLine
                   PROVE  /\ Len(frames) = IF Len(Running) <= MAX_DEPTH THEN Len(Running) ELSE MAX_DEPTH + 1
                          /\ \A n \in DOMAIN frames :
                               /\ LookupFunction(frames[n].cip) = <<symbols[Running[n].fn]>>
                               /\ LookupFile(frames[n].cip) = <<Functions[Running[n].fn].file>>
                               /\ ReadCell(LocalOf(frames[n].frm)) = <<100 + Len(calls) - n>>
      BY DEF WalkIsCallChain, Running
    <2>2. calls # <<>> /\ Top = calls[Depth] /\ Top.line <= Len(Functions[Top.fn].body)
      BY <2>1 DEF AtLine, Top, Depth
    <2>3. /\ Depth \in Nat /\ Entered \in 1 .. Depth /\ Callers \in Nat /\ Callers = Depth - Entered
          /\ \A e \in Entered + 1 .. Depth : calls[e].ret # 0
      BY <2>1, <2>2, EnteredIs DEF Callers
    <2>4. MAX_DEPTH \in Nat
      BY VmDebugAssumption
    <2>5. m \in Nat /\ m <= Callers
      BY <2>3, <2>4
    <2>6. Len(Running) = Callers + 1 /\ \A n \in 1 .. Callers + 1 : Running[n] = calls[Depth - n + 1]
      BY <2>1, <2>2, RunningIs
    <2>7. frames = Seen(top, m)
      BY <2>1, <2>2, WalkIs
    <2>8. frames = [j \in 1 .. m + 1 |-> [cip |-> IF j = 1 THEN top ELSE calls[Depth - j + 2].ret,
                                         frm |-> FrmAt(Depth - j + 1)]]
      BY <2>7 DEF Seen
    <2> HIDE DEF top, frames
    <2>9. Len(frames) = m + 1 /\ DOMAIN frames = 1 .. m + 1
      <3> HIDE DEF m
      <3>1. QED
        BY <2>5, <2>8
    <2>10. m + 1 = IF Len(Running) <= MAX_DEPTH THEN Len(Running) ELSE MAX_DEPTH + 1
      BY <2>3, <2>4, <2>6
    <2> HIDE DEF m
    <2>11. ASSUME NEW n \in 1 .. m + 1
           PROVE  /\ LookupFunction(frames[n].cip) = <<symbols[Running[n].fn]>>
                  /\ LookupFile(frames[n].cip) = <<Functions[Running[n].fn].file>>
                  /\ ReadCell(LocalOf(frames[n].frm)) = <<100 + Depth - n>>
      <3> DEFINE d == Depth - n + 1
                 f == calls[d].fn
                 i == calls[d].line
      <3>1. n \in Nat /\ n >= 1 /\ n <= Callers + 1 /\ n \in 1 .. Callers + 1
        BY <2>3, <2>5
      <3>2. d \in 1 .. Depth /\ d - 1 = Depth - n /\ Depth - n + 2 = d + 1 /\ d >= Entered
        BY <2>3, <3>1
      <3>3. Running[n] = calls[d]
        BY <2>6, <3>1
      <3>4. /\ frames[n].cip = IF n = 1 THEN top ELSE calls[d + 1].ret
            /\ frames[n].frm = FrmAt(d)
        BY <2>8, <3>2
      <3> HIDE DEF d
      <3>5. f \in 1 .. Count /\ i \in Nat \ {0}
        BY <2>1, <3>2, CallFacts
      <3>6. Inside(f, frames[n].cip)
        <4>1. CASE n = 1
          <5>1. d = Depth
            BY <4>1, <2>3 DEF d
          <5>2. f = Top.fn /\ i = Top.line /\ frames[n].cip = BreakAt(f, i)
            BY <4>1, <5>1, <2>2, <3>4 DEF top
          <5>3. i \in 1 .. Len(Functions[f].body)
            <6>1. Len(Functions[f].body) \in Nat /\ i <= Len(Functions[f].body)
              BY <2>1, <2>2, <3>5, <5>2, BeginFacts
            <6>2. QED
              BY <6>1, <3>5
          <5> HIDE DEF f, i
          <5>4. Inside(f, BreakAt(f, i))
            BY <2>1, <3>5, <5>3, BreakIsInside
          <5>5. QED
            BY <5>2, <5>4
        <4>2. CASE n # 1
          <5>1. d + 1 \in 1 .. Depth /\ d + 1 \in Entered + 1 .. Depth /\ (d + 1) - 1 = d
            BY <4>2, <2>3, <3>1, <3>2 DEF d
          <5>2. calls[d + 1].ret # 0 /\ ReturnIs(d + 1)
            BY <2>1, <2>3, <5>1 DEF StackInv
          <5>3. i <= Len(Functions[f].body) /\ calls[d + 1].ret = ReturnTo(f, i)
            BY <5>1, <5>2 DEF ReturnIs
          <5>4. frames[n].cip = ReturnTo(f, i)
            BY <4>2, <3>4, <5>3
          <5>5. i \in 1 .. Len(Functions[f].body)
            <6>1. Len(Functions[f].body) \in Nat
              BY <2>1, <3>5, BeginFacts
            <6>2. QED
              BY <6>1, <5>3, <3>5
          <5> HIDE DEF f, i
          <5>6. Inside(f, ReturnTo(f, i))
            BY <2>1, <3>5, <5>5, BreakIsInside
          <5>7. QED
            BY <5>4, <5>6
        <4>3. QED
          BY <4>1, <4>2
      <3>7. /\ LookupFunction(frames[n].cip) = <<symbols[f]>>
            /\ LookupFile(frames[n].cip) = <<Functions[f].file>>
        BY <2>1, <3>6, FunctionFound, FileFound
      <3>8. ReadCell(LocalOf(FrmAt(d))) = <<100 + d - 1>>
        BY <2>1, <3>2, FrameRead
      <3>9. 100 + d - 1 = 100 + Depth - n
        BY <2>3, <3>1, <3>2 DEF d
      <3>10. QED
        BY <3>3, <3>4, <3>7, <3>8, <3>9
    <2>12. QED
      BY <2>9, <2>10, <2>11 DEF Depth
  <1>2. QED
    BY <1>1, StackHolds, PTL

=================================================================================
