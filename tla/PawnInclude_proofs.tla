------------------------- MODULE PawnInclude_proofs -------------------------
(***************************************************************************)
(* Theorems about PawnInclude, for any natives, callbacks and names, any   *)
(* include or template and any number of edits: what is derived, written   *)
(* and read is the same, so that the check finds the differences between   *)
(* the include and the plugin and a template is refused for cause.         *)
(*                                                                         *)
(* A text is read token by token.  `Says` is what is shown of a text: what *)
(* it declares and forwards, whatever stands in front of it and behind it. *)
(* It holds of the line of a declaration, of a comment and of what a       *)
(* native becomes, and goes over to texts one behind the other.            *)
(***************************************************************************)
EXTENDS PawnInclude, WellFoundedInduction, SequenceTheorems, FiniteSetTheorems, TLAPS

(***************************************************************************)
(* Lemmas on numbers and on sequences.                                     *)
(***************************************************************************)

LessThan == {pair \in Nat \X Nat : pair[1] < pair[2]}

\* A set of numbers has a least one.
LEMMA LeastNumber ==
  ASSUME NEW S \in SUBSET Nat, S # {}
  PROVE  \E i \in S : \A j \in S : i <= j
  <1>1. OpToRel(<, Nat) = LessThan
    BY DEF OpToRel, LessThan
  <1>2. IsWellFoundedOn(LessThan, Nat)
    BY <1>1, NatLessThanWellFounded
  <1>3. PICK i \in S : \A j \in S : ~(<<j, i>> \in LessThan)
    BY <1>2, WFMin
  <1>4. ASSUME NEW j \in S
        PROVE  i <= j
    <2>1. <<j, i>> \notin LessThan /\ <<j, i>> \in Nat \X Nat /\ i \in Nat /\ j \in Nat
      BY <1>3
    <2>2. ~(j < i)
      BY <2>1 DEF LessThan
    <2>3. QED
      BY <2>1, <2>2
  <1>5. QED
    BY <1>4

\* Induction, for sets.
LEMMA EveryNumber ==
  ASSUME NEW S \in SUBSET Nat, 0 \in S, \A n \in S : n + 1 \in S
  PROVE  S = Nat
  <1>1. ASSUME Nat \ S # {}
        PROVE  FALSE
    <2>1. PICK i \in Nat \ S : \A j \in Nat \ S : i <= j
      BY <1>1, LeastNumber
    <2>2. i # 0 /\ i - 1 \in Nat /\ (i - 1) + 1 = i /\ ~(i <= i - 1)
      BY <2>1
    <2>3. i - 1 \in S
      BY <2>1, <2>2
    <2>4. QED
      BY <2>1, <2>2, <2>3
  <1>2. QED
    BY <1>1
\* What is computed step by step from `base`: there is a function of the steps.
Steps(S, base, N, step, g) ==
  g \in [0 .. N -> S] /\ g[0] = base /\ \A n \in 1 .. N : g[n] = step[<<n, g[n - 1]>>]

LEMMA StepsExist ==
  ASSUME NEW S, NEW base \in S, NEW N \in Nat, NEW step \in [(1 .. N) \X S -> S]
  PROVE  \E g : Steps(S, base, N, step, g)
  <1> DEFINE K == {k \in Nat : k <= N => \E g : Steps(S, base, k, step, g)}
  <1>1. 0 \in K
    <2>1. Steps(S, base, 0, step, [i \in 0 .. 0 |-> base])
      BY DEF Steps
    <2>2. QED
      BY <2>1
  <1>2. ASSUME NEW k \in K
        PROVE  k + 1 \in K
    <2>1. SUFFICES ASSUME k + 1 <= N
                   PROVE  \E g : Steps(S, base, k + 1, step, g)
      OBVIOUS
    <2>2. k \in Nat /\ k + 1 \in Nat /\ k \in 0 .. k /\ k <= N /\ k + 1 \in 1 .. N
      BY <2>1
    <2>3. PICK g : Steps(S, base, k, step, g)
      BY <2>2
    <2> DEFINE h == [i \in 0 .. k + 1 |-> IF i = k + 1 THEN step[<<k + 1, g[k]>>] ELSE g[i]]
    <2>4. g[k] \in S /\ step[<<k + 1, g[k]>>] \in S
      <3>1. g[k] \in S
        BY <2>2, <2>3 DEF Steps
      <3>2. <<k + 1, g[k]>> \in (1 .. N) \X S
        BY <2>2, <3>1
      <3>3. QED
        BY <3>1, <3>2
    <2>5. h \in [0 .. k + 1 -> S]
      <3>1. ASSUME NEW i \in 0 .. k + 1
            PROVE  h[i] \in S
        <4>1. i = k + 1 \/ i \in 0 .. k
          BY <2>2
        <4>2. QED
          BY <2>3, <2>4, <4>1 DEF Steps
      <3>2. QED
        BY <3>1
    <2>6. h[0] = base
      BY <2>2, <2>3 DEF Steps
    <2>7. ASSUME NEW n \in 1 .. k + 1
          PROVE  h[n] = step[<<n, h[n - 1]>>]
      <3>1. n - 1 \in 0 .. k /\ n - 1 # k + 1
        BY <2>2
      <3>2. h[n - 1] = g[n - 1]
        BY <3>1
      <3>3. CASE n = k + 1
        <4>1. n - 1 = k /\ h[n] = step[<<k + 1, g[k]>>]
          BY <3>3, <2>2
        <4>2. QED
          BY <3>2, <3>3, <4>1
      <3>4. CASE n # k + 1
        <4>1. n \in 1 .. k /\ h[n] = g[n]
          BY <3>4, <2>2
        <4>2. QED
          BY <3>2, <4>1, <2>3 DEF Steps
      <3>5. QED
        BY <3>3, <3>4
    <2> HIDE DEF h
    <2>8. QED
      BY <2>5, <2>6, <2>7 DEF Steps
  <1>3. K = Nat
    <2>1. K \in SUBSET Nat
      OBVIOUS
    <2> HIDE DEF K
    <2>2. QED
      BY <1>1, <1>2, <2>1, EveryNumber
  <1>4. QED
    BY <1>3

\* A property of numbers up to N that holds at 0 and is handed on.
LEMMA UpTo ==
  ASSUME NEW N \in Nat, NEW P \in [0 .. N -> BOOLEAN], P[0],
         \A n \in 0 .. N : n < N /\ P[n] => P[n + 1]
  PROVE  \A n \in 0 .. N : P[n]
  <1> DEFINE K == {k \in Nat : k <= N => P[k]}
  <1>1. 0 \in K
    OBVIOUS
  <1>2. ASSUME NEW k \in K
        PROVE  k + 1 \in K
    BY SMT
  <1>3. K \in SUBSET Nat
    OBVIOUS
  <1>4. K = Nat
    <2> HIDE DEF K
    <2>1. QED
      BY <1>1, <1>2, <1>3, EveryNumber
  <1>5. QED
    BY <1>4

(***************************************************************************)
(* Text.                                                                   *)
(***************************************************************************)

Texts == Seq(Tokens)

\* The first place of a token.
LEMMA FindIs ==
  ASSUME NEW text \in Texts, NEW token
  PROVE  /\ Find(text, token) \in 0 .. Len(text)
         /\ Find(text, token) = 0 <=> ~Contains(text, token)
         /\ Find(text, token) # 0 =>
              /\ text[Find(text, token)] = token
              /\ \A i \in 1 .. Find(text, token) - 1 : text[i] # token
  <1> DEFINE I == {i \in 1 .. Len(text) : text[i] = token}
  <1>1. Find(text, token) = IF I # {} THEN Min(I) ELSE 0
    BY DEF Find, SelectInSeq
  <1>2. Contains(text, token) <=> I # {}
    BY DEF Contains
  <1>3. ASSUME I # {}
        PROVE  Min(I) \in I /\ \A j \in I : Min(I) <= j
    <2>1. I \in SUBSET Nat
      OBVIOUS
    <2>2. \E i \in I : \A j \in I : i <= j
      BY <1>3, <2>1, LeastNumber
    <2>3. QED
      BY <2>2 DEF Min
  <1>4. Len(text) \in Nat
    BY DEF Texts
  <1>5. CASE I = {}
    BY <1>1, <1>2, <1>4, <1>5
  <1>6. CASE I # {}
    <2>1. Find(text, token) \in I /\ \A j \in I : Find(text, token) <= j
      BY <1>1, <1>3, <1>6
    <2>2. QED
      BY <1>2, <1>4, <1>6, <2>1
  <1>7. QED
    BY <1>5, <1>6

\* The place of a token that is not further to the left.
LEMMA FindAt ==
  ASSUME NEW text \in Texts, NEW token, NEW i \in 1 .. Len(text), text[i] = token,
         \A j \in 1 .. i - 1 : text[j] # token
  PROVE  Find(text, token) = i /\ Contains(text, token)
  <1>1. Contains(text, token)
    BY DEF Contains
  <1>2. Find(text, token) \in 1 .. Len(text)
    BY <1>1, FindIs
  <1>3. text[Find(text, token)] = token /\ \A j \in 1 .. Find(text, token) - 1 : text[j] # token
    BY <1>2, FindIs
  <1>4. Len(text) \in Nat
    BY DEF Texts
  <1>5. ~(Find(text, token) < i) /\ ~(i < Find(text, token))
    BY <1>2, <1>3, <1>4
  <1>6. QED
    BY <1>1, <1>2, <1>4, <1>5

LEMMA OneToken ==
  ASSUME NEW c \in Tokens
  PROVE  <<c>> \in Texts /\ Len(<<c>>) = 1 /\ <<c>>[1] = c
  BY DEF Texts

LEMMA TextsAre ==
  /\ <<>> \in Texts
  /\ \A a \in Texts :
       /\ Len(a) \in Nat /\ DOMAIN a = 1 .. Len(a) /\ (a = <<>> <=> Len(a) = 0)
       /\ \A i \in 1 .. Len(a) : a[i] \in Tokens
       /\ a \o <<>> = a /\ <<>> \o a = a
  <1>1. <<>> \in Texts
    BY DEF Texts
  <1>2. ASSUME NEW a \in Texts
        PROVE  /\ Len(a) \in Nat /\ DOMAIN a = 1 .. Len(a) /\ (a = <<>> <=> Len(a) = 0)
               /\ \A i \in 1 .. Len(a) : a[i] \in Tokens
    BY DEF Texts
  <1>3. ASSUME NEW a \in Texts
        PROVE  a \o <<>> = a /\ <<>> \o a = a
    BY ConcatEmptySeq DEF Texts
  <1>4. QED
    BY <1>1, <1>2, <1>3

LEMMA TextsJoin ==
  \A a, b \in Texts :
    /\ a \o b \in Texts /\ Len(a \o b) = Len(a) + Len(b)
    /\ \A i \in 1 .. Len(a) : (a \o b)[i] = a[i]
    /\ \A i \in 1 .. Len(b) : (a \o b)[Len(a) + i] = b[i]
  BY DEF Texts

LEMMA TextsRegroup ==
  \A a, b, c \in Texts : (a \o b) \o c = a \o (b \o c)
  BY ConcatAssociative DEF Texts

\* Texts one behind the other, and a text of one token.
a ++ b == a \o b
One(c) == <<c>>

LEMMA OneIs ==
  \A c \in Tokens : One(c) \in Texts /\ Len(One(c)) = 1 /\ One(c)[1] = c
  BY OneToken DEF One

LEMMA CatIs ==
  \A a, b \in Texts :
    /\ a ++ b \in Texts /\ Len(a ++ b) = Len(a) + Len(b)
    /\ a ++ <<>> = a /\ <<>> ++ a = a
    /\ \A i \in 1 .. Len(a) : (a ++ b)[i] = a[i]
    /\ \A i \in 1 .. Len(b) : (a ++ b)[Len(a) + i] = b[i]
  BY TextsJoin, TextsAre DEF ++

LEMMA CatRegroups ==
  \A a, b, c \in Texts : (a ++ b) ++ c = a ++ (b ++ c)
  BY TextsRegroup DEF ++

\* The parts of a text around a token.
LEMMA AroundToken ==
  ASSUME NEW before \in Texts, NEW token \in Tokens, NEW behind \in Texts,
         ~Contains(before, token), NEW text,
         text = before ++ (One(token) ++ behind)
  PROVE  /\ text \in Texts /\ Contains(text, token)
         /\ Len(text) = Len(before) + 1 + Len(behind)
         /\ Find(text, token) = Len(before) + 1
         /\ SubSeq(text, 1, Find(text, token) - 1) = before
         /\ From(text, Find(text, token)) = One(token) ++ behind
         /\ From(text, Find(text, token) + 1) = behind
  <1> DEFINE whole == before \o <<token>> \o behind
  <1>0. /\ whole \in Texts /\ Len(whole) = Len(before) + 1 + Len(behind)
        /\ \A i \in 1 .. Len(before) : whole[i] = before[i]
        /\ whole[Len(before) + 1] = token
        /\ \A i \in 1 .. Len(behind) : whole[Len(before) + 1 + i] = behind[i]
    BY DEF Texts
  <1>00. text = whole
    <2>1. One(token) \in Texts
      BY OneIs
    <2>2. (before ++ One(token)) ++ behind = before ++ (One(token) ++ behind)
      BY <2>1, CatRegroups
    <2>3. QED
      BY <2>2 DEF ++, One
  <1> HIDE DEF whole
  <1>1. /\ text \in Texts /\ Len(text) = Len(before) + 1 + Len(behind)
        /\ \A i \in 1 .. Len(before) : text[i] = before[i]
        /\ text[Len(before) + 1] = token
        /\ \A i \in 1 .. Len(behind) : text[Len(before) + 1 + i] = behind[i]
    BY <1>0, <1>00
  <1>2. Len(before) \in Nat /\ Len(behind) \in Nat
    BY DEF Texts
  <1>3. Contains(text, token) /\ Find(text, token) = Len(before) + 1
    <2>1. \A j \in 1 .. Len(before) : before[j] # token
      BY DEF Contains
    <2>2. Len(before) + 1 \in 1 .. Len(text) /\ (Len(before) + 1) - 1 = Len(before)
      BY <1>1, <1>2
    <2>3. \A j \in 1 .. (Len(before) + 1) - 1 : text[j] # token
      BY <1>1, <2>1, <2>2
    <2>4. QED
      BY <1>1, <2>2, <2>3, FindAt
  <1>4. SubSeq(text, 1, Find(text, token) - 1) = before
    <2>1. Find(text, token) - 1 = Len(before)
      BY <1>2, <1>3
    <2>2. SubSeq(text, 1, Len(before)) = before
      BY <1>1, <1>2 DEF Texts
    <2>3. QED
      BY <2>1, <2>2
  <1>5. From(text, Find(text, token)) = One(token) ++ behind
    <2> DEFINE end == <<token>> \o behind
    <2>1. /\ end \in Texts /\ Len(end) = 1 + Len(behind) /\ end[1] = token
          /\ \A i \in 1 .. Len(behind) : end[i + 1] = behind[i]
      <3>1. <<token>> \in Seq(Tokens) /\ Len(<<token>>) = 1 /\ <<token>>[1] = token
        OBVIOUS
      <3>2. /\ end \in Seq(Tokens) /\ Len(end) = Len(<<token>>) + Len(behind)
            /\ \A i \in 1 .. Len(<<token>>) + Len(behind) :
                 end[i] = IF i <= Len(<<token>>) THEN <<token>>[i] ELSE behind[i - Len(<<token>>)]
        BY <3>1, ConcatProperties DEF Texts
      <3> HIDE DEF end
      <3>3. end[1] = token
        BY <1>2, <3>1, <3>2
      <3>4. ASSUME NEW i \in 1 .. Len(behind)
            PROVE  end[i + 1] = behind[i]
        <4>1. i + 1 \in 1 .. 1 + Len(behind) /\ ~(i + 1 <= 1) /\ (i + 1) - 1 = i
          BY <1>2
        <4>2. QED
          BY <3>1, <3>2, <4>1
      <3>5. QED
        BY <3>1, <3>2, <3>3, <3>4 DEF Texts
    <2>2. SubSeq(text, Len(before) + 1, Len(text)) \in Texts
      BY <1>1, <1>2 DEF Texts
    <2> HIDE DEF end
    <2>3. /\ Len(SubSeq(text, Len(before) + 1, Len(text))) = Len(end)
          /\ \A i \in 1 .. Len(end) : SubSeq(text, Len(before) + 1, Len(text))[i] = text[Len(before) + i]
      BY <1>1, <1>2, <2>1 DEF Texts
    <2>4. ASSUME NEW i \in 1 .. Len(end)
          PROVE  text[Len(before) + i] = end[i]
      <3>1. CASE i = 1
        BY <3>1, <1>1, <2>1
      <3>2. CASE i # 1
        <4>1. i - 1 \in 1 .. Len(behind) /\ (i - 1) + 1 = i /\ Len(before) + 1 + (i - 1) = Len(before) + i
          BY <3>2, <1>2, <2>1
        <4>2. end[(i - 1) + 1] = behind[i - 1]
          BY <2>1, <4>1
        <4>3. text[Len(before) + 1 + (i - 1)] = behind[i - 1]
          BY <1>1, <4>1
        <4>4. QED
          BY <4>1, <4>2, <4>3
      <3>3. QED
        BY <3>1, <3>2
    <2>5. SubSeq(text, Len(before) + 1, Len(text)) = end
      <3> DEFINE got == SubSeq(text, Len(before) + 1, Len(text))
      <3>1. got \in Seq(Tokens) /\ end \in Seq(Tokens) /\ Len(got) = Len(end)
        BY <2>1, <2>2, <2>3 DEF Texts
      <3>2. \A i \in 1 .. Len(got) : got[i] = end[i]
        BY <2>3, <2>4
      <3> HIDE DEF got
      <3>3. got = end
        BY <3>1, <3>2, SeqEqual
      <3>4. QED
        BY <3>3 DEF got
    <2>6. QED
      BY <1>3, <2>5 DEF From, end, ++, One
  <1>6. From(text, Find(text, token) + 1) = behind
    <2>1. Find(text, token) + 1 = Len(before) + 2
      BY <1>2, <1>3
    <2>2. SubSeq(text, Len(before) + 2, Len(text)) = behind
      BY <1>1, <1>2 DEF Texts
    <2>3. QED
      BY <2>1, <2>2 DEF From
  <1>7. QED
    BY <1>1, <1>3, <1>4, <1>5, <1>6

LEMMA ContainsOne ==
  ASSUME NEW c, NEW token
  PROVE  Contains(<<c>>, token) <=> c = token
  BY DEF Contains

LEMMA ContainsNone ==
  ASSUME NEW token
  PROVE  ~Contains(<<>>, token)
  BY DEF Contains

LEMMA ContainsBoth ==
  ASSUME NEW a \in Texts, NEW b \in Texts, NEW token
  PROVE  Contains(a \o b, token) <=> Contains(a, token) \/ Contains(b, token)
  <1>1. Len(a) \in Nat /\ Len(b) \in Nat /\ Len(a \o b) = Len(a) + Len(b)
    BY DEF Texts
  <1>2. ASSUME NEW i \in 1 .. Len(a)
        PROVE  i \in 1 .. Len(a \o b) /\ (a \o b)[i] = a[i]
    BY <1>1 DEF Texts
  <1>3. ASSUME NEW i \in 1 .. Len(b)
        PROVE  i + Len(a) \in 1 .. Len(a \o b) /\ (a \o b)[i + Len(a)] = b[i]
    BY <1>1 DEF Texts
  <1>4. ASSUME NEW i \in 1 .. Len(a \o b)
        PROVE  i \in 1 .. Len(a) \/ (i - Len(a) \in 1 .. Len(b) /\ i = (i - Len(a)) + Len(a))
    BY <1>1
  <1>5. QED
    BY <1>2, <1>3, <1>4 DEF Contains

\* A piece of a text.
LEMMA PieceIs ==
  ASSUME NEW a \in Texts, NEW i \in Int, NEW j \in Int, i >= 1, j <= Len(a)
  PROVE  SubSeq(a, i, j) \in Texts /\ Len(SubSeq(a, i, j)) = (IF i <= j THEN j - i + 1 ELSE 0)
  <1>1. \A k \in i .. j : a[k] \in Tokens
    BY TextsAre
  <1>2. QED
    BY <1>1, SubSeqProperties DEF Texts

(***************************************************************************)
(* Going through a text token by token.                                    *)
(***************************************************************************)

\* `text` takes what `step` goes through from s to e.
Runs(S, step, text, s, e) ==
  \E g \in [0 .. Len(text) -> S] :
    /\ g[0] = s /\ g[Len(text)] = e
    /\ \A n \in 1 .. Len(text) : g[n] = step[<<g[n - 1], text[n]>>]

LEMMA RunsType ==
  ASSUME NEW S, NEW step, NEW text \in Texts, NEW s, NEW e, Runs(S, step, text, s, e)
  PROVE  s \in S /\ e \in S
  <1>1. PICK g \in [0 .. Len(text) -> S] : g[0] = s /\ g[Len(text)] = e
    BY DEF Runs
  <1>2. 0 \in 0 .. Len(text) /\ Len(text) \in 0 .. Len(text)
    BY TextsAre
  <1>3. QED
    BY <1>1, <1>2

LEMMA RunsNone ==
  ASSUME NEW S, NEW step, NEW s \in S
  PROVE  Runs(S, step, <<>>, s, s)
  <1> DEFINE g == [i \in 0 .. 0 |-> s]
  <1>1. g \in [0 .. 0 -> S] /\ g[0] = s /\ Len(<<>>) = 0
    OBVIOUS
  <1> HIDE DEF g
  <1>2. QED
    BY <1>1 DEF Runs

LEMMA RunsOne ==
  ASSUME NEW S, NEW step \in [S \X Tokens -> S], NEW s \in S, NEW c \in Tokens
  PROVE  Runs(S, step, <<c>>, s, step[<<s, c>>])
  <1> DEFINE g == [i \in 0 .. 1 |-> IF i = 0 THEN s ELSE step[<<s, c>>]]
  <1>1. <<s, c>> \in S \X Tokens /\ Len(<<c>>) = 1 /\ <<c>>[1] = c
    OBVIOUS
  <1>2. g \in [0 .. 1 -> S] /\ g[0] = s /\ g[1] = step[<<s, c>>]
    BY <1>1
  <1> HIDE DEF g
  <1>3. \A n \in 1 .. Len(<<c>>) : g[n] = step[<<g[n - 1], <<c>>[n]>>]
    <2>1. \A n \in 1 .. 1 : n = 1 /\ n - 1 = 0
      OBVIOUS
    <2>2. QED
      BY <1>1, <1>2, <2>1
  <1>4. QED
    BY <1>1, <1>2, <1>3 DEF Runs

LEMMA RunsOn ==
  ASSUME NEW S, NEW step, NEW a \in Texts, NEW b \in Texts, NEW s, NEW m, NEW e,
         Runs(S, step, a, s, m), Runs(S, step, b, m, e)
  PROVE  Runs(S, step, a \o b, s, e)
  <1>1. PICK g \in [0 .. Len(a) -> S] :
          /\ g[0] = s /\ g[Len(a)] = m
          /\ \A n \in 1 .. Len(a) : g[n] = step[<<g[n - 1], a[n]>>]
    BY DEF Runs
  <1>2. PICK h \in [0 .. Len(b) -> S] :
          /\ h[0] = m /\ h[Len(b)] = e
          /\ \A n \in 1 .. Len(b) : h[n] = step[<<h[n - 1], b[n]>>]
    BY DEF Runs
  <1>3. Len(a) \in Nat /\ Len(b) \in Nat
    BY TextsAre
  <1>4. Len(a \o b) = Len(a) + Len(b)
    BY TextsJoin
  <1> DEFINE f == [i \in 0 .. Len(a) + Len(b) |-> IF i <= Len(a) THEN g[i] ELSE h[i - Len(a)]]
  <1>5. f \in [0 .. Len(a \o b) -> S]
    <2>1. ASSUME NEW i \in 0 .. Len(a) + Len(b)
          PROVE  (IF i <= Len(a) THEN g[i] ELSE h[i - Len(a)]) \in S
      BY <1>3
    <2>2. QED
      BY <1>4, <2>1
  <1>6. f[0] = s /\ f[Len(a \o b)] = e
    <2>1. f[0] = s
      BY <1>1, <1>3
    <2>2. CASE Len(b) = 0
      BY <1>1, <1>2, <1>3, <1>4, <2>2
    <2>3. CASE Len(b) # 0
      <3>1. ~(Len(a) + Len(b) <= Len(a)) /\ (Len(a) + Len(b)) - Len(a) = Len(b) /\ Len(a) + Len(b) \in 0 .. Len(a) + Len(b)
        BY <1>3, <2>3
      <3>2. QED
        BY <1>2, <1>4, <2>1, <3>1
    <2>4. QED
      BY <2>1, <2>2, <2>3
  <1>7. ASSUME NEW n \in 1 .. Len(a \o b)
        PROVE  f[n] = step[<<f[n - 1], (a \o b)[n]>>]
    <2>1. n \in 0 .. Len(a) + Len(b) /\ n - 1 \in 0 .. Len(a) + Len(b)
      BY <1>3, <1>4
    <2>2. CASE n <= Len(a)
      <3>1. n \in 1 .. Len(a) /\ n - 1 <= Len(a)
        BY <1>3, <1>4, <2>2
      <3>2. f[n] = g[n] /\ f[n - 1] = g[n - 1] /\ (a \o b)[n] = a[n]
        BY <2>1, <2>2, <3>1, TextsJoin
      <3>3. QED
        BY <1>1, <3>1, <3>2
    <2>3. CASE ~(n <= Len(a))
      <3>1. n - Len(a) \in 1 .. Len(b) /\ Len(a) + (n - Len(a)) = n /\ (n - 1) - Len(a) = (n - Len(a)) - 1
        BY <1>3, <1>4, <2>3
      <3>2. f[n] = h[n - Len(a)] /\ (a \o b)[n] = b[n - Len(a)]
        <4>1. (a \o b)[Len(a) + (n - Len(a))] = b[n - Len(a)]
          BY <3>1, TextsJoin
        <4>2. QED
          BY <2>1, <2>3, <3>1, <4>1
      <3>3. f[n - 1] = h[(n - Len(a)) - 1]
        <4>1. CASE n - 1 = Len(a)
          <5>1. (n - Len(a)) - 1 = 0
            BY <1>3, <4>1
          <5>2. QED
            BY <1>1, <1>2, <2>1, <4>1, <5>1
        <4>2. CASE n - 1 # Len(a)
          <5>1. ~(n - 1 <= Len(a))
            BY <1>3, <2>3, <4>2
          <5>2. QED
            BY <2>1, <3>1, <5>1
        <4>3. QED
          BY <4>1, <4>2
      <3>4. h[n - Len(a)] = step[<<h[(n - Len(a)) - 1], b[n - Len(a)]>>]
        BY <1>2, <3>1
      <3>5. QED
        BY <3>2, <3>3, <3>4
    <2>4. QED
      BY <2>2, <2>3
  <1> HIDE DEF f
  <1>8. QED
    BY <1>5, <1>6, <1>7 DEF Runs

(***************************************************************************)
(* Comments.                                                               *)
(***************************************************************************)

Reading == [in : {"code", "line", "block"}, out : Texts]
skip == [p \in Reading \X Tokens |-> Skip(p[1], p[2])]
At(place, out) == [in |-> place, out |-> out]

CommentMarks == {"//", "/*", "*/", "\n"}

LEMMA SkipIs ==
  /\ skip \in [Reading \X Tokens -> Reading]
  /\ \A out \in Texts, c \in Tokens :
       /\ At("code", out) \in Reading
       /\ At("line", out) \in Reading /\ At("block", out) \in Reading
       /\ c \notin {"//", "/*"} => skip[<<At("code", out), c>>] = At("code", out \o <<c>>)
       /\ skip[<<At("code", out), "//">>] = At("line", out)
       /\ skip[<<At("code", out), "/*">>] = At("block", out)
       /\ c # "\n" => skip[<<At("line", out), c>>] = At("line", out)
       /\ skip[<<At("line", out), "\n">>] = At("code", out \o <<"\n">>)
       /\ c # "*/" => skip[<<At("block", out), c>>] = At("block", out)
       /\ skip[<<At("block", out), "*/">>] = At("code", out)
  <1>1. CommentMarks \subseteq Tokens
    BY DEF CommentMarks, Tokens, Words, Punctuation
  <1>2. ASSUME NEW out \in Texts, NEW c \in Tokens
        PROVE  /\ Skip(At("block", out), c) = IF c = "*/" THEN At("code", out) ELSE At("block", out)
               /\ Skip(At("line", out), c) = IF c = "\n" THEN At("code", Append(out, c)) ELSE At("line", out)
               /\ Skip(At("code", out), c) = IF c = "//" THEN At("line", out)
                                            ELSE IF c = "/*" THEN At("block", out)
                                            ELSE At("code", Append(out, c))
    BY DEF Skip, At
  <1>3. \A out \in Texts, c \in Tokens : Append(out, c) \in Texts /\ Append(out, c) = out \o <<c>>
    BY AppendProperties, AppendIsConcat DEF Texts
  <1>4. ASSUME NEW state \in Reading, NEW c \in Tokens
        PROVE  /\ state.in \in {"code", "line", "block"} /\ state.out \in Texts
               /\ state = At(state.in, state.out)
    BY DEF Reading, At
  <1>5. ASSUME NEW state \in Reading, NEW c \in Tokens
        PROVE  Skip(state, c) \in Reading
    <2>1. PICK place \in {"code", "line", "block"}, out \in Texts : state = At(place, out)
      BY <1>4
    <2>2. Append(out, c) \in Texts
      BY <1>3
    <2>3. QED
      <3>1. \A p \in {"code", "line", "block"}, o \in Texts : At(p, o) \in Reading
        BY DEF Reading, At
      <3>2. place = "code" \/ place = "line" \/ place = "block"
        OBVIOUS
      <3>3. QED
        BY <1>2, <2>1, <2>2, <3>1, <3>2
  <1>6. skip \in [Reading \X Tokens -> Reading]
    BY <1>5 DEF skip
  <1>7. ASSUME NEW place \in {"code", "line", "block"}, NEW out \in Texts, NEW c \in Tokens
        PROVE  /\ At(place, out) \in Reading
               /\ skip[<<At(place, out), c>>] = Skip(At(place, out), c)
    <2>1. At(place, out) \in Reading
      BY DEF Reading, At
    <2>2. <<At(place, out), c>> \in Reading \X Tokens
      BY <2>1
    <2>3. QED
      BY <2>1, <2>2 DEF skip
  <1>8. ASSUME NEW out \in Texts, NEW c \in Tokens
        PROVE  /\ At("code", out) \in Reading
               /\ At("line", out) \in Reading /\ At("block", out) \in Reading
               /\ c \notin {"//", "/*"} => skip[<<At("code", out), c>>] = At("code", out \o <<c>>)
               /\ skip[<<At("code", out), "//">>] = At("line", out)
               /\ skip[<<At("code", out), "/*">>] = At("block", out)
               /\ c # "\n" => skip[<<At("line", out), c>>] = At("line", out)
               /\ skip[<<At("line", out), "\n">>] = At("code", out \o <<"\n">>)
               /\ c # "*/" => skip[<<At("block", out), c>>] = At("block", out)
               /\ skip[<<At("block", out), "*/">>] = At("code", out)
    <2>1. "//" \in Tokens /\ "/*" \in Tokens /\ "*/" \in Tokens /\ "\n" \in Tokens
      BY <1>1 DEF CommentMarks
    <2>2. /\ At("code", out) \in Reading
          /\ At("line", out) \in Reading /\ At("block", out) \in Reading
      BY <1>7
    <2>3. ASSUME NEW d \in Tokens
          PROVE  /\ skip[<<At("block", out), d>>] = IF d = "*/" THEN At("code", out) ELSE At("block", out)
                 /\ skip[<<At("line", out), d>>] = IF d = "\n" THEN At("code", out \o <<d>>) ELSE At("line", out)
                 /\ skip[<<At("code", out), d>>] = IF d = "//" THEN At("line", out)
                                                  ELSE IF d = "/*" THEN At("block", out)
                                                  ELSE At("code", out \o <<d>>)
      <3>1. Append(out, d) = out \o <<d>>
        BY <1>3
      <3>2. skip[<<At("block", out), d>>] = IF d = "*/" THEN At("code", out) ELSE At("block", out)
        <4>1. skip[<<At("block", out), d>>] = Skip(At("block", out), d)
          BY <1>7
        <4>2. QED
          BY <1>2, <4>1
      <3>3. skip[<<At("line", out), d>>] = IF d = "\n" THEN At("code", out \o <<d>>) ELSE At("line", out)
        <4>1. skip[<<At("line", out), d>>] = Skip(At("line", out), d)
          BY <1>7
        <4>2. Skip(At("line", out), d) = IF d = "\n" THEN At("code", Append(out, d)) ELSE At("line", out)
          BY <1>2
        <4>3. QED
          BY <3>1, <4>1, <4>2
      <3>4. skip[<<At("code", out), d>>] = IF d = "//" THEN At("line", out)
                                           ELSE IF d = "/*" THEN At("block", out)
                                           ELSE At("code", out \o <<d>>)
        <4>1. skip[<<At("code", out), d>>] = Skip(At("code", out), d)
          BY <1>7
        <4>2. Skip(At("code", out), d) = IF d = "//" THEN At("line", out)
                                         ELSE IF d = "/*" THEN At("block", out)
                                         ELSE At("code", Append(out, d))
          BY <1>2
        <4>3. QED
          BY <3>1, <4>1, <4>2
      <3>5. QED
        BY <3>2, <3>3, <3>4
    <2>4. QED
      BY <2>1, <2>2, <2>3
  <1>9. QED
    BY <1>6, <1>8

\* Code is kept.
LEMMA CodeIsKept ==
  ASSUME NEW text \in Texts, ~Contains(text, "//"), ~Contains(text, "/*"), NEW out \in Texts
  PROVE  Runs(Reading, skip, text, At("code", out), At("code", out \o text))
  <1> DEFINE g == [i \in 0 .. Len(text) |-> At("code", out \o SubSeq(text, 1, i))]
  <1>1. Len(text) \in Nat /\ \A i \in 1 .. Len(text) : text[i] \in Tokens
    BY TextsAre
  <1>2. ASSUME NEW i \in 0 .. Len(text)
        PROVE  SubSeq(text, 1, i) \in Texts /\ out \o SubSeq(text, 1, i) \in Texts
    <2>1. i \in Int /\ i <= Len(text)
      BY <1>1
    <2>2. SubSeq(text, 1, i) \in Texts
      BY <2>1, PieceIs
    <2>3. QED
      BY <2>2, TextsJoin
  <1>3. g \in [0 .. Len(text) -> Reading]
    <2>1. ASSUME NEW i \in 0 .. Len(text)
          PROVE  At("code", out \o SubSeq(text, 1, i)) \in Reading
      <3>1. out \o SubSeq(text, 1, i) \in Texts
        BY <1>2
      <3>2. "//" \in Tokens
        BY DEF Tokens, Words, Punctuation
      <3>3. QED
        BY <3>1, <3>2, SkipIs
    <2>2. QED
      BY <2>1
  <1>4. g[0] = At("code", out)
    <2>1. SubSeq(text, 1, 0) = <<>>
      BY SubSeqEmpty
    <2>2. out \o <<>> = out
      BY TextsAre
    <2>3. g[0] = At("code", out \o SubSeq(text, 1, 0))
      BY <1>1
    <2>4. QED
      BY <2>1, <2>2, <2>3
  <1>5. g[Len(text)] = At("code", out \o text)
    <2>1. SubSeq(text, 1, Len(text)) = text
      BY SubSeqFull DEF Texts
    <2>2. g[Len(text)] = At("code", out \o SubSeq(text, 1, Len(text)))
      BY <1>1
    <2>3. QED
      BY <2>1, <2>2
  <1>6. ASSUME NEW n \in 1 .. Len(text)
        PROVE  g[n] = skip[<<g[n - 1], text[n]>>]
    <2>1. n - 1 \in 0 .. Len(text) /\ n \in 0 .. Len(text) /\ text[n] \in Tokens
      BY <1>1
    <2>2. text[n] \notin {"//", "/*"}
      BY DEF Contains
    <2>3. SubSeq(text, 1, n) = SubSeq(text, 1, n - 1) \o <<text[n]>>
      <3>1. 1 \in 1 .. Len(text) /\ n \in 1 .. Len(text)
        BY <1>1
      <3>2. QED
        BY <3>1, SubSeqRecursiveSecond DEF Texts
    <2>4. skip[<<At("code", out \o SubSeq(text, 1, n - 1)), text[n]>>] =
            At("code", (out \o SubSeq(text, 1, n - 1)) \o <<text[n]>>)
      BY <1>2, <2>1, <2>2, SkipIs
    <2>5. (out \o SubSeq(text, 1, n - 1)) \o <<text[n]>> = out \o SubSeq(text, 1, n)
      <3>1. <<text[n]>> \in Texts
        BY <2>1, OneToken
      <3>2. SubSeq(text, 1, n - 1) \in Texts
        BY <1>2, <2>1
      <3>3. (out \o SubSeq(text, 1, n - 1)) \o <<text[n]>> = out \o (SubSeq(text, 1, n - 1) \o <<text[n]>>)
        BY <3>1, <3>2, TextsRegroup
      <3>4. QED
        BY <2>3, <3>3
    <2>6. QED
      BY <2>1, <2>4, <2>5
  <1> HIDE DEF g
  <1>7. QED
    BY <1>3, <1>4, <1>5, <1>6 DEF Runs

\* A comment is read to its end and no further.
LEMMA CommentRuns ==
  ASSUME NEW text \in Texts, NEW out \in Texts,
         NEW place \in {"line", "block"},
         IF place = "line" THEN ~Contains(text, "\n") ELSE ~Contains(text, "*/")
  PROVE  Runs(Reading, skip, text, At(place, out), At(place, out))
  <1> DEFINE g == [i \in 0 .. Len(text) |-> At(place, out)]
  <1>1. Len(text) \in Nat /\ \A i \in 1 .. Len(text) : text[i] \in Tokens
    BY TextsAre
  <1>2. g \in [0 .. Len(text) -> Reading]
    <2>1. "//" \in Tokens
      BY DEF Tokens, Words, Punctuation
    <2>2. At(place, out) \in Reading
      BY <2>1, SkipIs
    <2>3. QED
      BY <2>2
  <1>3. g[0] = At(place, out) /\ g[Len(text)] = At(place, out)
    BY <1>1
  <1>4. ASSUME NEW n \in 1 .. Len(text)
        PROVE  g[n] = skip[<<g[n - 1], text[n]>>]
    <2>1. n - 1 \in 0 .. Len(text) /\ n \in 0 .. Len(text) /\ text[n] \in Tokens
      BY <1>1
    <2>2. IF place = "line" THEN text[n] # "\n" ELSE text[n] # "*/"
      BY DEF Contains
    <2>3. skip[<<At(place, out), text[n]>>] = At(place, out)
      <3>1. CASE place = "line"
        BY <2>1, <2>2, <3>1, SkipIs
      <3>2. CASE place = "block"
        BY <2>1, <2>2, <3>2, SkipIs
      <3>3. QED
        BY <3>1, <3>2
    <2>4. QED
      BY <2>1, <2>3
  <1> HIDE DEF g
  <1>5. QED
    BY <1>2, <1>3, <1>4 DEF Runs

LEMMA WithoutCommentsIs ==
  ASSUME NEW text \in Texts, NEW e, Runs(Reading, skip, text, At("code", <<>>), e)
  PROVE  without_comments(text) = e.out
  <1> DEFINE Solves(r) == r = [i \in 0 .. Len(text) |->
                                 IF i = 0 THEN [in |-> "code", out |-> <<>>]
                                 ELSE Skip(r[i - 1], text[i])]
  <1>1. PICK g \in [0 .. Len(text) -> Reading] :
          /\ g[0] = At("code", <<>>) /\ g[Len(text)] = e
          /\ \A n \in 1 .. Len(text) : g[n] = skip[<<g[n - 1], text[n]>>]
    BY DEF Runs
  <1>2. Len(text) \in Nat /\ \A i \in 1 .. Len(text) : text[i] \in Tokens
    BY TextsAre
  <1>3. \A n \in 1 .. Len(text) : g[n] = Skip(g[n - 1], text[n])
    <2>1. ASSUME NEW n \in 1 .. Len(text)
          PROVE  g[n] = Skip(g[n - 1], text[n])
      <3>1. n - 1 \in 0 .. Len(text) /\ text[n] \in Tokens
        BY <1>2
      <3>2. <<g[n - 1], text[n]>> \in Reading \X Tokens
        BY <3>1
      <3>3. QED
        BY <1>1, <3>2 DEF skip
    <2>2. QED
      BY <2>1
  <1>4. Solves(g)
    <2>1. ASSUME NEW i \in 0 .. Len(text)
          PROVE  g[i] = IF i = 0 THEN [in |-> "code", out |-> <<>>] ELSE Skip(g[i - 1], text[i])
      <3>1. i = 0 \/ i \in 1 .. Len(text)
        BY <1>2
      <3>2. QED
        BY <1>1, <1>3, <3>1 DEF At
    <2>2. QED
      BY <2>1
  <1> DEFINE read == CHOOSE r : Solves(r)
  <1>5. Solves(read)
    <2> HIDE DEF Solves
    <2>1. QED
      BY <1>4
  <1>6. \A i \in 0 .. Len(text) : read[i] = IF i = 0 THEN [in |-> "code", out |-> <<>>] ELSE Skip(read[i - 1], text[i])
    <2> HIDE DEF read
    <2>1. QED
      BY <1>5
  <1>7. without_comments(text) = read[Len(text)].out
    BY DEF without_comments
  <1> HIDE DEF read, Solves
  <1> DEFINE P == [n \in 0 .. Len(text) |-> read[n] = g[n]]
  <1>8. P \in [0 .. Len(text) -> BOOLEAN] /\ P[0]
    <2>1. 0 \in 0 .. Len(text)
      BY <1>2
    <2>2. read[0] = g[0]
      BY <1>1, <1>6, <2>1 DEF At
    <2>3. P[0] = (read[0] = g[0])
      BY <2>1
    <2>4. QED
      BY <2>2, <2>3
  <1>9. ASSUME NEW n \in 0 .. Len(text), n < Len(text), P[n]
        PROVE  P[n + 1]
    <2>1. n + 1 \in 1 .. Len(text) /\ n + 1 \in 0 .. Len(text) /\ (n + 1) - 1 = n /\ n + 1 # 0
      BY <1>2, <1>9
    <2>2. read[n] = g[n]
      BY <1>9
    <2>3. read[n + 1] = Skip(read[n], text[n + 1])
      BY <1>6, <2>1
    <2>4. g[n + 1] = Skip(g[n], text[n + 1])
      BY <1>3, <2>1
    <2>5. QED
      BY <2>1, <2>2, <2>3, <2>4
  <1>10. \A n \in 0 .. Len(text) : P[n]
    <2> HIDE DEF P
    <2>1. QED
      BY <1>2, <1>8, <1>9, UpTo
  <1>11. Len(text) \in 0 .. Len(text)
    BY <1>2
  <1>12. QED
    BY <1>1, <1>7, <1>10, <1>11

(***************************************************************************)
(* The loop over the declarations of a text.                               *)
(***************************************************************************)

Readings == {ToDeclaration(head, list, tail) : head \in Texts, list \in Texts, tail \in Texts}

LEMMA FromIs ==
  ASSUME NEW text \in Texts, NEW i \in Nat, i > 0
  PROVE  /\ From(text, i) \in Texts /\ Len(From(text, i)) <= Len(text)
         /\ i > 1 /\ text # <<>> => Len(From(text, i)) < Len(text)
  <1>1. Len(text) \in Nat /\ (text = <<>> <=> Len(text) = 0)
    BY TextsAre
  <1>2. /\ From(text, i) \in Texts
        /\ Len(From(text, i)) = (IF i <= Len(text) THEN Len(text) - i + 1 ELSE 0)
    BY <1>1, PieceIs DEF From
  <1>3. QED
    BY <1>1, <1>2

\* A turn leaves less than there was.
LEMMA TurnShortens ==
  ASSUME NEW text \in Texts, text # <<>>, NEW keyword
  PROVE  /\ Turn(text, keyword).rest \in Texts
         /\ Len(Turn(text, keyword).rest) < Len(text)
         /\ Turn(text, keyword).found \in Seq(Readings)
  <1> DEFINE after == From(text, Find(text, keyword) + 1)
             open == Find(after, "(")
             close == Find(after, ")")
             past == From(after, close + 1)
             semicolon == Find(past, Semicolon)
             head == SubSeq(after, 1, open - 1)
             list == SubSeq(after, open + 1, close - 1)
             tail == SubSeq(past, 1, semicolon - 1)
  <1>1. Turn(text, keyword) =
          IF ~Contains(text, keyword) \/ open = 0 \/ close = 0 THEN [found |-> <<>>, rest |-> <<>>]
          ELSE IF close < open THEN [found |-> <<>>, rest |-> after]
          ELSE IF ~Identifier(NameOf(head))
               THEN [found |-> <<>>, rest |-> From(after, close)]
          ELSE [found |-> <<ToDeclaration(head, list, tail)>>,
                rest |-> IF semicolon = 0 THEN past ELSE From(past, semicolon)]
    BY DEF Turn
  <1>2. Len(text) \in Nat /\ Len(text) > 0
    BY TextsAre
  <1>3. <<>> \in Texts /\ Len(<<>>) = 0 /\ <<>> \in Seq(Readings)
    BY TextsAre
  <1>4. CASE ~Contains(text, keyword) \/ open = 0 \/ close = 0
    <2>1. Turn(text, keyword).found = <<>> /\ Turn(text, keyword).rest = <<>>
      <3> HIDE DEF after, open, close, past, semicolon, head, list, tail
      <3>1. QED
        BY <1>1, <1>4
    <2>2. QED
      BY <1>2, <1>3, <2>1
  <1>5. CASE Contains(text, keyword) /\ open # 0 /\ close # 0
    <2>1. Find(text, keyword) \in 1 .. Len(text)
      BY <1>5, FindIs
    <2>2. after \in Texts /\ Len(after) < Len(text)
      BY <1>2, <2>1, FromIs
    <2> HIDE DEF after
    <2>3. open \in 1 .. Len(after) /\ close \in 1 .. Len(after) /\ Len(after) \in Nat
      BY <1>5, <2>2, FindIs, TextsAre
    <2> HIDE DEF open, close
    <2>4. past \in Texts /\ Len(past) <= Len(after)
      BY <2>2, <2>3, FromIs
    <2>5. From(after, close) \in Texts /\ Len(From(after, close)) <= Len(after)
      BY <2>2, <2>3, FromIs
    <2> HIDE DEF past
    <2>6. semicolon \in 0 .. Len(past) /\ Len(past) \in Nat
      BY <2>4, FindIs, TextsAre
    <2> HIDE DEF semicolon
    <2>7. semicolon # 0 => From(past, semicolon) \in Texts /\ Len(From(past, semicolon)) <= Len(past)
      BY <2>4, <2>6, FromIs
    <2>8. CASE close < open
      <3>1. Turn(text, keyword).found = <<>> /\ Turn(text, keyword).rest = after
        BY <1>1, <1>5, <2>8
      <3>2. QED
        BY <1>3, <2>2, <3>1
    <2>9. CASE ~(close < open) /\ ~Identifier(NameOf(head))
      <3>1. Turn(text, keyword).found = <<>> /\ Turn(text, keyword).rest = From(after, close)
        BY <1>1, <1>5, <2>9
      <3>2. Len(From(after, close)) \in Nat
        BY <2>5, TextsAre
      <3>3. QED
        BY <1>2, <1>3, <2>2, <2>3, <2>5, <3>1, <3>2
    <2>10. CASE ~(close < open) /\ Identifier(NameOf(head))
      <3>1. /\ Turn(text, keyword).found = <<ToDeclaration(head, list, tail)>>
            /\ Turn(text, keyword).rest = IF semicolon = 0 THEN past ELSE From(past, semicolon)
        BY <1>1, <1>5, <2>10
      <3>2. head \in Texts /\ list \in Texts /\ tail \in Texts
        BY <2>2, <2>3, <2>4, <2>6, PieceIs
      <3>3. <<ToDeclaration(head, list, tail)>> \in Seq(Readings)
        <4>1. ToDeclaration(head, list, tail) \in Readings
          BY <3>2 DEF Readings
        <4>2. QED
          BY <4>1
      <3>4. semicolon # 0 => Len(From(past, semicolon)) \in Nat
        BY <2>7, TextsAre
      <3>5. QED
        BY <1>2, <2>2, <2>3, <2>4, <2>6, <2>7, <3>1, <3>3, <3>4
    <2>11. QED
      BY <2>8, <2>9, <2>10
  <1>6. QED
    BY <1>4, <1>5

\* What the loop finds, as a function f has it.
Found(f, keyword, text) ==
  IF text = <<>> THEN <<>>
  ELSE Turn(text, keyword).found \o f[Turn(text, keyword).rest]
Short(n) == {text \in Texts : Len(text) <= n}
Finds(f, keyword, n) == f = [text \in Short(n) |-> Found(f, keyword, text)]

LEMMA ShortFinds ==
  ASSUME NEW keyword
  PROVE  \A n \in Nat : \E f : Finds(f, keyword, n)
  <1> DEFINE K == {n \in Nat : \E f : Finds(f, keyword, n)}
  <1>1. 0 \in K
    <2> DEFINE f == [text \in Short(0) |-> <<>>]
    <2>1. ASSUME NEW text \in Short(0)
          PROVE  Found(f, keyword, text) = <<>>
      <3>1. text \in Texts /\ Len(text) <= 0
        BY DEF Short
      <3>2. text = <<>>
        BY <3>1, TextsAre
      <3>3. QED
        BY <3>2 DEF Found
    <2>2. f = [text \in Short(0) |-> Found(f, keyword, text)]
      BY <2>1
    <2>3. QED
      BY <2>2 DEF Finds
  <1>2. ASSUME NEW n \in K
        PROVE  n + 1 \in K
    <2>1. n \in Nat
      OBVIOUS
    <2>2. PICK f : Finds(f, keyword, n)
      OBVIOUS
    <2> DEFINE h == [text \in Short(n + 1) |-> Found(f, keyword, text)]
    <2>3. \A text \in Short(n) : f[text] = Found(f, keyword, text)
      BY <2>2 DEF Finds
    <2>4. ASSUME NEW text \in Short(n + 1)
          PROVE  Found(f, keyword, text) = Found(h, keyword, text)
      <3>1. CASE text = <<>>
        BY <3>1 DEF Found
      <3>2. CASE text # <<>>
        <4> DEFINE rest == Turn(text, keyword).rest
        <4>1. text \in Texts /\ Len(text) <= n + 1 /\ Len(text) \in Nat
          BY TextsAre DEF Short
        <4>2. rest \in Texts /\ Len(rest) < Len(text) /\ Len(rest) \in Nat
          BY <3>2, <4>1, TurnShortens, TextsAre
        <4>3. rest \in Short(n) /\ rest \in Short(n + 1)
          <5>1. Len(rest) <= n /\ Len(rest) <= n + 1
            BY <2>1, <4>1, <4>2
          <5>2. QED
            BY <4>2, <5>1 DEF Short
        <4>4. h[rest] = f[rest]
          BY <2>3, <4>3
        <4>5. QED
          BY <3>2, <4>4 DEF Found
      <3>3. QED
        BY <3>1, <3>2
    <2>5. h = [text \in Short(n + 1) |-> Found(h, keyword, text)]
      BY <2>4
    <2>6. Finds(h, keyword, n + 1)
      BY <2>5 DEF Finds
    <2>7. QED
      BY <2>1, <2>6
  <1>3. K \in SUBSET Nat
    OBVIOUS
  <1>4. K = Nat
    <2> HIDE DEF K
    <2>1. QED
      BY <1>1, <1>2, <1>3, EveryNumber
  <1>5. QED
    BY <1>4

\* Two that find, find the same.
LEMMA FindsTheSame ==
  ASSUME NEW keyword, NEW f, NEW g, NEW m \in Nat, NEW n \in Nat,
         Finds(f, keyword, m), Finds(g, keyword, n)
  PROVE  \A text \in Short(m) \cap Short(n) : f[text] = g[text]
  <1> DEFINE K == {k \in Nat : \A text \in Short(m) \cap Short(n) : Len(text) <= k => f[text] = g[text]}
  <1>1. /\ \A text \in Short(m) : f[text] = Found(f, keyword, text)
        /\ \A text \in Short(n) : g[text] = Found(g, keyword, text)
    BY DEF Finds
  <1>2. 0 \in K
    <2>1. ASSUME NEW text \in Short(m) \cap Short(n), Len(text) <= 0
          PROVE  f[text] = g[text]
      <3>1. text = <<>>
        BY <2>1, TextsAre DEF Short
      <3>2. Found(f, keyword, text) = <<>> /\ Found(g, keyword, text) = <<>>
        BY <3>1 DEF Found
      <3>3. QED
        BY <1>1, <3>2
    <2>2. QED
      BY <2>1
  <1>3. ASSUME NEW k \in K
        PROVE  k + 1 \in K
    <2>1. k \in Nat /\ \A text \in Short(m) \cap Short(n) : Len(text) <= k => f[text] = g[text]
      OBVIOUS
    <2>2. ASSUME NEW text \in Short(m) \cap Short(n), Len(text) <= k + 1
          PROVE  f[text] = g[text]
      <3>1. f[text] = Found(f, keyword, text) /\ g[text] = Found(g, keyword, text)
        BY <1>1
      <3>2. CASE text = <<>>
        BY <3>1, <3>2 DEF Found
      <3>3. CASE text # <<>>
        <4> DEFINE rest == Turn(text, keyword).rest
        <4>1. text \in Texts /\ Len(text) \in Nat /\ Len(text) <= m /\ Len(text) <= n
          BY TextsAre DEF Short
        <4>2. rest \in Texts /\ Len(rest) < Len(text) /\ Len(rest) \in Nat
          BY <3>3, <4>1, TurnShortens, TextsAre
        <4>3. rest \in Short(m) \cap Short(n)
          <5>1. Len(rest) <= m /\ Len(rest) <= n
            BY <4>1, <4>2
          <5>2. QED
            BY <4>2, <5>1 DEF Short
        <4>4. Len(rest) <= k
          BY <2>1, <2>2, <4>1, <4>2
        <4>5. f[rest] = g[rest]
          BY <2>1, <4>3, <4>4
        <4>6. QED
          BY <3>1, <3>3, <4>5 DEF Found
      <3>4. QED
        BY <3>2, <3>3
    <2>3. QED
      BY <2>1, <2>2
  <1>4. K \in SUBSET Nat
    OBVIOUS
  <1>5. K = Nat
    <2> HIDE DEF K
    <2>1. QED
      BY <1>2, <1>3, <1>4, EveryNumber
  <1>6. ASSUME NEW text \in Short(m) \cap Short(n)
        PROVE  f[text] = g[text]
    <2>1. Len(text) \in Nat /\ Len(text) <= Len(text)
      BY TextsAre DEF Short
    <2>2. Len(text) \in K
      BY <1>5, <2>1
    <2>3. QED
      BY <2>1, <2>2
  <1>7. QED
    BY <1>6

\* The loop is what one turn finds, and what the loop finds in the rest.
LEMMA DeclarationsAre ==
  ASSUME NEW keyword
  PROVE  /\ parse_declarations(<<>>, keyword) = <<>>
         /\ \A text \in Texts :
              /\ parse_declarations(text, keyword) \in Seq(Readings)
              /\ text # <<>> =>
                   parse_declarations(text, keyword) =
                     Turn(text, keyword).found \o parse_declarations(Turn(text, keyword).rest, keyword)
  <1> DEFINE Solves(f) == f = [rest \in Texts |->
                                 IF rest = <<>> THEN <<>>
                                 ELSE Turn(rest, keyword).found \o f[Turn(rest, keyword).rest]]
             some(n) == CHOOSE f : Finds(f, keyword, n)
             whole == [text \in Texts |-> some(Len(text))[text]]
  <1>1. \A n \in Nat : Finds(some(n), keyword, n)
    BY ShortFinds
  <1> HIDE DEF some
  <1>2. ASSUME NEW text \in Texts
        PROVE  whole[text] = IF text = <<>> THEN <<>>
                             ELSE Turn(text, keyword).found \o whole[Turn(text, keyword).rest]
    <2> DEFINE n == Len(text)
               rest == Turn(text, keyword).rest
    <2>1. n \in Nat /\ text \in Short(n)
      BY TextsAre DEF Short
    <2>2. Finds(some(n), keyword, n)
      BY <1>1, <2>1
    <2>3. some(n)[text] = Found(some(n), keyword, text)
      BY <2>1, <2>2 DEF Finds
    <2>4. CASE text = <<>>
      BY <2>3, <2>4 DEF Found
    <2>5. CASE text # <<>>
      <3>1. rest \in Texts /\ Len(rest) < n /\ Len(rest) \in Nat
        BY <2>5, TurnShortens, TextsAre
      <3>2. rest \in Short(n) /\ rest \in Short(Len(rest))
        BY <2>1, <3>1 DEF Short
      <3>3. some(n)[rest] = some(Len(rest))[rest]
        BY <1>1, <2>1, <2>2, <3>1, <3>2, FindsTheSame
      <3>4. whole[rest] = some(n)[rest]
        BY <3>1, <3>3
      <3>5. QED
        BY <2>3, <2>5, <3>4 DEF Found
    <2>6. QED
      BY <2>4, <2>5
  <1>3. Solves(whole)
    <2>1. whole = [text \in Texts |-> whole[text]]
      OBVIOUS
    <2> HIDE DEF whole
    <2>2. QED
      BY <1>2, <2>1
  <1> DEFINE declarations == CHOOSE f : Solves(f)
  <1>4. Solves(declarations)
    <2> HIDE DEF Solves
    <2>1. QED
      BY <1>3
  <1>5. ASSUME NEW text \in Texts
        PROVE  declarations[text] = IF text = <<>> THEN <<>>
                                    ELSE Turn(text, keyword).found \o declarations[Turn(text, keyword).rest]
    <2> HIDE DEF declarations
    <2>1. QED
      BY <1>4
  <1>6. \A text : parse_declarations(text, keyword) = declarations[text]
    BY DEF parse_declarations, Texts
  <1> HIDE DEF declarations, Solves, whole
  <1> DEFINE K == {k \in Nat : \A text \in Texts : Len(text) <= k => declarations[text] \in Seq(Readings)}
  <1>7. 0 \in K
    <2>1. ASSUME NEW text \in Texts, Len(text) <= 0
          PROVE  declarations[text] \in Seq(Readings)
      <3>1. text = <<>>
        BY <2>1, TextsAre
      <3>2. declarations[text] = <<>>
        BY <1>5, <3>1
      <3>3. QED
        BY <3>2
    <2>2. QED
      BY <2>1
  <1>8. ASSUME NEW k \in K
        PROVE  k + 1 \in K
    <2>1. k \in Nat /\ \A text \in Texts : Len(text) <= k => declarations[text] \in Seq(Readings)
      OBVIOUS
    <2>2. ASSUME NEW text \in Texts, Len(text) <= k + 1
          PROVE  declarations[text] \in Seq(Readings)
      <3>1. CASE text = <<>>
        <4>1. declarations[text] = <<>>
          BY <1>5, <3>1
        <4>2. QED
          BY <4>1
      <3>2. CASE text # <<>>
        <4> DEFINE rest == Turn(text, keyword).rest
        <4>1. rest \in Texts /\ Len(rest) < Len(text) /\ Turn(text, keyword).found \in Seq(Readings)
          BY <3>2, TurnShortens
        <4>2. Len(rest) \in Nat /\ Len(text) \in Nat
          BY <4>1, TextsAre
        <4>3. declarations[rest] \in Seq(Readings)
          BY <2>1, <2>2, <4>1, <4>2
        <4>4. declarations[text] = Turn(text, keyword).found \o declarations[rest]
          BY <1>5, <3>2
        <4>5. QED
          BY <4>1, <4>3, <4>4, ConcatProperties
      <3>3. QED
        BY <3>1, <3>2
    <2>3. QED
      BY <2>1, <2>2
  <1>9. K \in SUBSET Nat
    OBVIOUS
  <1>10. K = Nat
    <2> HIDE DEF K
    <2>1. QED
      BY <1>7, <1>8, <1>9, EveryNumber
  <1>11. ASSUME NEW text \in Texts
         PROVE  declarations[text] \in Seq(Readings)
    <2>1. Len(text) \in Nat /\ Len(text) <= Len(text)
      BY TextsAre
    <2>2. Len(text) \in K
      BY <1>10, <2>1
    <2>3. QED
      BY <2>1, <2>2
  <1>12. declarations[<<>>] = <<>>
    BY <1>5, TextsAre
  <1>13. QED
    BY <1>5, <1>6, <1>11, <1>12

LEMMA ContainsIn ==
  ASSUME NEW c, NEW token
  PROVE  Contains(One(c), token) <=> c = token
  BY DEF Contains, One

LEMMA ContainsCat ==
  ASSUME NEW a \in Texts, NEW b \in Texts, NEW token
  PROVE  Contains(a ++ b, token) <=> Contains(a, token) \/ Contains(b, token)
  BY ContainsBoth DEF ++

LEMMA TakeApart ==
  ASSUME NEW text \in Texts, NEW token \in Tokens, Contains(text, token)
  PROVE  \E before, behind \in Texts :
           ~Contains(before, token) /\ text = before ++ (One(token) ++ behind)
  <1> DEFINE f == Find(text, token)
             before == SubSeq(text, 1, f - 1)
             behind == From(text, f + 1)
  <1>1. f \in 1 .. Len(text) /\ text[f] = token /\ \A i \in 1 .. f - 1 : text[i] # token
    BY FindIs
  <1>2. Len(text) \in Nat
    BY TextsAre
  <1>3. before \in Texts /\ Len(before) = f - 1 /\ \A i \in 1 .. f - 1 : before[i] = text[i]
    <2> HIDE DEF f
    <2>1. f - 1 \in Int /\ f - 1 <= Len(text)
      BY <1>1, <1>2
    <2>2. before \in Texts /\ Len(before) = f - 1
      BY <1>1, <1>2, <2>1, PieceIs
    <2>3. \A i \in 1 .. f - 1 : text[i] \in Tokens
      BY <1>1, <1>2, TextsAre
    <2>4. \A i \in 1 .. (f - 1) - 1 + 1 : before[i] = text[1 + i - 1]
      BY <2>1, <2>3, SubSeqProperties
    <2>5. QED
      BY <1>1, <1>2, <2>2, <2>4
  <1>4. ~Contains(before, token)
    BY <1>1, <1>3 DEF Contains
  <1>5. behind \in Texts
    BY <1>1, <1>2, FromIs
  <1>6. text = before ++ (One(token) ++ behind)
    <2>1. 1 \in 1 .. Len(text) + 1 /\ f \in 1 - 1 .. Len(text) /\ Len(text) \in f .. Len(text)
      BY <1>1, <1>2
    <2>2. SubSeq(text, 1, f) \o SubSeq(text, f + 1, Len(text)) = SubSeq(text, 1, Len(text))
      BY <2>1, ConcatAdjacentSubSeq DEF Texts
    <2>3. SubSeq(text, 1, f) = SubSeq(text, 1, f - 1) \o <<text[f]>>
      <3>1. 1 \in 1 .. Len(text) /\ f \in 1 .. Len(text)
        BY <1>1, <1>2
      <3>2. QED
        BY <3>1, SubSeqRecursiveSecond DEF Texts
    <2>4. SubSeq(text, 1, Len(text)) = text
      BY SubSeqFull DEF Texts
    <2>5. text = (before ++ One(token)) ++ behind
      BY <1>1, <2>2, <2>3, <2>4 DEF From, ++, One
    <2>6. One(token) \in Texts
      BY OneIs
    <2> HIDE DEF before, behind, f
    <2>7. (before ++ One(token)) ++ behind = before ++ (One(token) ++ behind)
      BY <1>3, <1>5, <2>6, CatRegroups
    <2>8. QED
      BY <2>5, <2>7
  <1>7. QED
    BY <1>3, <1>4, <1>5, <1>6

\* A turn depends on what is behind the keyword.
LEMMA TurnsAlike ==
  ASSUME NEW a, NEW b, NEW keyword, Contains(a, keyword), Contains(b, keyword),
         From(a, Find(a, keyword) + 1) = From(b, Find(b, keyword) + 1)
  PROVE  Turn(a, keyword) = Turn(b, keyword)
  BY DEF Turn

\* What has no keyword in it does not change what is read behind it.
LEMMA NothingIsRead ==
  ASSUME NEW keyword \in Tokens, NEW a \in Texts, ~Contains(a, keyword), NEW rest \in Texts
  PROVE  parse_declarations(a ++ rest, keyword) = parse_declarations(rest, keyword)
  <1>1. a ++ rest \in Texts
    BY CatIs
  <1>2. CASE Contains(rest, keyword)
    <2>1. PICK before \in Texts, behind \in Texts :
            ~Contains(before, keyword) /\ rest = before ++ (One(keyword) ++ behind)
      BY <1>2, TakeApart
    <2>2. One(keyword) ++ behind \in Texts
      BY OneIs, CatIs
    <2>3. a ++ rest = (a ++ before) ++ (One(keyword) ++ behind)
      BY <2>1, <2>2, CatRegroups
    <2>4. a ++ before \in Texts /\ ~Contains(a ++ before, keyword)
      BY <2>1, ContainsCat, CatIs
    <2>5. From(rest, Find(rest, keyword) + 1) = behind
      BY <2>1, AroundToken
    <2>6. /\ From(a ++ rest, Find(a ++ rest, keyword) + 1) = behind
          /\ Contains(a ++ rest, keyword)
      BY <2>3, <2>4, AroundToken
    <2>7. Turn(a ++ rest, keyword) = Turn(rest, keyword)
      BY <1>2, <2>5, <2>6, TurnsAlike
    <2>8. a ++ rest # <<>> /\ rest # <<>>
      BY <1>2, <2>6, ContainsNone
    <2>9. QED
      BY <1>1, <2>7, <2>8, DeclarationsAre
  <1>3. CASE ~Contains(rest, keyword)
    <2>1. ASSUME NEW text \in Texts, ~Contains(text, keyword)
          PROVE  parse_declarations(text, keyword) = <<>>
      <3>1. CASE text = <<>>
        BY <3>1, DeclarationsAre
      <3>2. CASE text # <<>>
        <4>1. Turn(text, keyword).found = <<>> /\ Turn(text, keyword).rest = <<>>
          BY <2>1 DEF Turn
        <4>2. parse_declarations(text, keyword) = <<>> \o parse_declarations(<<>>, keyword)
          BY <3>2, <4>1, DeclarationsAre
        <4>3. <<>> \o <<>> = <<>>
          OBVIOUS
        <4>4. QED
          BY <4>2, <4>3, DeclarationsAre
      <3>3. QED
        BY <3>1, <3>2
    <2>2. ~Contains(a ++ rest, keyword)
      BY <1>3, ContainsCat
    <2>3. QED
      BY <1>1, <1>3, <2>1, <2>2
  <1>4. QED
    BY <1>2, <1>3

LEMMA CutInside ==
  ASSUME NEW a \in Texts, NEW b \in Texts, NEW i \in Nat, i >= 1
  PROVE  SubSeq(a ++ b, i, Len(a)) = From(a, i)
  <1>1. Len(a) \in Nat /\ a ++ b \in Texts /\ Len(a ++ b) = Len(a) + Len(b) /\ Len(b) \in Nat
    BY TextsAre, CatIs
  <1>2. CASE i <= Len(a)
    <2>1. i \in 1 .. Len(a) /\ Len(a) \in 1 .. Len(a)
      BY <1>1, <1>2
    <2>2. SubSeq(a \o b, i, Len(a)) = SubSeq(a, i, Len(a))
      BY <2>1, SubSeqOfConcat1 DEF Texts
    <2>3. QED
      BY <2>2 DEF From, ++
  <1>3. CASE i > Len(a)
    <2>1. SubSeq(a ++ b, i, Len(a)) = <<>> /\ SubSeq(a, i, Len(a)) = <<>>
      BY <1>1, <1>3, SubSeqEmpty
    <2>2. QED
      BY <2>1 DEF From
  <1>4. QED
    BY <1>1, <1>2, <1>3

\* A declaration, with what is before, in and behind its parentheses.
DeclarationText(keyword, lead, inner, trail) ==
  One(keyword) ++ (lead ++ (One("(") ++ (inner ++ (One(")") ++ (trail ++ One(Semicolon))))))
HeadOK(lead) == /\ lead \in Texts /\ lead # <<>> /\ Identifier(NameOf(lead))
                /\ ~Contains(lead, "(") /\ ~Contains(lead, ")")

LEMMA OneIsRead ==
  ASSUME NEW keyword \in Tokens, keyword # Semicolon,
         NEW lead, HeadOK(lead),
         NEW inner \in Texts, ~Contains(inner, ")"),
         NEW trail \in Texts, ~Contains(trail, Semicolon),
         NEW rest \in Texts
  PROVE  /\ DeclarationText(keyword, lead, inner, trail) \in Texts
         /\ parse_declarations(DeclarationText(keyword, lead, inner, trail) ++ rest, keyword) =
              <<ToDeclaration(lead, inner, trail)>> \o parse_declarations(rest, keyword)
  <1> DEFINE end == One(Semicolon) ++ rest
             past == trail ++ end
             closed == One(")") ++ past
             inside == inner ++ closed
             after == lead ++ (One("(") ++ inside)
             text == One(keyword) ++ after
             upto == lead ++ (One("(") ++ inner)
  <1>1. /\ lead \in Texts /\ lead # <<>> /\ Identifier(NameOf(lead))
        /\ ~Contains(lead, "(") /\ ~Contains(lead, ")")
    BY DEF HeadOK
  <1>2. "(" \in Tokens /\ ")" \in Tokens /\ Semicolon \in Tokens
    BY DEF Tokens, Words, Punctuation, Brackets
  <1>3. One(keyword) \in Texts /\ One("(") \in Texts /\ One(")") \in Texts /\ One(Semicolon) \in Texts
    BY <1>2, OneIs
  <1>4. end \in Texts /\ past \in Texts /\ closed \in Texts /\ inside \in Texts /\ after \in Texts
    <2>1. end \in Texts
      BY <1>3, CatIs
    <2>2. past \in Texts
      BY <2>1, CatIs
    <2>3. closed \in Texts
      BY <1>3, <2>2, CatIs
    <2>4. inside \in Texts
      BY <2>3, CatIs
    <2>5. One("(") ++ inside \in Texts
      BY <1>3, <2>4, CatIs
    <2>6. after \in Texts
      BY <1>1, <2>5, CatIs
    <2>7. QED
      BY <2>1, <2>2, <2>3, <2>4, <2>6
  <1>5. upto \in Texts /\ One("(") ++ inner \in Texts
    BY <1>1, <1>3, CatIs
  <1>6. DeclarationText(keyword, lead, inner, trail) \in Texts
    <2>1. trail ++ One(Semicolon) \in Texts
      BY <1>3, CatIs
    <2>2. One(")") ++ (trail ++ One(Semicolon)) \in Texts
      BY <1>3, <2>1, CatIs
    <2>3. inner ++ (One(")") ++ (trail ++ One(Semicolon))) \in Texts
      BY <2>2, CatIs
    <2>4. One("(") ++ (inner ++ (One(")") ++ (trail ++ One(Semicolon)))) \in Texts
      BY <1>3, <2>3, CatIs
    <2>5. lead ++ (One("(") ++ (inner ++ (One(")") ++ (trail ++ One(Semicolon))))) \in Texts
      BY <1>1, <2>4, CatIs
    <2>6. QED
      BY <1>3, <2>5, CatIs DEF DeclarationText
  <1>7. DeclarationText(keyword, lead, inner, trail) ++ rest = text
    <2> DEFINE t1 == trail ++ One(Semicolon)
               t2 == One(")") ++ t1
               t3 == inner ++ t2
               t4 == One("(") ++ t3
               t5 == lead ++ t4
    <2>1. t1 \in Texts /\ t1 ++ rest = past
      BY <1>3, CatIs, CatRegroups
    <2>2. t2 \in Texts /\ t2 ++ rest = closed
      <3> HIDE DEF t1, past
      <3>1. QED
        BY <1>3, <2>1, CatIs, CatRegroups
    <2>3. t3 \in Texts /\ t3 ++ rest = inside
      <3> HIDE DEF t2, closed
      <3>1. QED
        BY <1>3, <2>2, CatIs, CatRegroups
    <2>4. t4 \in Texts /\ t4 ++ rest = One("(") ++ inside
      <3> HIDE DEF t3, inside
      <3>1. QED
        BY <1>3, <2>3, CatIs, CatRegroups
    <2>5. t5 \in Texts /\ t5 ++ rest = after
      <3> HIDE DEF t4
      <3>1. t5 \in Texts /\ t5 ++ rest = lead ++ (t4 ++ rest)
        BY <1>1, <2>4, CatIs, CatRegroups
      <3>2. QED
        BY <2>4, <3>1
    <2>6. (One(keyword) ++ t5) ++ rest = One(keyword) ++ (t5 ++ rest)
      <3> HIDE DEF t5
      <3>1. QED
        BY <1>3, <2>5, CatRegroups
    <2>7. DeclarationText(keyword, lead, inner, trail) = One(keyword) ++ t5
      BY DEF DeclarationText
    <2> HIDE DEF t5, after
    <2>8. QED
      BY <2>5, <2>6, <2>7 DEF text
  <1>8. Contains(text, keyword) /\ From(text, Find(text, keyword) + 1) = after /\ text \in Texts
    <2>1. <<>> \in Texts /\ ~Contains(<<>>, keyword)
      BY TextsAre, ContainsNone
    <2> HIDE DEF after
    <2>2. text \in Texts
      BY <1>3, <1>4, CatIs
    <2>3. text = <<>> ++ (One(keyword) ++ after)
      <3> HIDE DEF text
      <3>1. <<>> ++ text = text
        BY <2>2, CatIs
      <3>2. QED
        BY <3>1 DEF text
    <2>4. QED
      BY <1>4, <2>1, <2>2, <2>3, AroundToken
  <1>9. Find(after, "(") = Len(lead) + 1
    <2> HIDE DEF inside
    <2>1. QED
      BY <1>1, <1>2, <1>4, AroundToken
  <1>10. after = upto ++ closed /\ Len(upto) = Len(lead) + 1 + Len(inner)
    <2> HIDE DEF closed
    <2>1. One("(") ++ (inner ++ closed) = (One("(") ++ inner) ++ closed
      BY <1>3, <1>4, CatRegroups
    <2>2. lead ++ ((One("(") ++ inner) ++ closed) = (lead ++ (One("(") ++ inner)) ++ closed
      BY <1>1, <1>4, <1>5, CatRegroups
    <2>3. Len(One("(")) = 1 /\ Len(One("(") ++ inner) = 1 + Len(inner) /\ Len(upto) = Len(lead) + Len(One("(") ++ inner)
      <3>1. Len(One("(")) = 1
        BY <1>2, OneIs
      <3>2. Len(One("(") ++ inner) = Len(One("(")) + Len(inner)
        BY <1>3, CatIs
      <3>3. Len(upto) = Len(lead) + Len(One("(") ++ inner)
        BY <1>1, <1>5, CatIs
      <3>4. QED
        BY <3>1, <3>2, <3>3
    <2>4. Len(inner) \in Nat /\ Len(lead) \in Nat
      BY <1>1, TextsAre
    <2>5. QED
      BY <2>1, <2>2, <2>3, <2>4
  <1>11. ~Contains(upto, ")")
    <2>1. ~Contains(One("("), ")")
      BY ContainsIn
    <2>2. ~Contains(One("(") ++ inner, ")")
      BY <1>3, <2>1, ContainsCat
    <2>3. QED
      BY <1>1, <1>5, <2>2, ContainsCat
  <1>12. /\ Find(after, ")") = Len(upto) + 1
         /\ From(after, Find(after, ")") + 1) = past
    <2> HIDE DEF upto, past
    <2>1. after = upto ++ (One(")") ++ past)
      BY <1>10
    <2> HIDE DEF after
    <2>2. QED
      BY <1>2, <1>4, <1>5, <1>11, <2>1, AroundToken
  <1>13. SubSeq(after, Find(after, "(") + 1, Find(after, ")") - 1) = inner
    <2>1. Find(after, "(") + 1 = Len(lead) + 2 /\ Find(after, ")") - 1 = Len(upto)
      <3> HIDE DEF after, upto
      <3>1. Len(lead) \in Nat /\ Len(upto) \in Nat
        BY <1>1, <1>5, TextsAre
      <3>2. QED
        BY <1>9, <1>12, <3>1
    <2>2. SubSeq(upto ++ closed, Len(lead) + 2, Len(upto)) = From(upto, Len(lead) + 2)
      <3>1. Len(lead) \in Nat
        BY <1>1, TextsAre
      <3>2. Len(lead) + 2 \in Nat /\ Len(lead) + 2 >= 1
        BY <3>1
      <3> HIDE DEF upto, closed
      <3>3. QED
        BY <1>4, <1>5, <3>2, CutInside
    <2>3. From(upto, Len(lead) + 2) = inner
      <3>1. Find(upto, "(") = Len(lead) + 1 /\ From(upto, Find(upto, "(") + 1) = inner
        BY <1>1, <1>2, AroundToken
      <3>2. Len(lead) \in Nat /\ (Len(lead) + 1) + 1 = Len(lead) + 2
        BY <1>1, TextsAre
      <3> HIDE DEF upto
      <3>3. QED
        BY <3>1, <3>2
    <2> HIDE DEF upto, closed, after
    <2>4. QED
      BY <1>10, <2>1, <2>2, <2>3
  <1>14. SubSeq(after, 1, Find(after, "(") - 1) = lead
    <2> HIDE DEF inside
    <2>1. QED
      BY <1>1, <1>2, <1>4, AroundToken
  <1>15. /\ Find(past, Semicolon) = Len(trail) + 1
         /\ SubSeq(past, 1, Find(past, Semicolon) - 1) = trail
         /\ From(past, Find(past, Semicolon)) = end
    BY <1>2, AroundToken
  <1>16. Len(lead) \in Nat /\ Len(lead) > 0
    BY <1>1, TextsAre
  <1> HIDE DEF end, past, closed, inside, after, text, upto
  <1>17. /\ Turn(text, keyword).found = <<ToDeclaration(lead, inner, trail)>>
         /\ Turn(text, keyword).rest = end
    <2>1. Len(inner) \in Nat /\ Len(trail) \in Nat
      BY TextsAre
    <2>2. /\ Find(after, "(") # 0 /\ Find(after, ")") # 0 /\ ~(Find(after, ")") < Find(after, "("))
          /\ Find(after, "(") # 1 /\ Find(past, Semicolon) # 0
      BY <1>9, <1>10, <1>12, <1>15, <1>16, <2>1
    <2>3. Identifier(NameOf(lead))
      BY <1>1
    <2>4. Turn(text, keyword) = [found |-> <<ToDeclaration(lead, inner, trail)>>, rest |-> end]
      BY <1>8, <1>12, <1>13, <1>14, <1>15, <2>2, <2>3 DEF Turn
    <2>5. QED
      BY <2>4
  <1>18. parse_declarations(text, keyword) =
           <<ToDeclaration(lead, inner, trail)>> \o parse_declarations(end, keyword)
    <2>1. text # <<>>
      BY <1>8, ContainsNone
    <2>2. QED
      BY <1>8, <1>17, <2>1, DeclarationsAre
  <1>19. parse_declarations(end, keyword) = parse_declarations(rest, keyword)
    <2>1. ~Contains(One(Semicolon), keyword)
      BY ContainsIn
    <2>2. QED
      BY <1>3, <2>1, NothingIsRead DEF end
  <1>20. QED
    BY <1>6, <1>7, <1>18, <1>19

(***************************************************************************)
(* What a text says, wherever it stands in an include.                     *)
(***************************************************************************)

\* Read as code, `text` becomes `cleaned` and code follows.
Cleans(text, cleaned) ==
  /\ text \in Texts /\ cleaned \in Texts
  /\ \A out \in Texts : Runs(Reading, skip, text, At("code", out), At("code", out ++ cleaned))

\* It puts `found` before what is found behind it.
Declares(cleaned, keyword, found) ==
  /\ found \in Seq(Readings)
  /\ \A rest \in Texts :
       parse_declarations(cleaned ++ rest, keyword) = found \o parse_declarations(rest, keyword)

\* A text that declares natives and forwards, and leaves what is behind it alone.
Says(text, declared, forwarded) ==
  \E cleaned : /\ Cleans(text, cleaned)
               /\ Declares(cleaned, "native", declared)
               /\ Declares(cleaned, "forward", forwarded)

LEMMA Keywords ==
  /\ "native" \in Tokens /\ "forward" \in Tokens
  /\ "native" # Semicolon /\ "forward" # Semicolon
  <1>1. "native" \in Tokens /\ "forward" \in Tokens
    BY DEF Tokens, Words
  <1>2. "native" # Semicolon /\ "forward" # Semicolon
    BY Zenon DEF Semicolon
  <1>3. QED
    BY <1>1, <1>2

LEMMA CleansBoth ==
  ASSUME NEW a, NEW b, NEW c, NEW d, Cleans(a, c), Cleans(b, d)
  PROVE  Cleans(a ++ b, c ++ d)
  <1>1. a \in Texts /\ b \in Texts /\ c \in Texts /\ d \in Texts
    BY DEF Cleans
  <1>2. ASSUME NEW out \in Texts
        PROVE  Runs(Reading, skip, a ++ b, At("code", out), At("code", out ++ (c ++ d)))
    <2>1. Runs(Reading, skip, a, At("code", out), At("code", out ++ c))
      BY DEF Cleans
    <2>2. out ++ c \in Texts
      BY <1>1, CatIs
    <2>3. Runs(Reading, skip, b, At("code", out ++ c), At("code", (out ++ c) ++ d))
      BY <2>2 DEF Cleans
    <2>4. (out ++ c) ++ d = out ++ (c ++ d)
      BY <1>1, CatRegroups
    <2>5. Runs(Reading, skip, a \o b, At("code", out), At("code", (out ++ c) ++ d))
      BY <1>1, <2>1, <2>3, RunsOn
    <2>6. QED
      BY <2>4, <2>5 DEF ++
  <1>3. a ++ b \in Texts /\ c ++ d \in Texts
    BY <1>1, CatIs
  <1>4. QED
    BY <1>2, <1>3 DEF Cleans

LEMMA DeclaresBoth ==
  ASSUME NEW c \in Texts, NEW d \in Texts, NEW keyword, NEW ds, NEW es,
         Declares(c, keyword, ds), Declares(d, keyword, es)
  PROVE  Declares(c ++ d, keyword, ds \o es)
  <1>1. ds \in Seq(Readings) /\ es \in Seq(Readings) /\ ds \o es \in Seq(Readings)
    BY ConcatProperties DEF Declares
  <1>2. ASSUME NEW rest \in Texts
        PROVE  parse_declarations((c ++ d) ++ rest, keyword) = (ds \o es) \o parse_declarations(rest, keyword)
    <2>1. d ++ rest \in Texts /\ (c ++ d) ++ rest = c ++ (d ++ rest)
      BY CatIs, CatRegroups
    <2>2. parse_declarations(c ++ (d ++ rest), keyword) = ds \o parse_declarations(d ++ rest, keyword)
      BY <2>1 DEF Declares
    <2>3. parse_declarations(d ++ rest, keyword) = es \o parse_declarations(rest, keyword)
      BY DEF Declares
    <2>4. parse_declarations(rest, keyword) \in Seq(Readings)
      BY DeclarationsAre
    <2>5. (ds \o es) \o parse_declarations(rest, keyword) = ds \o (es \o parse_declarations(rest, keyword))
      BY <1>1, <2>4, ConcatAssociative
    <2>6. QED
      BY <2>1, <2>2, <2>3, <2>5
  <1>3. QED
    BY <1>1, <1>2 DEF Declares

LEMMA DeclaresNothing ==
  ASSUME NEW c \in Texts, NEW keyword \in Tokens, ~Contains(c, keyword)
  PROVE  Declares(c, keyword, <<>>)
  <1>1. ASSUME NEW rest \in Texts
        PROVE  parse_declarations(c ++ rest, keyword) = <<>> \o parse_declarations(rest, keyword)
    <2>1. parse_declarations(rest, keyword) \in Seq(Readings)
      BY DeclarationsAre
    <2>2. <<>> \o parse_declarations(rest, keyword) = parse_declarations(rest, keyword)
      BY <2>1, ConcatEmptySeq
    <2>3. QED
      BY <2>2, NothingIsRead
  <1>2. <<>> \in Seq(Readings)
    OBVIOUS
  <1>3. QED
    BY <1>1, <1>2 DEF Declares

LEMMA SaysBoth ==
  ASSUME NEW a, NEW b, NEW da, NEW db, NEW fa, NEW fb, Says(a, da, fa), Says(b, db, fb)
  PROVE  Says(a ++ b, da \o db, fa \o fb)
  <1>1. PICK c : Cleans(a, c) /\ Declares(c, "native", da) /\ Declares(c, "forward", fa)
    BY DEF Says
  <1>2. PICK d : Cleans(b, d) /\ Declares(d, "native", db) /\ Declares(d, "forward", fb)
    BY DEF Says
  <1>3. c \in Texts /\ d \in Texts
    BY <1>1, <1>2 DEF Cleans
  <1>4. Cleans(a ++ b, c ++ d)
    BY <1>1, <1>2, CleansBoth
  <1>5. Declares(c ++ d, "native", da \o db) /\ Declares(c ++ d, "forward", fa \o fb)
    BY <1>1, <1>2, <1>3, DeclaresBoth
  <1>6. QED
    BY <1>4, <1>5 DEF Says

LEMMA SaysTypes ==
  ASSUME NEW text, NEW ds, NEW fs, Says(text, ds, fs)
  PROVE  text \in Texts /\ ds \in Seq(Readings) /\ fs \in Seq(Readings)
  BY DEF Says, Cleans, Declares

LEMMA SaysCode ==
  ASSUME NEW text \in Texts, ~Contains(text, "//"), ~Contains(text, "/*"),
         NEW ds, NEW fs, Declares(text, "native", ds), Declares(text, "forward", fs)
  PROVE  Says(text, ds, fs)
  <1>1. Cleans(text, text)
    BY CodeIsKept DEF Cleans, ++
  <1>2. QED
    BY <1>1 DEF Says

LEMMA Marks ==
  /\ "//" \in Tokens /\ "/*" \in Tokens /\ "*/" \in Tokens /\ "\n" \in Tokens
  /\ "(" \in Tokens /\ ")" \in Tokens /\ ":" \in Tokens /\ "=" \in Tokens /\ "&" \in Tokens
  /\ "..." \in Tokens /\ "[" \in Tokens /\ "]" \in Tokens
  BY DEF Tokens, Words, Punctuation, Brackets

LEMMA LineEndSays == Says(One("\n"), <<>>, <<>>)
  <1>1. One("\n") \in Texts
    BY Marks, OneIs
  <1>2. /\ ~Contains(One("\n"), "//") /\ ~Contains(One("\n"), "/*")
        /\ ~Contains(One("\n"), "native") /\ ~Contains(One("\n"), "forward")
    BY ContainsIn
  <1>3. QED
    BY <1>1, <1>2, SaysCode, DeclaresNothing, Keywords

LEMMA EmptySays == Says(<<>>, <<>>, <<>>)
  BY TextsAre, ContainsNone, SaysCode, DeclaresNothing, Keywords

\* To the end of the line.
LEMMA LineCommentSays ==
  ASSUME NEW text \in Texts, ~Contains(text, "\n")
  PROVE  Says(One("//") ++ (text ++ One("\n")), <<>>, <<>>)
  <1>1. One("//") \in Texts /\ One("\n") \in Texts /\ text ++ One("\n") \in Texts
    BY Marks, OneIs, CatIs
  <1>2. ASSUME NEW out \in Texts
        PROVE  Runs(Reading, skip, One("//") ++ (text ++ One("\n")), At("code", out), At("code", out ++ One("\n")))
    <2>1. /\ skip \in [Reading \X Tokens -> Reading]
          /\ At("code", out) \in Reading /\ At("line", out) \in Reading
          /\ skip[<<At("code", out), "//">>] = At("line", out)
          /\ skip[<<At("line", out), "\n">>] = At("code", out \o <<"\n">>)
      BY SkipIs, Marks
    <2>2. Runs(Reading, skip, One("//"), At("code", out), At("line", out))
      BY <2>1, Marks, RunsOne DEF One
    <2>3. Runs(Reading, skip, text, At("line", out), At("line", out))
      BY CommentRuns
    <2>4. Runs(Reading, skip, One("\n"), At("line", out), At("code", out \o <<"\n">>))
      BY <2>1, Marks, RunsOne DEF One
    <2>5. Runs(Reading, skip, text \o One("\n"), At("line", out), At("code", out \o <<"\n">>))
      BY <1>1, <2>3, <2>4, RunsOn
    <2>6. Runs(Reading, skip, text ++ One("\n"), At("line", out), At("code", out \o <<"\n">>))
      BY <2>5 DEF ++
    <2>7. Runs(Reading, skip, One("//") \o (text ++ One("\n")), At("code", out), At("code", out \o <<"\n">>))
      BY <1>1, <2>2, <2>6, RunsOn
    <2>8. out \o <<"\n">> = out ++ One("\n")
      BY DEF ++, One
    <2>9. One("//") \o (text ++ One("\n")) = One("//") ++ (text ++ One("\n"))
      BY DEF ++
    <2>10. QED
      BY <2>7, <2>8, <2>9
  <1>3. Cleans(One("//") ++ (text ++ One("\n")), One("\n"))
    <2>1. One("//") ++ (text ++ One("\n")) \in Texts
      BY <1>1, CatIs
    <2>2. QED
      BY <1>1, <1>2, <2>1 DEF Cleans
  <1>4. ~Contains(One("\n"), "native") /\ ~Contains(One("\n"), "forward")
    BY ContainsIn
  <1>5. Declares(One("\n"), "native", <<>>) /\ Declares(One("\n"), "forward", <<>>)
    BY <1>1, <1>4, DeclaresNothing, Keywords
  <1>6. QED
    BY <1>3, <1>5 DEF Says

LEMMA BlockCommentSays ==
  ASSUME NEW text \in Texts, ~Contains(text, "*/")
  PROVE  Says(One("/*") ++ (text ++ One("*/")), <<>>, <<>>)
  <1>1. One("/*") \in Texts /\ One("*/") \in Texts /\ text ++ One("*/") \in Texts
    BY Marks, OneIs, CatIs
  <1>2. ASSUME NEW out \in Texts
        PROVE  Runs(Reading, skip, One("/*") ++ (text ++ One("*/")), At("code", out), At("code", out ++ <<>>))
    <2>1. /\ skip \in [Reading \X Tokens -> Reading]
          /\ At("code", out) \in Reading /\ At("block", out) \in Reading
          /\ skip[<<At("code", out), "/*">>] = At("block", out)
          /\ skip[<<At("block", out), "*/">>] = At("code", out)
      BY SkipIs, Marks
    <2>2. Runs(Reading, skip, One("/*"), At("code", out), At("block", out))
      BY <2>1, Marks, RunsOne DEF One
    <2>3. Runs(Reading, skip, text, At("block", out), At("block", out))
      BY CommentRuns
    <2>4. Runs(Reading, skip, One("*/"), At("block", out), At("code", out))
      BY <2>1, Marks, RunsOne DEF One
    <2>5. Runs(Reading, skip, text \o One("*/"), At("block", out), At("code", out))
      BY <1>1, <2>3, <2>4, RunsOn
    <2>6. Runs(Reading, skip, text ++ One("*/"), At("block", out), At("code", out))
      BY <2>5 DEF ++
    <2>7. Runs(Reading, skip, One("/*") \o (text ++ One("*/")), At("code", out), At("code", out))
      BY <1>1, <2>2, <2>6, RunsOn
    <2>8. out = out ++ <<>>
      BY CatIs
    <2>9. One("/*") \o (text ++ One("*/")) = One("/*") ++ (text ++ One("*/"))
      BY DEF ++
    <2>10. QED
      BY <2>7, <2>8, <2>9
  <1>3. Cleans(One("/*") ++ (text ++ One("*/")), <<>>)
    <2>1. One("/*") ++ (text ++ One("*/")) \in Texts
      BY <1>1, CatIs
    <2>2. QED
      BY <1>2, <2>1, TextsAre DEF Cleans
  <1>4. Declares(<<>>, "native", <<>>) /\ Declares(<<>>, "forward", <<>>)
    BY ContainsNone, TextsAre, DeclaresNothing, Keywords
  <1>5. QED
    BY <1>3, <1>4 DEF Says

\* What a whole text says is what is parsed.
LEMMA ParseIs ==
  ASSUME NEW text, NEW ds, NEW fs, Says(text, ds, fs)
  PROVE  parse(text) = ds /\ parse_forwards(text) = fs
  <1>1. PICK c : Cleans(text, c) /\ Declares(c, "native", ds) /\ Declares(c, "forward", fs)
    BY DEF Says
  <1>2. text \in Texts /\ c \in Texts /\ <<>> \in Texts
    BY <1>1, TextsAre DEF Cleans
  <1>3. without_comments(text) = c
    <2>1. Runs(Reading, skip, text, At("code", <<>>), At("code", <<>> ++ c))
      BY <1>1, <1>2 DEF Cleans
    <2>2. <<>> ++ c = c
      BY <1>2, CatIs
    <2>3. At("code", c).out = c
      BY DEF At
    <2>4. QED
      BY <1>2, <2>1, <2>2, <2>3, WithoutCommentsIs
  <1>4. ASSUME NEW keyword, NEW found, Declares(c, keyword, found)
        PROVE  parse_declarations(c, keyword) = found
    <2>1. c ++ <<>> = c
      BY <1>2, CatIs
    <2>2. parse_declarations(c ++ <<>>, keyword) = found \o parse_declarations(<<>>, keyword)
      BY <1>2, <1>4 DEF Declares
    <2>3. parse_declarations(<<>>, keyword) = <<>>
      BY DeclarationsAre
    <2>4. found \in Seq(Readings)
      BY <1>4 DEF Declares
    <2>5. found \o <<>> = found
      BY <2>4, ConcatEmptySeq
    <2>6. QED
      BY <2>1, <2>2, <2>3, <2>5
  <1>5. QED
    BY <1>1, <1>3, <1>4 DEF parse, parse_forwards

(***************************************************************************)
(* Sequences put behind each other.                                        *)
(***************************************************************************)

\* g[i] is the first i of ss behind each other.
Flattens(S, ss, g) ==
  /\ g \in [0 .. Len(ss) -> Seq(S)]
  /\ g[0] = <<>>
  /\ \A i \in 1 .. Len(ss) : g[i] = g[i - 1] \o ss[i]
  /\ g[Len(ss)] = FlattenSeq(ss)

LEMMA FlattenIs ==
  ASSUME NEW S, NEW ss \in Seq(Seq(S))
  PROVE  \E g : Flattens(S, ss, g)
  <1> DEFINE N == Len(ss)
             T == Seq(S)
             Solves(f) == f = [i \in 1 .. N |-> IF i = 1 THEN ss[i] ELSE f[i - 1] \o ss[i]]
             step == [p \in (1 .. N) \X T |-> p[2] \o ss[p[1]]]
  <1>1. N \in Nat /\ \A i \in 1 .. N : ss[i] \in T
    OBVIOUS
  <1>2. <<>> \in T /\ \A a, b \in T : a \o b \in T
    OBVIOUS
  <1>3. \A a \in T : <<>> \o a = a
    BY ConcatEmptySeq
  <1> HIDE DEF N, T
  <1>4. step \in [(1 .. N) \X T -> T]
    BY <1>1, <1>2
  <1>5. \A i \in 1 .. N, a \in T : step[<<i, a>>] = a \o ss[i]
    OBVIOUS
  <1> HIDE DEF step
  <1>6. PICK g : Steps(T, <<>>, N, step, g)
    BY <1>1, <1>2, <1>4, StepsExist
  <1>7. /\ g \in [0 .. N -> T] /\ g[0] = <<>>
        /\ \A i \in 1 .. N : g[i] = g[i - 1] \o ss[i]
    <2>1. g \in [0 .. N -> T] /\ g[0] = <<>> /\ \A i \in 1 .. N : g[i] = step[<<i, g[i - 1]>>]
      BY <1>6 DEF Steps
    <2>2. ASSUME NEW i \in 1 .. N
          PROVE  g[i] = g[i - 1] \o ss[i]
      <3>1. i - 1 \in 0 .. N
        BY <1>1
      <3>2. g[i - 1] \in T
        BY <2>1, <3>1
      <3>3. QED
        BY <1>5, <2>1, <3>2
    <2>3. QED
      BY <2>1, <2>2
  <1>8. CASE N = 0
    <2>1. FlattenSeq(ss) = ss
      BY <1>8 DEF FlattenSeq, N
    <2>2. ss = <<>>
      BY <1>8 DEF N
    <2>3. QED
      BY <1>7, <1>8, <2>1, <2>2 DEF Flattens, N, T
  <1>9. CASE N # 0
    <2> DEFINE whole == [i \in 1 .. N |-> g[i]]
               flatten == CHOOSE f : Solves(f)
    <2>1. Solves(whole)
      <3>1. ASSUME NEW i \in 1 .. N
            PROVE  g[i] = IF i = 1 THEN ss[i] ELSE whole[i - 1] \o ss[i]
        <4>1. CASE i = 1
          <5>1. g[1] = g[0] \o ss[1] /\ g[0] = <<>> /\ ss[1] \in T
            <6>1. 1 \in 1 .. N /\ 1 - 1 = 0
              BY <4>1
            <6>2. g[1] = g[1 - 1] \o ss[1]
              BY <1>7, <6>1
            <6>3. QED
              BY <1>1, <1>7, <6>1, <6>2
          <5>2. QED
            BY <1>3, <4>1, <5>1
        <4>2. CASE i # 1
          <5>1. i - 1 \in 1 .. N
            BY <1>1, <4>2
          <5>2. QED
            BY <1>7, <4>2, <5>1
        <4>3. QED
          BY <4>1, <4>2
      <3>2. QED
        BY <3>1
    <2>2. Solves(flatten)
      <3> HIDE DEF Solves
      <3>1. QED
        BY <2>1
    <2>3. \A i \in 1 .. N : flatten[i] = IF i = 1 THEN ss[i] ELSE flatten[i - 1] \o ss[i]
      <3> HIDE DEF flatten
      <3>1. QED
        BY <2>2
    <2>4. FlattenSeq(ss) = flatten[N]
      BY <1>9 DEF FlattenSeq, N
    <2> HIDE DEF flatten, Solves, whole
    <2> DEFINE P == [n \in 0 .. N |-> n # 0 => flatten[n] = g[n]]
    <2>5. P \in [0 .. N -> BOOLEAN] /\ P[0]
      <3>1. 0 \in 0 .. N
        BY <1>1
      <3>2. P \in [0 .. N -> BOOLEAN]
        OBVIOUS
      <3>3. P[0] = (0 # 0 => flatten[0] = g[0])
        BY <3>1
      <3>4. QED
        BY <3>2, <3>3
    <2>6. ASSUME NEW n \in 0 .. N, n < N, P[n]
          PROVE  P[n + 1]
      <3>1. n + 1 \in 1 .. N /\ n + 1 \in 0 .. N /\ (n + 1) - 1 = n
        BY <1>1, <2>6
      <3>2. g[n + 1] = g[n] \o ss[n + 1]
        BY <1>7, <3>1
      <3>3. CASE n = 0
        <4>1. flatten[1] = ss[1] /\ g[0] = <<>> /\ ss[1] \in T
          BY <1>1, <1>7, <2>3, <3>1, <3>3
        <4>2. flatten[1] = g[1]
          BY <1>3, <3>2, <3>3, <4>1
        <4>3. n + 1 = 1
          BY <3>3
        <4>4. flatten[n + 1] = g[n + 1]
          BY <4>2, <4>3
        <4>5. QED
          BY <3>1, <4>4
      <3>4. CASE n # 0
        <4>1. flatten[n] = g[n]
          BY <2>6, <3>4
        <4>2. n + 1 # 1
          BY <3>4
        <4>3. flatten[n + 1] = flatten[n] \o ss[n + 1]
          BY <2>3, <3>1, <4>2
        <4>4. QED
          BY <3>1, <3>2, <4>1, <4>3
      <3>5. QED
        BY <3>3, <3>4
    <2>7. \A n \in 0 .. N : P[n]
      <3> HIDE DEF P
      <3>1. QED
        BY <1>1, <2>5, <2>6, UpTo
    <2>8. flatten[N] = g[N]
      <3>1. N \in 0 .. N
        BY <1>1
      <3>2. QED
        BY <1>9, <2>7, <3>1
    <2>9. QED
      BY <1>7, <2>4, <2>8 DEF Flattens, N, T
  <1>10. QED
    BY <1>8, <1>9

(***************************************************************************)
(* Splitting a list of arguments.                                          *)
(***************************************************************************)

Lists == Seq(Texts)
Splitting == [parts : Lists, current : Texts, depth : Int]
split == [p \in Splitting \X Tokens |-> Split(p[1], p[2])]
Cut(parts, current, depth) == [parts |-> parts, current |-> current, depth |-> depth]
Deeper(c) == IF c \in Brackets.open THEN 1 ELSE IF c \in Brackets.close THEN -1 ELSE 0

LEMMA ListsAre ==
  /\ <<>> \in Lists
  /\ \A parts \in Lists, text \in Texts : Append(parts, text) \in Lists
  BY DEF Lists

LEMMA SplitIs ==
  /\ split \in [Splitting \X Tokens -> Splitting]
  /\ \A parts \in Lists, current \in Texts, depth \in Int :
       /\ Cut(parts, current, depth) \in Splitting
       /\ \A c \in Tokens :
            split[<<Cut(parts, current, depth), c>>] =
              IF c = Comma /\ depth = 0 THEN Cut(Append(parts, current), <<>>, 0)
              ELSE Cut(parts, current ++ One(c), depth + Deeper(c))
  <1>1. \A parts \in Lists, current \in Texts, depth \in Int : Cut(parts, current, depth) \in Splitting
    BY DEF Cut, Splitting
  <1>2. ASSUME NEW parts \in Lists, NEW current \in Texts, NEW depth \in Int, NEW c \in Tokens
        PROVE  Split(Cut(parts, current, depth), c) =
                 IF c = Comma /\ depth = 0 THEN Cut(Append(parts, current), <<>>, 0)
                 ELSE Cut(parts, current ++ One(c), depth + Deeper(c))
    <2>1. Append(current, c) = current ++ One(c)
      BY AppendIsConcat DEF ++, One, Texts
    <2>2. /\ Cut(parts, current, depth).parts = parts /\ Cut(parts, current, depth).current = current
          /\ Cut(parts, current, depth).depth = depth
      BY DEF Cut
    <2>3. Split(Cut(parts, current, depth), c) =
            IF c = Comma /\ depth = 0 THEN Cut(Append(parts, current), <<>>, 0)
            ELSE Cut(parts, Append(current, c), depth + Deeper(c))
      BY <2>2 DEF Split, Cut, Deeper
    <2>4. QED
      BY <2>1, <2>3
  <1>3. ASSUME NEW state \in Splitting, NEW c \in Tokens
        PROVE  Split(state, c) \in Splitting
    <2>1. PICK parts \in Lists, current \in Texts, depth \in Int : state = Cut(parts, current, depth)
      BY DEF Splitting, Cut
    <2>2. Append(parts, current) \in Lists /\ <<>> \in Texts
      BY ListsAre, TextsAre
    <2>3. current ++ One(c) \in Texts
      BY OneIs, CatIs
    <2>4. depth + Deeper(c) \in Int
      BY DEF Deeper
    <2>5. /\ Cut(Append(parts, current), <<>>, 0) \in Splitting
          /\ Cut(parts, current ++ One(c), depth + Deeper(c)) \in Splitting
      BY <1>1, <2>2, <2>3, <2>4
    <2>6. QED
      BY <1>2, <2>1, <2>5
  <1>4. split \in [Splitting \X Tokens -> Splitting]
    BY <1>3 DEF split
  <1>5. ASSUME NEW parts \in Lists, NEW current \in Texts, NEW depth \in Int, NEW c \in Tokens
        PROVE  split[<<Cut(parts, current, depth), c>>] = Split(Cut(parts, current, depth), c)
    <2>1. <<Cut(parts, current, depth), c>> \in Splitting \X Tokens
      BY <1>1
    <2>2. QED
      BY <2>1 DEF split
  <1>6. QED
    BY <1>1, <1>2, <1>4, <1>5

\* A text that belongs to one argument; the depth of brackets before and behind.
Grows(text, d, e) ==
  /\ text \in Texts /\ d \in Int /\ e \in Int
  /\ \A parts \in Lists, current \in Texts :
       Runs(Splitting, split, text, Cut(parts, current, d), Cut(parts, current ++ text, e))

LEMMA GrowsBoth ==
  ASSUME NEW a, NEW b, NEW d, NEW e, NEW f, Grows(a, d, e), Grows(b, e, f)
  PROVE  Grows(a ++ b, d, f)
  <1>1. a \in Texts /\ b \in Texts /\ d \in Int /\ f \in Int /\ a ++ b \in Texts
    BY CatIs DEF Grows
  <1>2. ASSUME NEW parts \in Lists, NEW current \in Texts
        PROVE  Runs(Splitting, split, a ++ b, Cut(parts, current, d), Cut(parts, current ++ (a ++ b), f))
    <2>1. current ++ a \in Texts /\ (current ++ a) ++ b = current ++ (a ++ b)
      BY <1>1, CatIs, CatRegroups
    <2>2. Runs(Splitting, split, a, Cut(parts, current, d), Cut(parts, current ++ a, e))
      BY DEF Grows
    <2>3. Runs(Splitting, split, b, Cut(parts, current ++ a, e), Cut(parts, (current ++ a) ++ b, f))
      BY <2>1 DEF Grows
    <2>4. Runs(Splitting, split, a \o b, Cut(parts, current, d), Cut(parts, (current ++ a) ++ b, f))
      BY <1>1, <2>2, <2>3, RunsOn
    <2>5. QED
      BY <2>1, <2>4 DEF ++
  <1>3. QED
    BY <1>1, <1>2 DEF Grows

LEMMA GrowsOne ==
  ASSUME NEW c \in Tokens, NEW d \in Int, c # Comma \/ d # 0
  PROVE  Grows(One(c), d, d + Deeper(c))
  <1>1. One(c) \in Texts /\ d + Deeper(c) \in Int
    BY OneIs DEF Deeper
  <1>2. ASSUME NEW parts \in Lists, NEW current \in Texts
        PROVE  Runs(Splitting, split, One(c), Cut(parts, current, d), Cut(parts, current ++ One(c), d + Deeper(c)))
    <2>1. /\ split \in [Splitting \X Tokens -> Splitting] /\ Cut(parts, current, d) \in Splitting
          /\ split[<<Cut(parts, current, d), c>>] = Cut(parts, current ++ One(c), d + Deeper(c))
      BY SplitIs
    <2>2. QED
      BY <2>1, RunsOne DEF One
  <1>3. QED
    BY <1>1, <1>2 DEF Grows

LEMMA GrowsNone ==
  ASSUME NEW d \in Int
  PROVE  Grows(<<>>, d, d)
  <1>1. ASSUME NEW parts \in Lists, NEW current \in Texts
        PROVE  Runs(Splitting, split, <<>>, Cut(parts, current, d), Cut(parts, current ++ <<>>, d))
    <2>1. current ++ <<>> = current
      BY CatIs
    <2>2. Cut(parts, current, d) \in Splitting
      BY SplitIs
    <2>3. QED
      BY <2>1, <2>2, RunsNone
  <1>2. QED
    BY <1>1, TextsAre DEF Grows

LEMMA SplitArgumentsIs ==
  ASSUME NEW text \in Texts, NEW parts, NEW current, NEW depth,
         Runs(Splitting, split, text, Cut(<<>>, <<>>, 0), Cut(parts, current, depth))
  PROVE  split_arguments(text) = parts \o When(current # <<>>, <<current>>)
  <1> DEFINE base == [parts |-> <<>>, current |-> <<>>, depth |-> 0]
             Solves(r) == r = [i \in 0 .. Len(text) |-> IF i = 0 THEN base ELSE Split(r[i - 1], text[i])]
  <1>1. PICK g \in [0 .. Len(text) -> Splitting] :
          /\ g[0] = Cut(<<>>, <<>>, 0) /\ g[Len(text)] = Cut(parts, current, depth)
          /\ \A n \in 1 .. Len(text) : g[n] = split[<<g[n - 1], text[n]>>]
    BY DEF Runs
  <1>2. Len(text) \in Nat /\ \A i \in 1 .. Len(text) : text[i] \in Tokens
    BY TextsAre
  <1>3. \A n \in 1 .. Len(text) : g[n] = Split(g[n - 1], text[n])
    <2>1. ASSUME NEW n \in 1 .. Len(text)
          PROVE  g[n] = Split(g[n - 1], text[n])
      <3>1. n - 1 \in 0 .. Len(text) /\ text[n] \in Tokens
        BY <1>2
      <3>2. <<g[n - 1], text[n]>> \in Splitting \X Tokens
        BY <3>1
      <3>3. QED
        BY <1>1, <3>2 DEF split
    <2>2. QED
      BY <2>1
  <1>4. base = Cut(<<>>, <<>>, 0)
    BY DEF Cut
  <1> HIDE DEF base
  <1>5. Solves(g)
    <2>1. ASSUME NEW i \in 0 .. Len(text)
          PROVE  g[i] = IF i = 0 THEN base ELSE Split(g[i - 1], text[i])
      <3>1. i = 0 \/ i \in 1 .. Len(text)
        BY <1>2
      <3>2. QED
        BY <1>1, <1>3, <1>4, <3>1
    <2>2. QED
      BY <2>1
  <1> DEFINE read == CHOOSE r : Solves(r)
  <1>6. Solves(read)
    <2> HIDE DEF Solves
    <2>1. QED
      BY <1>5
  <1>7. \A i \in 0 .. Len(text) : read[i] = IF i = 0 THEN base ELSE Split(read[i - 1], text[i])
    <2> HIDE DEF read
    <2>1. QED
      BY <1>6
  <1>8. split_arguments(text) = read[Len(text)].parts \o
                                  When(read[Len(text)].current # <<>>, <<read[Len(text)].current>>)
    BY DEF split_arguments, base
  <1> HIDE DEF read, Solves
  <1> DEFINE P == [n \in 0 .. Len(text) |-> read[n] = g[n]]
  <1>9. P \in [0 .. Len(text) -> BOOLEAN] /\ P[0]
    <2>1. 0 \in 0 .. Len(text)
      BY <1>2
    <2>2. read[0] = g[0]
      BY <1>1, <1>4, <1>7, <2>1
    <2>3. P[0] = (read[0] = g[0])
      BY <2>1
    <2>4. QED
      BY <2>2, <2>3
  <1>10. ASSUME NEW n \in 0 .. Len(text), n < Len(text), P[n]
         PROVE  P[n + 1]
    <2>1. n + 1 \in 1 .. Len(text) /\ n + 1 \in 0 .. Len(text) /\ (n + 1) - 1 = n /\ n + 1 # 0
      BY <1>2, <1>10
    <2>2. read[n] = g[n]
      BY <1>10
    <2>3. read[n + 1] = Split(read[n], text[n + 1])
      BY <1>7, <2>1
    <2>4. g[n + 1] = Split(g[n], text[n + 1])
      BY <1>3, <2>1
    <2>5. QED
      BY <2>1, <2>2, <2>3, <2>4
  <1>11. \A n \in 0 .. Len(text) : P[n]
    <2> HIDE DEF P
    <2>1. QED
      BY <1>2, <1>9, <1>10, UpTo
  <1>12. read[Len(text)] = Cut(parts, current, depth)
    <2>1. Len(text) \in 0 .. Len(text)
      BY <1>2
    <2>2. QED
      BY <1>1, <1>11, <2>1
  <1>13. /\ Cut(parts, current, depth).parts = parts
         /\ Cut(parts, current, depth).current = current
    BY DEF Cut
  <1>14. QED
    BY <1>8, <1>12, <1>13

(***************************************************************************)
(* One argument, written and read.                                         *)
(***************************************************************************)

Tags == {None, "float", "bool"}
Additional == {"none", "value", "list", "size"}
Argument == [const : BOOLEAN, by_reference : BOOLEAN, tag : Tags, array : BOOLEAN,
             addition : Additional]
Shape(a) == [tag |-> a.tag, by_reference |-> a.by_reference, array |-> a.array]

\* What is in front of the default, from the inside.
ArgName(a) == One("arg") ++ When(a.array, One("[") ++ One("]"))
Bare(a) == When(a.tag # None, One(a.tag) ++ One(":")) ++ ArgName(a)
Marked(a) == When(a.by_reference, One("&")) ++ Bare(a)
Core(a) == When(a.const, One("const")) ++ Marked(a)

CoreWords == {"const", "&", "float", "bool", ":", "arg", "[", "]"}
ListWords == CoreWords \cup {"=", "0", "sizeof", "(", "...", LeftBrace, RightBrace, Comma, Untagged}

\* The named tokens are none of the others.
LEMMA NamedTokens ==
  /\ Comma # Semicolon /\ Comma # LeftBrace /\ Comma # RightBrace /\ Comma # Untagged
  /\ Semicolon # LeftBrace /\ Semicolon # RightBrace /\ Semicolon # Untagged
  /\ LeftBrace # RightBrace /\ LeftBrace # Untagged /\ RightBrace # Untagged
  /\ {Comma, Semicolon, LeftBrace, RightBrace, Untagged} \cap
       {"const", "&", "float", "bool", ":", "arg", "[", "]", "=", "0", "sizeof", "(", ")", "...",
        "//", "/*", "*/", "\n", "native", "forward", "raw"} = {}
  <1>1. /\ Comma # Semicolon /\ Comma # LeftBrace /\ Comma # RightBrace /\ Comma # Untagged
        /\ Semicolon # LeftBrace /\ Semicolon # RightBrace /\ Semicolon # Untagged
        /\ LeftBrace # RightBrace /\ LeftBrace # Untagged /\ RightBrace # Untagged
    BY Zenon DEF Comma, Semicolon, LeftBrace, RightBrace, Untagged
  <1> DEFINE W == {"const", "&", "float", "bool", ":", "arg", "[", "]", "=", "0", "sizeof", "(", ")", "...",
                   "//", "/*", "*/", "\n", "native", "forward", "raw"}
  <1>2. Comma \notin W
    BY Zenon DEF Comma
  <1>3. Semicolon \notin W
    BY Zenon DEF Semicolon
  <1>4. LeftBrace \notin W
    BY Zenon DEF LeftBrace
  <1>5. RightBrace \notin W
    BY Zenon DEF RightBrace
  <1>6. Untagged \notin W
    BY Zenon DEF Untagged
  <1> HIDE DEF W
  <1>7. {Comma, Semicolon, LeftBrace, RightBrace, Untagged} \cap W = {}
    BY <1>2, <1>3, <1>4, <1>5, <1>6
  <1>8. QED
    BY <1>1, <1>7 DEF W

LEMMA NoneIsNoTag ==
  /\ None \notin {"float", "bool"} /\ None \notin Names \cup Callbacks
  <1>1. None \notin {"float", "bool"}
    BY Zenon DEF None
  <1>2. None \in Words
    BY DEF Words
  <1>3. QED
    BY <1>1, <1>2, PawnIncludeAssumption

LEMMA ListWordsAre ==
  /\ CoreWords \subseteq ListWords /\ ListWords \subseteq Tokens
  /\ ListWords \cap {")", Semicolon, "//", "/*", "*/", "\n", "native", "forward"} = {}
  /\ CoreWords \cap {"=", "...", Comma, LeftBrace, RightBrace, "(", ")"} = {}
  <1>1. ListWords \subseteq Tokens
    BY DEF ListWords, CoreWords, Tokens, Words, Punctuation, Brackets
  <1>2. ListWords \cap {")", Semicolon, "//", "/*", "*/", "\n", "native", "forward"} = {}
    BY NamedTokens DEF ListWords, CoreWords
  <1>3. CoreWords \cap {"=", "...", Comma, LeftBrace, RightBrace, "(", ")"} = {}
    BY NamedTokens DEF CoreWords
  <1>4. QED
    BY <1>1, <1>2, <1>3 DEF ListWords

\* A text of certain words has no others.
LEMMA WordsOnly ==
  ASSUME NEW W \in SUBSET Tokens, NEW text \in Seq(W)
  PROVE  text \in Texts /\ \A token : token \notin W => ~Contains(text, token)
  <1>1. text \in Texts
    BY SeqMonotonic DEF Texts
  <1>2. \A i \in 1 .. Len(text) : text[i] \in W
    OBVIOUS
  <1>3. QED
    BY <1>1, <1>2 DEF Contains

LEMMA WordsCat ==
  ASSUME NEW W, NEW a \in Seq(W), NEW b \in Seq(W)
  PROVE  a ++ b \in Seq(W)
  BY ConcatProperties DEF ++

LEMMA WordsOne ==
  ASSUME NEW W, NEW c \in W
  PROVE  One(c) \in Seq(W)
  BY DEF One

LEMMA WordsWhen ==
  ASSUME NEW W, NEW condition \in BOOLEAN, NEW text, condition => text \in Seq(W)
  PROVE  When(condition, text) \in Seq(W)
  <1>1. <<>> \in Seq(W)
    OBVIOUS
  <1>2. QED
    BY <1>1 DEF When

LEMMA FirstIs ==
  ASSUME NEW c \in Tokens, NEW text \in Texts
  PROVE  /\ One(c) ++ text \in Texts /\ One(c) ++ text # <<>>
         /\ Head(One(c) ++ text) = c /\ (One(c) ++ text)[1] = c
         /\ Tail(One(c) ++ text) = text
         /\ Len(One(c) ++ text) = Len(text) + 1
  <1> DEFINE all == One(c) ++ text
  <1>1. all \in Texts /\ all[1] = c /\ Len(all) = Len(text) + 1 /\ Len(text) \in Nat
    <2>1. One(c) \in Texts /\ Len(One(c)) = 1 /\ One(c)[1] = c
      BY OneIs
    <2>2. Len(text) \in Nat
      BY TextsAre
    <2>3. all \in Texts /\ Len(all) = Len(One(c)) + Len(text)
      BY <2>1, CatIs
    <2>4. \A i \in 1 .. Len(One(c)) : all[i] = One(c)[i]
      BY <2>1, CatIs
    <2> HIDE DEF all
    <2>5. all[1] = c
      BY <2>1, <2>4
    <2>6. Len(all) = Len(text) + 1
      BY <2>1, <2>2, <2>3
    <2>7. QED
      BY <2>2, <2>3, <2>5, <2>6
  <1>2. \A i \in 1 .. Len(text) : all[i + 1] = text[i]
    <2>1. One(c) \in Texts /\ Len(One(c)) = 1
      BY OneIs
    <2>2. \A i \in 1 .. Len(text) : all[1 + i] = text[i]
      <3>1. \A i \in 1 .. Len(text) : all[Len(One(c)) + i] = text[i]
        BY <2>1, CatIs
      <3> HIDE DEF all
      <3>2. QED
        BY <2>1, <3>1
    <2> HIDE DEF all
    <2>3. \A i \in 1 .. Len(text) : 1 + i = i + 1
      BY <1>1
    <2>4. QED
      BY <2>2, <2>3
  <1> HIDE DEF all
  <1>3. all # <<>> /\ Head(all) = c
    BY <1>1 DEF Texts
  <1>4. Tail(all) = text
    <2>1. Tail(all) \in Seq(Tokens) /\ Len(Tail(all)) = Len(text)
      BY <1>1, <1>3 DEF Texts
    <2>2. \A i \in 1 .. Len(Tail(all)) : Tail(all)[i] = text[i]
      BY <1>1, <1>2, <1>3, <2>1 DEF Texts
    <2>3. QED
      BY <2>1, <2>2, SeqEqual DEF Texts
  <1>5. QED
    BY <1>1, <1>3, <1>4 DEF all

LEMMA ArgNameIs ==
  ASSUME NEW a \in Argument
  PROVE  /\ ArgName(a) \in Seq(CoreWords) /\ ArgName(a) \in Texts
         /\ ArgName(a) # <<>> /\ Head(ArgName(a)) = "arg" /\ ArgName(a)[1] = "arg"
         /\ ~Contains(ArgName(a), ":") /\ (Contains(ArgName(a), "[") <=> a.array)
  <1>1. a.array \in BOOLEAN
    BY DEF Argument
  <1>2. "arg" \in CoreWords /\ "[" \in CoreWords /\ "]" \in CoreWords
    BY DEF CoreWords
  <1>3. When(a.array, One("[") ++ One("]")) \in Seq(CoreWords)
    BY <1>1, <1>2, WordsCat, WordsOne, WordsWhen
  <1>4. ArgName(a) \in Seq(CoreWords)
    BY <1>2, <1>3, WordsCat, WordsOne DEF ArgName
  <1>5. CoreWords \in SUBSET Tokens
    BY ListWordsAre
  <1>6. ArgName(a) \in Texts /\ When(a.array, One("[") ++ One("]")) \in Texts
    BY <1>3, <1>4, <1>5, WordsOnly
  <1>7. "arg" \in Tokens /\ "[" \in Tokens /\ "]" \in Tokens
    BY <1>2, <1>5
  <1>8. ArgName(a) # <<>> /\ Head(ArgName(a)) = "arg" /\ ArgName(a)[1] = "arg"
    BY <1>6, <1>7, FirstIs DEF ArgName
  <1>9. ASSUME NEW token \in {":", "["}
        PROVE  Contains(ArgName(a), token) <=> a.array /\ token = "["
    <2>1. Contains(ArgName(a), token) <=> Contains(When(a.array, One("[") ++ One("]")), token)
      <3>1. ~Contains(One("arg"), token)
        BY ContainsIn
      <3>2. One("arg") \in Texts
        BY <1>7, OneIs
      <3>3. QED
        BY <1>6, <3>1, <3>2, ContainsCat DEF ArgName
    <2>2. CASE a.array
      <3>1. One("[") \in Texts /\ One("]") \in Texts
        BY <1>7, OneIs
      <3>2. Contains(One("[") ++ One("]"), token) <=> token = "["
        BY <3>1, ContainsCat, ContainsIn
      <3>3. QED
        BY <2>1, <2>2, <3>2 DEF When
    <2>3. CASE ~a.array
      BY <2>1, <2>3, ContainsNone DEF When
    <2>4. QED
      BY <2>2, <2>3
  <1>10. QED
    BY <1>4, <1>6, <1>8, <1>9

LEMMA BareIs ==
  ASSUME NEW a \in Argument
  PROVE  /\ Bare(a) \in Seq(CoreWords) /\ Bare(a) \in Texts /\ Bare(a) # <<>>
         /\ Head(Bare(a)) \notin {"const", "&"}
         /\ ArgumentRead(Marked(a), Bare(a), TagEnd(Bare(a))) =
              <<[tag |-> a.tag, by_reference |-> Marked(a) # Bare(a), array |-> a.array]>>
  <1>1. a.tag \in Tags /\ a.array \in BOOLEAN
    BY DEF Argument
  <1>2. /\ ArgName(a) \in Seq(CoreWords) /\ ArgName(a) \in Texts
        /\ ArgName(a) # <<>> /\ Head(ArgName(a)) = "arg" /\ ArgName(a)[1] = "arg"
        /\ ~Contains(ArgName(a), ":") /\ (Contains(ArgName(a), "[") <=> a.array)
    BY ArgNameIs
  <1>3. CoreWords \in SUBSET Tokens /\ LeftBrace \notin CoreWords
    BY ListWordsAre
  <1>4. CASE a.tag = None
    <2>1. Bare(a) = ArgName(a)
      <3>1. <<>> ++ ArgName(a) = ArgName(a)
        BY <1>2, CatIs
      <3>2. QED
        BY <1>4, <3>1 DEF Bare, When
    <2>2. TagEnd(Bare(a)) = 0
      <3>1. "arg" # LeftBrace
        BY NamedTokens
      <3>2. Find(ArgName(a), ":") = 0
        BY <1>2, FindIs
      <3>3. QED
        BY <1>2, <2>1, <3>1, <3>2 DEF TagEnd
    <2>3. From(ArgName(a), 0 + 1) = ArgName(a)
      BY <1>2, SubSeqFull DEF From, Texts
    <2>4. ArgumentRead(Marked(a), Bare(a), TagEnd(Bare(a))) =
            <<[tag |-> None, by_reference |-> Marked(a) # Bare(a), array |-> Contains(ArgName(a), "[")]>>
      BY <2>1, <2>2, <2>3 DEF ArgumentRead
    <2>5. Contains(ArgName(a), "[") = a.array
      BY <1>1, <1>2 DEF Contains
    <2>6. Head(Bare(a)) \notin {"const", "&"}
      BY <1>2, <2>1
    <2>7. QED
      BY <1>2, <1>4, <2>1, <2>4, <2>5, <2>6
  <1>5. CASE a.tag # None
    <2>1. a.tag \in {"float", "bool"} /\ a.tag \in CoreWords /\ ":" \in CoreWords
      BY <1>1, <1>5 DEF Tags, CoreWords
    <2>2. a.tag \in Tokens /\ ":" \in Tokens
      BY <1>3, <2>1
    <2>3. One(a.tag) \in Texts /\ One(":") \in Texts
      BY <2>2, OneIs
    <2>4. Bare(a) = One(a.tag) ++ (One(":") ++ ArgName(a))
      BY <1>2, <1>5, <2>3, CatRegroups DEF Bare, When
    <2>5. Bare(a) \in Seq(CoreWords)
      BY <1>2, <2>1, <2>4, WordsCat, WordsOne
    <2>6. One(":") ++ ArgName(a) \in Texts
      BY <1>2, <2>3, CatIs
    <2>7. /\ Bare(a) \in Texts /\ Bare(a) # <<>> /\ Head(Bare(a)) = a.tag /\ Bare(a)[1] = a.tag
      BY <2>2, <2>4, <2>6, FirstIs
    <2>8. Find(Bare(a), ":") = 2 /\ From(Bare(a), 2 + 1) = ArgName(a)
      <3>1. ~Contains(One(a.tag), ":")
        BY <2>1, ContainsIn
      <3>2. Len(One(a.tag)) = 1
        BY <2>2, OneIs
      <3>3. /\ Find(Bare(a), ":") = Len(One(a.tag)) + 1
            /\ From(Bare(a), Find(Bare(a), ":") + 1) = ArgName(a)
        BY <1>2, <2>2, <2>3, <2>4, <3>1, AroundToken
      <3>4. Find(Bare(a), ":") = 2
        BY <3>2, <3>3
      <3>5. QED
        BY <3>3, <3>4
    <2>9. TagEnd(Bare(a)) = 2
      <3>1. a.tag # LeftBrace
        BY <1>3, <2>1
      <3>2. QED
        BY <2>7, <2>8, <3>1 DEF TagEnd
    <2>10. ArgumentRead(Marked(a), Bare(a), TagEnd(Bare(a))) =
             <<[tag |-> a.tag, by_reference |-> Marked(a) # Bare(a), array |-> Contains(ArgName(a), "[")]>>
      BY <2>7, <2>8, <2>9 DEF ArgumentRead
    <2>11. Contains(ArgName(a), "[") = a.array
      BY <1>1, <1>2 DEF Contains
    <2>12. Head(Bare(a)) \notin {"const", "&"}
      BY <2>1, <2>7
    <2>13. QED
      BY <2>5, <2>7, <2>10, <2>11, <2>12
  <1>6. QED
    BY <1>4, <1>5

LEMMA MarkedIs ==
  ASSUME NEW a \in Argument
  PROVE  /\ Marked(a) \in Seq(CoreWords) /\ Marked(a) \in Texts /\ Marked(a) # <<>>
         /\ Head(Marked(a)) # "const"
         /\ Strip(Marked(a), "&") = Bare(a)
         /\ Marked(a) # Bare(a) <=> a.by_reference
  <1>1. a.by_reference \in BOOLEAN
    BY DEF Argument
  <1>2. /\ Bare(a) \in Seq(CoreWords) /\ Bare(a) \in Texts /\ Bare(a) # <<>>
        /\ Head(Bare(a)) \notin {"const", "&"}
    BY BareIs
  <1>3. "&" \in CoreWords /\ "&" \in Tokens
    BY Marks DEF CoreWords
  <1>4. CASE ~a.by_reference
    <2>1. Marked(a) = Bare(a)
      <3>1. <<>> ++ Bare(a) = Bare(a)
        BY <1>2, CatIs
      <3>2. QED
        BY <1>4, <3>1 DEF Marked, When
    <2>2. QED
      BY <1>2, <1>4, <2>1 DEF Strip
  <1>5. CASE a.by_reference
    <2>1. Marked(a) = One("&") ++ Bare(a)
      BY <1>5 DEF Marked, When
    <2>2. Marked(a) \in Seq(CoreWords)
      BY <1>2, <1>3, <2>1, WordsCat, WordsOne
    <2>3. /\ Marked(a) \in Texts /\ Marked(a) # <<>> /\ Head(Marked(a)) = "&" /\ Tail(Marked(a)) = Bare(a)
          /\ Len(Marked(a)) = Len(Bare(a)) + 1
      BY <1>2, <1>3, <2>1, FirstIs
    <2>4. Marked(a) # Bare(a)
      <3>1. Len(Bare(a)) \in Nat
        BY <1>2, TextsAre
      <3>2. QED
        BY <2>3, <3>1
    <2>5. QED
      BY <1>5, <2>2, <2>3, <2>4 DEF Strip
  <1>6. QED
    BY <1>1, <1>4, <1>5

LEMMA CoreIs ==
  ASSUME NEW a \in Argument
  PROVE  /\ Core(a) \in Seq(CoreWords) /\ Core(a) \in Texts /\ Core(a) # <<>>
         /\ Strip(Core(a), "const") = Marked(a)
  <1>1. a.const \in BOOLEAN
    BY DEF Argument
  <1>2. /\ Marked(a) \in Seq(CoreWords) /\ Marked(a) \in Texts /\ Marked(a) # <<>>
        /\ Head(Marked(a)) # "const"
    BY MarkedIs
  <1>3. "const" \in CoreWords /\ "const" \in Tokens
    BY ListWordsAre DEF CoreWords
  <1>4. CASE ~a.const
    <2>1. Core(a) = Marked(a)
      <3>1. <<>> ++ Marked(a) = Marked(a)
        BY <1>2, CatIs
      <3>2. QED
        BY <1>4, <3>1 DEF Core, When
    <2>2. QED
      BY <1>2, <1>4, <2>1 DEF Strip
  <1>5. CASE a.const
    <2>1. Core(a) = One("const") ++ Marked(a)
      BY <1>5 DEF Core, When
    <2>2. Core(a) \in Seq(CoreWords)
      BY <1>2, <1>3, <2>1, WordsCat, WordsOne
    <2>3. /\ Core(a) \in Texts /\ Core(a) # <<>> /\ Head(Core(a)) = "const" /\ Tail(Core(a)) = Marked(a)
      BY <1>2, <1>3, <2>1, FirstIs
    <2>4. QED
      BY <2>2, <2>3 DEF Strip
  <1>6. QED
    BY <1>1, <1>4, <1>5

\* An argument is read as what it was written from, whatever its default is.
LEMMA ArgumentIsRead ==
  ASSUME NEW a \in Argument, NEW written \in Texts,
         \/ written = Core(a)
         \/ \E default \in Texts : written = Core(a) ++ (One("=") ++ default)
  PROVE  parse_argument(written) = <<Shape(a)>>
  <1>1. /\ Core(a) \in Seq(CoreWords) /\ Core(a) \in Texts
        /\ Strip(Core(a), "const") = Marked(a)
    BY CoreIs
  <1>2. CoreWords \in SUBSET Tokens /\ "=" \notin CoreWords /\ "..." \notin CoreWords
    BY ListWordsAre
  <1>3. ~Contains(Core(a), "=")
    BY <1>1, <1>2, WordsOnly
  <1>4. Before(written, "=") = Core(a)
    <2>1. CASE written = Core(a)
      BY <1>3, <2>1 DEF Before
    <2>2. CASE \E default \in Texts : written = Core(a) ++ (One("=") ++ default)
      <3>1. PICK default \in Texts : written = Core(a) ++ (One("=") ++ default)
        BY <2>2
      <3>2. Contains(written, "=") /\ SubSeq(written, 1, Find(written, "=") - 1) = Core(a)
        BY <1>1, <1>3, <3>1, AroundToken, Marks
      <3>3. QED
        BY <3>2 DEF Before
    <2>3. QED
      BY <2>1, <2>2
  <1>5. /\ Marked(a) \in Seq(CoreWords) /\ Marked(a) # <<>>
        /\ Strip(Marked(a), "&") = Bare(a)
        /\ Marked(a) # Bare(a) <=> a.by_reference
    BY MarkedIs
  <1>6. ~Contains(Marked(a), "...")
    BY <1>2, <1>5, WordsOnly
  <1>7. parse_argument(written) = WithoutDefault(Marked(a), Bare(a))
    BY <1>1, <1>4, <1>5, <1>6 DEF parse_argument
  <1>8. WithoutDefault(Marked(a), Bare(a)) =
          <<[tag |-> a.tag, by_reference |-> Marked(a) # Bare(a), array |-> a.array]>>
    BY BareIs DEF WithoutDefault
  <1>9. (Marked(a) # Bare(a)) = a.by_reference
    <2>1. a.by_reference \in BOOLEAN
      BY DEF Argument
    <2>2. QED
      BY <1>5, <2>1
  <1>10. QED
    BY <1>7, <1>8, <1>9 DEF Shape

(***************************************************************************)
(* Lists of arguments: what separates them and what is cut.                *)
(***************************************************************************)

\* g[i] is the first i of `items` with commas between them.
Joins(items, g) ==
  /\ g \in [0 .. Len(items) -> Texts]
  /\ g[0] = <<>>
  /\ \A i \in 1 .. Len(items) : g[i] = g[i - 1] ++ (When(i # 1, One(Comma)) ++ items[i])
  /\ g[Len(items)] = Join(items, <<Comma>>)

LEMMA CommaIs == Comma \in Tokens /\ One(Comma) \in Texts
  <1>1. Comma \in Tokens
    BY DEF Tokens, Words, Punctuation
  <1>2. QED
    BY <1>1, OneIs

LEMMA JoinIs ==
  ASSUME NEW items \in Lists
  PROVE  \E g : Joins(items, g)
  <1> DEFINE N == Len(items)
             ss == [i \in DOMAIN items |-> When(i # 1, <<Comma>>) \o items[i]]
  <1>1. N \in Nat /\ DOMAIN items = 1 .. N /\ \A i \in 1 .. N : items[i] \in Texts
    BY DEF Lists
  <1>2. \A i \in 1 .. N : /\ When(i # 1, <<Comma>>) \o items[i] \in Texts
                          /\ When(i # 1, <<Comma>>) \o items[i] = When(i # 1, One(Comma)) ++ items[i]
    <2>1. TAKE i \in 1 .. N
    <2>2. When(i # 1, <<Comma>>) = When(i # 1, One(Comma))
      BY DEF One
    <2>3. When(i # 1, One(Comma)) \in Texts
      BY CommaIs, TextsAre DEF When
    <2>4. When(i # 1, One(Comma)) ++ items[i] \in Texts
      BY <1>1, <2>3, CatIs
    <2>5. QED
      BY <2>2, <2>4 DEF ++
  <1>3. ss \in Seq(Texts) /\ Len(ss) = N
    <2>1. ss \in [1 .. N -> Texts]
      BY <1>1, <1>2
    <2>2. QED
      BY <1>1, <2>1
  <1>4. PICK g : Flattens(Tokens, ss, g)
    BY <1>3, FlattenIs DEF Texts
  <1>5. /\ g \in [0 .. N -> Texts] /\ g[0] = <<>>
        /\ \A i \in 1 .. N : g[i] = g[i - 1] \o ss[i]
        /\ g[N] = FlattenSeq(ss)
    BY <1>3, <1>4 DEF Flattens, Texts
  <1>6. FlattenSeq(ss) = Join(items, <<Comma>>)
    BY DEF Join
  <1>7. \A i \in 1 .. N : g[i] = g[i - 1] ++ (When(i # 1, One(Comma)) ++ items[i])
    <2>1. TAKE i \in 1 .. N
    <2>2. ss[i] = When(i # 1, One(Comma)) ++ items[i]
      BY <1>1, <1>2
    <2> HIDE DEF ss
    <2>3. QED
      BY <1>5, <2>2 DEF ++
  <1>8. QED
    BY <1>5, <1>6, <1>7 DEF Joins

\* What a list has in it.
LEMMA JoinContains ==
  ASSUME NEW items \in Lists, NEW token, token # Comma
  PROVE  Contains(Join(items, <<Comma>>), token) <=>
           \E i \in 1 .. Len(items) : Contains(items[i], token)
  <1> DEFINE N == Len(items)
  <1>1. N \in Nat /\ \A i \in 1 .. N : items[i] \in Texts
    BY DEF Lists
  <1>2. PICK g : Joins(items, g)
    BY JoinIs
  <1>3. /\ g \in [0 .. N -> Texts] /\ g[0] = <<>>
        /\ \A i \in 1 .. N : g[i] = g[i - 1] ++ (When(i # 1, One(Comma)) ++ items[i])
        /\ g[N] = Join(items, <<Comma>>)
    BY <1>2 DEF Joins
  <1> DEFINE P == [n \in 0 .. N |-> Contains(g[n], token) <=> \E i \in 1 .. n : Contains(items[i], token)]
  <1>4. P \in [0 .. N -> BOOLEAN] /\ P[0]
    <2>1. 0 \in 0 .. N
      BY <1>1
    <2>2. P[0] = (Contains(g[0], token) <=> \E i \in 1 .. 0 : Contains(items[i], token))
      BY <2>1
    <2>3. ~Contains(g[0], token)
      BY <1>3, ContainsNone
    <2>4. ~\E i \in 1 .. 0 : Contains(items[i], token)
      OBVIOUS
    <2>5. P \in [0 .. N -> BOOLEAN]
      OBVIOUS
    <2> HIDE DEF P
    <2>6. QED
      BY <2>2, <2>3, <2>4, <2>5
  <1>5. ASSUME NEW n \in 0 .. N, n < N, P[n]
        PROVE  P[n + 1]
    <2>1. n + 1 \in 1 .. N /\ n + 1 \in 0 .. N /\ (n + 1) - 1 = n
      BY <1>1, <1>5
    <2>2. g[n + 1] = g[n] ++ (When(n + 1 # 1, One(Comma)) ++ items[n + 1])
      BY <1>3, <2>1
    <2>3. When(n + 1 # 1, One(Comma)) \in Texts /\ ~Contains(When(n + 1 # 1, One(Comma)), token)
      <3>1. ~Contains(One(Comma), token)
        BY ContainsIn
      <3>2. QED
        BY <3>1, CommaIs, TextsAre, ContainsNone DEF When
    <2>4. g[n] \in Texts /\ items[n + 1] \in Texts
      BY <1>1, <1>3, <2>1
    <2>5. Contains(g[n + 1], token) <=> Contains(g[n], token) \/ Contains(items[n + 1], token)
      <3>1. When(n + 1 # 1, One(Comma)) ++ items[n + 1] \in Texts
        BY <2>3, <2>4, CatIs
      <3>2. QED
        BY <2>2, <2>3, <2>4, <3>1, ContainsCat
    <2>6. Contains(g[n], token) <=> \E i \in 1 .. n : Contains(items[i], token)
      BY <1>5
    <2>7. Contains(g[n + 1], token) <=> \E i \in 1 .. n + 1 : Contains(items[i], token)
      <3>1. \A i \in 1 .. n + 1 : i \in 1 .. n \/ i = n + 1
        BY <1>1, <1>5
      <3>2. \A i \in 1 .. n : i \in 1 .. n + 1
        BY <1>1, <1>5
      <3>3. n + 1 \in 1 .. n + 1
        BY <1>1, <1>5
      <3>4. QED
        BY <2>5, <2>6, <3>1, <3>2, <3>3
    <2>8. QED
      BY <2>1, <2>7
  <1>6. \A n \in 0 .. N : P[n]
    <2> HIDE DEF P
    <2>1. QED
      BY <1>1, <1>4, <1>5, UpTo
  <1>7. P[N]
    BY <1>1, <1>6
  <1>8. N \in 0 .. N
    BY <1>1
  <1>9. QED
    BY <1>3, <1>7, <1>8

\* A list is cut where it was joined; its last item may leave a bracket open.
LEMMA JoinIsSplit ==
  ASSUME NEW items \in Lists, NEW depth \in Int,
         \A i \in 1 .. Len(items) : items[i] # <<>>,
         \A i \in 1 .. Len(items) : Grows(items[i], 0, IF i = Len(items) THEN depth ELSE 0)
  PROVE  split_arguments(Join(items, <<Comma>>)) = items
  <1> DEFINE N == Len(items)
  <1>1. /\ N \in Nat /\ \A i \in 1 .. N : items[i] \in Texts
        /\ \A i \in 1 .. N : items[i] # <<>> /\ Grows(items[i], 0, IF i = N THEN depth ELSE 0)
        /\ N = Len(items)
    BY DEF Lists
  <1>2. PICK g : Joins(items, g)
    BY JoinIs
  <1>3. /\ g \in [0 .. N -> Texts] /\ g[0] = <<>>
        /\ \A i \in 1 .. N : g[i] = g[i - 1] ++ (When(i # 1, One(Comma)) ++ items[i])
        /\ g[N] = Join(items, <<Comma>>)
    BY <1>2 DEF Joins
  <1> HIDE DEF N
  <1> DEFINE first(n) == SubSeq(items, 1, n)
             end(n) == Cut(first(n - 1), items[n], IF n = N THEN depth ELSE 0)
             start == Cut(<<>>, <<>>, 0)
             P == [n \in 0 .. N |-> n # 0 => Runs(Splitting, split, g[n], start, end(n))]
  <1>4. /\ start \in Splitting
        /\ \A n \in 0 .. N : first(n) \in Lists
    <2>1. <<>> \in Lists /\ <<>> \in Texts
      BY ListsAre, TextsAre
    <2>2. start \in Splitting
      BY <2>1, SplitIs
    <2>3. ASSUME NEW n \in 0 .. N
          PROVE  first(n) \in Lists
      <3>1. \A i \in 1 .. n : items[i] \in Texts
        BY <1>1
      <3>2. QED
        BY <1>1, <3>1, SubSeqProperties DEF Lists
    <2>4. QED
      BY <2>2, <2>3
  <1>5. ASSUME NEW n \in 1 .. N - 1
        PROVE  Append(first(n - 1), items[n]) = first(n)
    <2>1. n \in 1 .. N
      BY <1>1
    <2>2. first(n) = first(n - 1) \o <<items[n]>>
      <3>1. 1 \in 1 .. Len(items) /\ n \in 1 .. Len(items)
        BY <1>1, <2>1
      <3>2. QED
        BY <3>1, SubSeqRecursiveSecond DEF Lists
    <2>3. first(n - 1) \in Lists /\ items[n] \in Texts
      <3>1. n - 1 \in 0 .. N
        BY <1>1, <2>1
      <3>2. QED
        BY <1>1, <1>4, <2>1, <3>1
    <2> HIDE DEF first
    <2>4. QED
      BY <2>2, <2>3, AppendIsConcat DEF Lists
  <1>6. P \in [0 .. N -> BOOLEAN] /\ P[0]
    <2>1. 0 \in 0 .. N
      BY <1>1
    <2>2. P[0] = (0 # 0 => Runs(Splitting, split, g[0], start, end(0)))
      BY <2>1
    <2>3. P \in [0 .. N -> BOOLEAN]
      BY DEF Runs
    <2> HIDE DEF P
    <2>4. QED
      BY <2>2, <2>3
  <1>7. ASSUME NEW n \in 0 .. N, n < N, P[n]
        PROVE  P[n + 1]
    <2>1. n + 1 \in 1 .. N /\ n + 1 \in 0 .. N /\ (n + 1) - 1 = n
      BY <1>1, <1>7
    <2>2. g[n + 1] = g[n] ++ (When(n + 1 # 1, One(Comma)) ++ items[n + 1])
      BY <1>3, <2>1
    <2>3. g[n] \in Texts /\ items[n + 1] \in Texts
      BY <1>1, <1>3, <2>1
    <2>4. first(n) \in Lists
      BY <1>4
    <2>5. Grows(items[n + 1], 0, IF n + 1 = N THEN depth ELSE 0)
      BY <1>1, <2>1
    <2>6. end(n + 1) = Cut(first(n), items[n + 1], IF n + 1 = N THEN depth ELSE 0)
      BY <2>1
    <2>7. Runs(Splitting, split, items[n + 1], Cut(first(n), <<>>, 0), end(n + 1))
      <3>1. <<>> \in Texts /\ <<>> ++ items[n + 1] = items[n + 1]
        BY <2>3, TextsAre, CatIs
      <3> HIDE DEF end, first
      <3>2. Runs(Splitting, split, items[n + 1], Cut(first(n), <<>>, 0),
                 Cut(first(n), <<>> ++ items[n + 1], IF n + 1 = N THEN depth ELSE 0))
        BY <2>4, <2>5, <3>1 DEF Grows
      <3>3. QED
        BY <2>6, <3>1, <3>2
    <2>8. Runs(Splitting, split, g[n + 1], start, end(n + 1))
      <3>1. CASE n = 0
        <4>1. first(0) = <<>>
          BY SubSeqEmpty
        <4>2. g[n + 1] = items[n + 1]
          <5>1. When(n + 1 # 1, One(Comma)) = <<>>
            BY <3>1 DEF When
          <5>2. g[n] = <<>>
            BY <1>3, <3>1
          <5>3. <<>> ++ (<<>> ++ items[n + 1]) = items[n + 1]
            BY <2>3, TextsAre, CatIs
          <5>4. QED
            BY <2>2, <5>1, <5>2, <5>3
        <4>3. QED
          BY <2>7, <3>1, <4>1, <4>2
      <3>2. CASE n # 0
        <4>1. n \in 1 .. N - 1 /\ n # N
          BY <1>1, <1>7, <3>2
        <4>2. n \in 1 .. N
          BY <1>1, <4>1
        <4>3. Runs(Splitting, split, g[n], start, Cut(first(n - 1), items[n], 0))
          BY <1>7, <3>2, <4>1
        <4>4. n - 1 \in 0 .. N /\ items[n] \in Texts
          BY <1>1, <4>2
        <4>5. first(n - 1) \in Lists
          BY <1>4, <4>4
        <4>6. Append(first(n - 1), items[n]) = first(n)
          BY <1>5, <4>1
        <4> HIDE DEF first, end, start
        <4>7. /\ Cut(first(n - 1), items[n], 0) \in Splitting
              /\ split[<<Cut(first(n - 1), items[n], 0), Comma>>] = Cut(first(n), <<>>, 0)
          <5>1. Cut(first(n - 1), items[n], 0) \in Splitting
            BY <4>4, <4>5, SplitIs
          <5>2. split[<<Cut(first(n - 1), items[n], 0), Comma>>] =
                  Cut(Append(first(n - 1), items[n]), <<>>, 0)
            <6>1. Comma \in Tokens /\ 0 \in Int
              BY CommaIs
            <6>2. split[<<Cut(first(n - 1), items[n], 0), Comma>>] =
                    IF Comma = Comma /\ 0 = 0 THEN Cut(Append(first(n - 1), items[n]), <<>>, 0)
                    ELSE Cut(first(n - 1), items[n] ++ One(Comma), 0 + Deeper(Comma))
              BY <4>4, <4>5, <6>1, SplitIs
            <6>3. QED
              BY <6>2
          <5>3. QED
            BY <4>6, <5>1, <5>2
        <4>8. Runs(Splitting, split, One(Comma), Cut(first(n - 1), items[n], 0), Cut(first(n), <<>>, 0))
          <5>1. split \in [Splitting \X Tokens -> Splitting]
            BY SplitIs
          <5>2. QED
            BY <4>7, <5>1, CommaIs, RunsOne DEF One
        <4>9. Runs(Splitting, split, One(Comma) ++ items[n + 1], Cut(first(n - 1), items[n], 0), end(n + 1))
          BY <2>3, <2>7, <4>8, CommaIs, RunsOn DEF ++
        <4>10. One(Comma) ++ items[n + 1] \in Texts
          BY <2>3, CommaIs, CatIs
        <4>11. g[n + 1] = g[n] ++ (One(Comma) ++ items[n + 1])
          <5>1. n + 1 # 1
            BY <3>2
          <5>2. QED
            BY <2>2, <5>1 DEF When
        <4>12. QED
          BY <2>3, <4>3, <4>9, <4>10, <4>11, RunsOn DEF ++
      <3>3. QED
        BY <3>1, <3>2
    <2>9. QED
      <3> HIDE DEF start, end
      <3>1. QED
        BY <2>1, <2>8
  <1>8. \A n \in 0 .. N : P[n]
    <2> HIDE DEF P
    <2>1. QED
      BY <1>1, <1>6, <1>7, UpTo
  <1>9. N # 0 => Runs(Splitting, split, Join(items, <<Comma>>), start, Cut(first(N - 1), items[N], depth))
    <2>1. N \in 0 .. N
      BY <1>1
    <2>2. P[N] = (N # 0 => Runs(Splitting, split, g[N], start, end(N)))
      BY <2>1
    <2>3. end(N) = Cut(first(N - 1), items[N], depth)
      OBVIOUS
    <2> HIDE DEF end, start, P
    <2>4. QED
      BY <1>3, <1>8, <2>1, <2>2, <2>3
  <1>10. Join(items, <<Comma>>) \in Texts
    <2>1. N \in 0 .. N
      BY <1>1
    <2>2. QED
      BY <1>3, <2>1
  <1>11. CASE N = 0
    <2>1. items = <<>>
      BY <1>1, <1>11, EmptySeq DEF Lists
    <2>7. Join(items, <<Comma>>) = <<>>
      BY <1>3, <1>11
    <2>2. Runs(Splitting, split, <<>>, start, start)
      BY <1>4, RunsNone
    <2>3. split_arguments(<<>>) = <<>> \o When(<<>> # <<>>, << <<>> >>)
      <3>1. <<>> \in Texts
        BY TextsAre
      <3>2. QED
        BY <2>2, <3>1, SplitArgumentsIs
    <2>4. When(<<>> # <<>>, << <<>> >>) = <<>>
      BY DEF When
    <2>5. <<>> \o <<>> = <<>>
      OBVIOUS
    <2>6. QED
      BY <2>1, <2>3, <2>4, <2>5, <2>7
  <1>12. CASE N # 0
    <2>1. N \in 1 .. N /\ items[N] # <<>> /\ items[N] \in Texts
      BY <1>1, <1>12
    <2>2. Runs(Splitting, split, Join(items, <<Comma>>), Cut(<<>>, <<>>, 0), Cut(first(N - 1), items[N], depth))
      BY <1>9, <1>12
    <2>3. split_arguments(Join(items, <<Comma>>)) = first(N - 1) \o When(items[N] # <<>>, <<items[N]>>)
      <3> HIDE DEF first
      <3>1. QED
        BY <1>10, <2>2, SplitArgumentsIs
    <2>4. When(items[N] # <<>>, <<items[N]>>) = <<items[N]>>
      BY <2>1 DEF When
    <2>5. first(N - 1) \o <<items[N]>> = items
      <3>1. N - 1 \in 0 .. N
        BY <2>1
      <3>2. first(N - 1) \in Lists
        BY <1>4, <3>1
      <3>4. SubSeq(items, 1, N) = SubSeq(items, 1, N - 1) \o <<items[N]>>
        <4>1. 1 \in 1 .. Len(items) /\ N \in 1 .. Len(items)
          BY <1>1, <2>1
        <4>2. QED
          BY <4>1, SubSeqRecursiveSecond DEF Lists
      <3>5. SubSeq(items, 1, N) = items
        BY <1>1, SubSeqFull DEF Lists
      <3>6. QED
        BY <3>4, <3>5
    <2>6. QED
      BY <2>3, <2>4, <2>5
  <1>13. QED
    BY <1>11, <1>12

LEMMA ConsIs ==
  ASSUME NEW c \in Tokens, NEW text \in Texts, NEW all \in Texts,
         Len(all) = Len(text) + 1, all[1] = c, \A i \in 1 .. Len(text) : all[i + 1] = text[i]
  PROVE  all = One(c) ++ text
  <1>1. /\ One(c) ++ text \in Texts /\ Len(One(c) ++ text) = Len(text) + 1
        /\ (One(c) ++ text)[1] = c
    BY FirstIs
  <1>2. \A i \in 1 .. Len(text) : (One(c) ++ text)[1 + i] = text[i]
    <2>1. One(c) \in Texts /\ Len(One(c)) = 1
      BY OneIs
    <2>2. \A i \in 1 .. Len(text) : (One(c) ++ text)[Len(One(c)) + i] = text[i]
      BY <2>1, CatIs
    <2>3. QED
      BY <2>1, <2>2
  <1> DEFINE other == One(c) ++ text
  <1>3. \A i \in 1 .. Len(other) : other[i] = all[i]
    <2> HIDE DEF other
    <2>1. Len(text) \in Nat
      BY TextsAre
    <2>2. /\ Len(other) = Len(text) + 1 /\ other[1] = c
          /\ \A i \in 1 .. Len(text) : other[1 + i] = text[i]
      BY <1>1, <1>2 DEF other
    <2>3. TAKE i \in 1 .. Len(other)
    <2>4. CASE i = 1
      BY <2>2, <2>4
    <2>5. CASE i # 1
      <3>1. i - 1 \in 1 .. Len(text) /\ 1 + (i - 1) = i /\ (i - 1) + 1 = i
        BY <2>1, <2>2, <2>5
      <3>2. QED
        BY <2>2, <3>1
    <2>6. QED
      BY <2>4, <2>5
  <1>4. QED
    <2> HIDE DEF other
    <2>1. other \in Seq(Tokens) /\ all \in Seq(Tokens) /\ Len(other) = Len(all)
      BY <1>1 DEF Texts, other
    <2>2. other = all
      BY <1>3, <2>1, SeqEqual
    <2>3. QED
      BY <2>2 DEF other

LEMMA Tuple2 ==
  ASSUME NEW a, NEW b, {a, b} \subseteq Tokens
  PROVE  <<a, b>> = One(a) ++ One(b)
  <1>1. /\ <<a, b>> \in Texts /\ One(b) \in Texts /\ Len(<<a, b>>) = Len(One(b)) + 1 /\ <<a, b>>[1] = a
        /\ \A i \in 1 .. Len(One(b)) : <<a, b>>[i + 1] = One(b)[i]
    BY DEF Texts, One
  <1>2. QED
    BY <1>1, ConsIs

LEMMA Tuple3 ==
  ASSUME NEW a, NEW b, NEW c, {a, b, c} \subseteq Tokens
  PROVE  <<a, b, c>> = One(a) ++ (One(b) ++ One(c))
  <1>1. /\ <<a, b, c>> \in Texts /\ <<b, c>> \in Texts
        /\ Len(<<a, b, c>>) = Len(<<b, c>>) + 1
        /\ <<a, b, c>>[1] = a
        /\ \A i \in 1 .. Len(<<b, c>>) : <<a, b, c>>[i + 1] = <<b, c>>[i]
    BY DEF Texts
  <1>2. <<a, b, c>> = One(a) ++ <<b, c>>
    BY <1>1, ConsIs
  <1>3. <<b, c>> = One(b) ++ One(c)
    <2>1. {b, c} \subseteq Tokens
      OBVIOUS
    <2>2. QED
      BY <2>1, Tuple2
  <1>4. QED
    BY <1>2, <1>3

LEMMA Tuple4 ==
  ASSUME NEW a, NEW b, NEW c, NEW d, {a, b, c, d} \subseteq Tokens
  PROVE  <<a, b, c, d>> = One(a) ++ (One(b) ++ (One(c) ++ One(d)))
  <1>1. /\ <<a, b, c, d>> \in Texts /\ <<b, c, d>> \in Texts
        /\ Len(<<a, b, c, d>>) = Len(<<b, c, d>>) + 1
        /\ <<a, b, c, d>>[1] = a
        /\ \A i \in 1 .. Len(<<b, c, d>>) : <<a, b, c, d>>[i + 1] = <<b, c, d>>[i]
    BY DEF Texts
  <1>2. <<a, b, c, d>> = One(a) ++ <<b, c, d>>
    BY <1>1, ConsIs
  <1>3. <<b, c, d>> = One(b) ++ (One(c) ++ One(d))
    <2>1. {b, c, d} \subseteq Tokens
      OBVIOUS
    <2>2. QED
      BY <2>1, Tuple3
  <1>4. QED
    BY <1>2, <1>3

LEMMA Tuple5 ==
  ASSUME NEW a, NEW b, NEW c, NEW d, NEW e, {a, b, c, d, e} \subseteq Tokens
  PROVE  <<a, b, c, d, e>> = One(a) ++ (One(b) ++ (One(c) ++ (One(d) ++ One(e))))
  <1>1. /\ <<a, b, c, d, e>> \in Texts /\ <<b, c, d, e>> \in Texts
        /\ Len(<<a, b, c, d, e>>) = Len(<<b, c, d, e>>) + 1
        /\ <<a, b, c, d, e>>[1] = a
        /\ \A i \in 1 .. Len(<<b, c, d, e>>) : <<a, b, c, d, e>>[i + 1] = <<b, c, d, e>>[i]
    BY DEF Texts
  <1>2. <<a, b, c, d, e>> = One(a) ++ <<b, c, d, e>>
    BY <1>1, ConsIs
  <1>3. <<b, c, d, e>> = One(b) ++ (One(c) ++ (One(d) ++ One(e)))
    <2>1. {b, c, d, e} \subseteq Tokens
      OBVIOUS
    <2>2. QED
      BY <2>1, Tuple4
  <1>4. QED
    BY <1>2, <1>3

LEMMA Tuple6 ==
  ASSUME NEW a, NEW b, NEW c, NEW d, NEW e, NEW f, {a, b, c, d, e, f} \subseteq Tokens
  PROVE  <<a, b, c, d, e, f>> = One(a) ++ (One(b) ++ (One(c) ++ (One(d) ++ (One(e) ++ One(f)))))
  <1>1. /\ <<a, b, c, d, e, f>> \in Texts /\ <<b, c, d, e, f>> \in Texts
        /\ Len(<<a, b, c, d, e, f>>) = Len(<<b, c, d, e, f>>) + 1
        /\ <<a, b, c, d, e, f>>[1] = a
        /\ \A i \in 1 .. Len(<<b, c, d, e, f>>) : <<a, b, c, d, e, f>>[i + 1] = <<b, c, d, e, f>>[i]
    BY DEF Texts
  <1>2. <<a, b, c, d, e, f>> = One(a) ++ <<b, c, d, e, f>>
    BY <1>1, ConsIs
  <1>3. <<b, c, d, e, f>> = One(b) ++ (One(c) ++ (One(d) ++ (One(e) ++ One(f))))
    <2>1. {b, c, d, e, f} \subseteq Tokens
      OBVIOUS
    <2>2. QED
      BY <2>1, Tuple5
  <1>4. QED
    BY <1>2, <1>3

(***************************************************************************)
(* An argument as it is written, with its default.                         *)
(***************************************************************************)

LEMMA Depths ==
  /\ \A c \in {"const", "&", "float", "bool", ":", "arg", "=", "0", "sizeof", "...", Comma, Untagged} :
       Deeper(c) = 0
  /\ Deeper("(") = 1 /\ Deeper("[") = 1 /\ Deeper(LeftBrace) = 1
  /\ Deeper("]") = -1 /\ Deeper(RightBrace) = -1
  <1>1. Brackets.open = {"(", "[", LeftBrace} /\ Brackets.close = {")", "]", RightBrace}
    BY DEF Brackets
  <1>2. QED
    BY <1>1, NamedTokens DEF Deeper

\* Tokens inside an argument leave the depth alone.
LEMMA GrowsWord ==
  ASSUME NEW c \in {"const", "&", "float", "bool", ":", "arg", "=", "0", "sizeof", "...", Untagged},
         NEW d \in Int
  PROVE  Grows(One(c), d, d)
  <1>1. c \in ListWords
    BY DEF ListWords, CoreWords
  <1>2. c \in Tokens
    BY <1>1, ListWordsAre
  <1>3. c # Comma /\ Deeper(c) = 0
    BY Depths, NamedTokens
  <1>4. d + 0 = d
    OBVIOUS
  <1>5. QED
    BY <1>2, <1>3, <1>4, GrowsOne

LEMMA GrowsWhen ==
  ASSUME NEW condition \in BOOLEAN, NEW text, NEW d \in Int, condition => Grows(text, d, d)
  PROVE  Grows(When(condition, text), d, d)
  BY GrowsNone DEF When

\* A text in brackets.
LEMMA GrowsInside ==
  ASSUME NEW open \in {"[", LeftBrace}, NEW close \in {"]", RightBrace}, NEW text, Grows(text, 1, 1)
  PROVE  /\ Grows(One(open) ++ (text ++ One(close)), 0, 0)
         /\ Grows(One(open) ++ One(close), 0, 0)
  <1>1. open \in Tokens /\ close \in Tokens
    BY ListWordsAre DEF ListWords, CoreWords
  <1>2. Grows(One(open), 0, 1)
    <2>1. open # Comma /\ Deeper(open) = 1 /\ 0 + 1 = 1
      BY Depths, NamedTokens
    <2>2. QED
      BY <1>1, <2>1, GrowsOne
  <1>3. Grows(One(close), 1, 0)
    <2>1. close # Comma /\ Deeper(close) = -1 /\ 1 + (-1) = 0
      BY Depths, NamedTokens
    <2>2. QED
      BY <1>1, <2>1, GrowsOne
  <1>4. QED
    BY <1>2, <1>3, GrowsBoth

LEMMA CoreGrows ==
  ASSUME NEW a \in Argument
  PROVE  Grows(Core(a), 0, 0)
  <1>1. a.const \in BOOLEAN /\ a.by_reference \in BOOLEAN /\ a.array \in BOOLEAN /\ a.tag \in Tags
    BY DEF Argument
  <1>2. Grows(<<>>, 1, 1) /\ Grows(One("["), 0, 1) /\ Grows(One("]"), 1, 0)
    <2>1. "[" \in Tokens /\ "]" \in Tokens /\ "[" # Comma /\ "]" # Comma
      BY NamedTokens, Marks
    <2>2. Deeper("[") = 1 /\ Deeper("]") = -1 /\ 0 + 1 = 1 /\ 1 + (-1) = 0
      BY Depths
    <2>3. QED
      BY <2>1, <2>2, GrowsOne, GrowsNone
  <1>3. Grows(When(a.array, One("[") ++ One("]")), 0, 0)
    <2>1. Grows(One("[") ++ One("]"), 0, 0)
      BY <1>2, GrowsBoth
    <2>2. QED
      BY <1>1, <2>1, GrowsWhen
  <1>4. Grows(ArgName(a), 0, 0)
    <2>1. Grows(One("arg"), 0, 0)
      BY GrowsWord
    <2>2. QED
      BY <1>3, <2>1, GrowsBoth DEF ArgName
  <1>5. Grows(Bare(a), 0, 0)
    <2>1. a.tag # None => Grows(One(a.tag) ++ One(":"), 0, 0)
      <3>1. HAVE a.tag # None
      <3>2. a.tag \in {"float", "bool"}
        BY <1>1, <3>1 DEF Tags
      <3>3. Grows(One(a.tag), 0, 0) /\ Grows(One(":"), 0, 0)
        BY <3>2, GrowsWord
      <3>4. QED
        BY <3>3, GrowsBoth
    <2>2. Grows(When(a.tag # None, One(a.tag) ++ One(":")), 0, 0)
      BY <2>1, GrowsNone DEF When
    <2>3. QED
      BY <1>4, <2>2, GrowsBoth DEF Bare
  <1>6. Grows(Marked(a), 0, 0)
    <2>1. Grows(When(a.by_reference, One("&")), 0, 0)
      <3>1. Grows(One("&"), 0, 0)
        BY GrowsWord
      <3>2. QED
        BY <1>1, <3>1, GrowsWhen
    <2>2. QED
      BY <1>5, <2>1, GrowsBoth DEF Marked
  <1>7. Grows(When(a.const, One("const")), 0, 0)
    <2>1. Grows(One("const"), 0, 0)
      BY GrowsWord
    <2>2. QED
      BY <1>1, <2>1, GrowsWhen
  <1>8. QED
    BY <1>6, <1>7, GrowsBoth DEF Core

\* A default, and what of it is in front of the first closing parenthesis.
Default(kind) ==
  CASE kind = "none"  -> <<>>
    [] kind = "value" -> One("=") ++ One("0")
    [] kind = "list"  -> One("=") ++ (One(LeftBrace) ++ (One("0") ++ (One(Comma) ++ (One("0") ++ One(RightBrace)))))
    [] kind = "size"  -> One("=") ++ (One("sizeof") ++ (One("(") ++ (One("arg") ++ One(")"))))
ReadDefault(kind) ==
  IF kind = "size" THEN One("=") ++ (One("sizeof") ++ (One("(") ++ One("arg"))) ELSE Default(kind)

LEMMA DefaultIs ==
  ASSUME NEW kind \in Additional
  PROVE  /\ Addition(kind) = Default(kind)
         /\ ReadDefault(kind) \in Seq(ListWords) /\ ReadDefault(kind) \in Texts
         /\ Default(kind) = ReadDefault(kind) ++ When(kind = "size", One(")"))
         /\ ReadDefault(kind) = <<>> \/ \E text \in Texts : ReadDefault(kind) = One("=") ++ text
         /\ Grows(ReadDefault(kind), 0, IF kind = "size" THEN 1 ELSE 0)
         /\ ~Contains(ReadDefault(kind), "...")
  <1> DEFINE W == {"=", "0", "sizeof", "(", "arg", LeftBrace, RightBrace, Comma}
  <1>1. W \subseteq ListWords /\ W \subseteq Tokens /\ ")" \in Tokens
    BY ListWordsAre, Marks DEF ListWords, CoreWords
  <1>2. /\ "=" \in W /\ "0" \in W /\ "sizeof" \in W /\ "(" \in W /\ "arg" \in W
        /\ LeftBrace \in W /\ RightBrace \in W /\ Comma \in W /\ "..." \notin W
    BY NamedTokens
  <1> HIDE DEF W
  <1>3. /\ \A c \in W : One(c) \in Seq(W) /\ One(c) \in Texts /\ c \in Tokens
        /\ One(")") \in Texts
    BY <1>1, WordsOne, OneIs
  <1>4. ASSUME NEW text \in Seq(W)
        PROVE  text \in Texts /\ text \in Seq(ListWords) /\ ~Contains(text, "...")
    <2>1. W \in SUBSET Tokens
      BY <1>1
    <2>2. text \in Seq(ListWords)
      BY <1>1, SeqMonotonic
    <2>3. QED
      BY <1>2, <2>1, <2>2, WordsOnly
  <1>5. \A a, b \in Seq(W) : a ++ b \in Seq(W)
    BY WordsCat
  <1>6. \A d \in Int : /\ Grows(One("="), d, d) /\ Grows(One("0"), d, d)
                       /\ Grows(One("sizeof"), d, d) /\ Grows(One("arg"), d, d)
    BY GrowsWord
  <1>7. CASE kind = "none"
    <2>1. Addition(kind) = <<>> /\ Default(kind) = <<>> /\ ReadDefault(kind) = <<>>
      BY <1>7 DEF Addition, Default, ReadDefault
    <2>2. <<>> \in Seq(ListWords) /\ <<>> \in Texts /\ When(kind = "size", One(")")) = <<>>
      BY <1>7, TextsAre DEF When
    <2>3. <<>> ++ <<>> = <<>>
      BY <2>2, CatIs
    <2>4. Grows(<<>>, 0, 0) /\ ~Contains(<<>>, "...")
      BY GrowsNone, ContainsNone
    <2>5. QED
      BY <1>7, <2>1, <2>2, <2>3, <2>4
  <1>8. CASE kind = "value"
    <2>1. /\ Addition(kind) = <<"=", "0">> /\ Default(kind) = One("=") ++ One("0")
          /\ ReadDefault(kind) = One("=") ++ One("0") /\ When(kind = "size", One(")")) = <<>>
      BY <1>8 DEF Addition, Default, ReadDefault, When
    <2>2. <<"=", "0">> = One("=") ++ One("0")
      BY <1>2, <1>3, Tuple2
    <2>3. One("=") ++ One("0") \in Seq(W)
      BY <1>2, <1>3, <1>5
    <2>4. Grows(One("=") ++ One("0"), 0, 0)
      BY <1>6, GrowsBoth
    <2>5. (One("=") ++ One("0")) ++ <<>> = One("=") ++ One("0")
      BY <1>4, <2>3, CatIs
    <2>6. QED
      BY <1>2, <1>3, <1>4, <1>8, <2>1, <2>2, <2>3, <2>4, <2>5
  <1>9. CASE kind = "list"
    <2> DEFINE inner == One("0") ++ (One(Comma) ++ One("0"))
               text == One(LeftBrace) ++ (One("0") ++ (One(Comma) ++ (One("0") ++ One(RightBrace))))
    <2>1. /\ Addition(kind) = <<"=", LeftBrace, "0", Comma, "0", RightBrace>>
          /\ Default(kind) = One("=") ++ text
          /\ ReadDefault(kind) = One("=") ++ text /\ When(kind = "size", One(")")) = <<>>
      BY <1>9 DEF Addition, Default, ReadDefault, When
    <2>2. <<"=", LeftBrace, "0", Comma, "0", RightBrace>> = One("=") ++ text
      <3>1. {"=", LeftBrace, "0", Comma, RightBrace} \subseteq Tokens
        BY <1>2, <1>3
      <3>2. {"=", LeftBrace, "0", Comma, "0", RightBrace} \subseteq Tokens
        BY <3>1
      <3>3. QED
        BY <3>2, Tuple6, SMTT(20)
    <2>3. text \in Seq(W) /\ One("=") ++ text \in Seq(W)
      BY <1>2, <1>3, <1>5
    <2>4. text = One(LeftBrace) ++ (inner ++ One(RightBrace))
      <3>1. One("0") ++ One(RightBrace) \in Texts /\ One(Comma) ++ One("0") \in Texts
        BY <1>2, <1>3, CatIs
      <3>2. (One(Comma) ++ One("0")) ++ One(RightBrace) = One(Comma) ++ (One("0") ++ One(RightBrace))
        BY <1>2, <1>3, CatRegroups
      <3>3. inner ++ One(RightBrace) = One("0") ++ ((One(Comma) ++ One("0")) ++ One(RightBrace))
        BY <1>2, <1>3, <3>1, CatRegroups
      <3>4. QED
        BY <3>2, <3>3
    <2>5. Grows(One("=") ++ text, 0, 0)
      <3>1. Grows(One(Comma), 1, 1)
        <4>1. Deeper(Comma) = 0 /\ 1 + 0 = 1
          BY Depths
        <4>2. QED
          BY <1>2, <1>3, <4>1, GrowsOne
      <3>2. Grows(inner, 1, 1)
        <4>1. Grows(One("0"), 1, 1)
          BY <1>6
        <4>2. Grows(One(Comma) ++ One("0"), 1, 1)
          BY <3>1, <4>1, GrowsBoth
        <4>3. QED
          BY <4>1, <4>2, GrowsBoth
      <3>3. Grows(text, 0, 0)
        <4> HIDE DEF inner, text
        <4>1. QED
          BY <2>4, <3>2, GrowsInside
      <3>4. QED
        BY <1>6, <3>3, GrowsBoth
    <2> HIDE DEF text, inner
    <2>6. (One("=") ++ text) ++ <<>> = One("=") ++ text
      BY <1>4, <2>3, CatIs
    <2>7. QED
      BY <1>4, <1>9, <2>1, <2>2, <2>3, <2>5, <2>6
  <1>10. CASE kind = "size"
    <2> DEFINE text == One("sizeof") ++ (One("(") ++ One("arg"))
    <2>1. /\ Addition(kind) = <<"=", "sizeof", "(", "arg", ")">>
          /\ Default(kind) = One("=") ++ (One("sizeof") ++ (One("(") ++ (One("arg") ++ One(")"))))
          /\ ReadDefault(kind) = One("=") ++ text /\ When(kind = "size", One(")")) = One(")")
      BY <1>10 DEF Addition, Default, ReadDefault, When
    <2>2. <<"=", "sizeof", "(", "arg", ")">> =
            One("=") ++ (One("sizeof") ++ (One("(") ++ (One("arg") ++ One(")"))))
      <3>1. {"=", "sizeof", "(", "arg", ")"} \subseteq Tokens
        BY <1>1, <1>2, <1>3
      <3>2. QED
        BY <3>1, Tuple5
    <2>3. text \in Seq(W) /\ One("=") ++ text \in Seq(W)
      BY <1>2, <1>3, <1>5
    <2>4. One("=") ++ (One("sizeof") ++ (One("(") ++ (One("arg") ++ One(")")))) =
            (One("=") ++ text) ++ One(")")
      <3>1. One("(") ++ One("arg") \in Texts /\ text \in Texts
        BY <1>2, <1>3, CatIs
      <3>2. (One("(") ++ One("arg")) ++ One(")") = One("(") ++ (One("arg") ++ One(")"))
        BY <1>2, <1>3, CatRegroups
      <3>3. text ++ One(")") = One("sizeof") ++ ((One("(") ++ One("arg")) ++ One(")"))
        BY <1>2, <1>3, <3>1, CatRegroups
      <3>4. (One("=") ++ text) ++ One(")") = One("=") ++ (text ++ One(")"))
        <4> HIDE DEF text
        <4>1. QED
          BY <1>2, <1>3, <3>1, CatRegroups
      <3>5. QED
        BY <3>2, <3>3, <3>4
    <2>5. Grows(One("=") ++ text, 0, 1)
      <3>1. Grows(One("("), 0, 1)
        <4>1. "(" # Comma /\ Deeper("(") = 1 /\ 0 + 1 = 1 /\ "(" \in Tokens
          BY Depths, NamedTokens, Marks
        <4>2. QED
          BY <4>1, GrowsOne
      <3>2. Grows(One("sizeof"), 0, 0) /\ Grows(One("arg"), 1, 1)
        BY <1>6
      <3>4. Grows(One("(") ++ One("arg"), 0, 1)
        BY <3>1, <3>2, GrowsBoth
      <3>5. Grows(text, 0, 1)
        BY <3>2, <3>4, GrowsBoth
      <3>6. QED
        BY <1>6, <3>5, GrowsBoth
    <2> HIDE DEF text
    <2>6. QED
      BY <1>4, <1>10, <2>1, <2>2, <2>3, <2>4, <2>5
  <1>11. QED
    BY <1>7, <1>8, <1>9, <1>10 DEF Additional

ReadText(a) == Core(a) ++ ReadDefault(a.addition)

LEMMA ReadTextIs ==
  ASSUME NEW a \in Argument
  PROVE  /\ ReadText(a) \in Seq(ListWords) /\ ReadText(a) \in Texts /\ ReadText(a) # <<>>
         /\ parse_argument(ReadText(a)) = <<Shape(a)>>
         /\ Grows(ReadText(a), 0, IF a.addition = "size" THEN 1 ELSE 0)
         /\ ~Contains(ReadText(a), "...")
         /\ ArgumentText(a) = ReadText(a) ++ When(a.addition = "size", One(")"))
  <1>1. /\ a.const \in BOOLEAN /\ a.by_reference \in BOOLEAN /\ a.array \in BOOLEAN
        /\ a.tag \in Tags /\ a.addition \in Additional
    BY DEF Argument
  <1> DEFINE r == ReadDefault(a.addition)
  <1>2. /\ Addition(a.addition) = Default(a.addition)
        /\ r \in Seq(ListWords) /\ r \in Texts
        /\ Default(a.addition) = r ++ When(a.addition = "size", One(")"))
        /\ r = <<>> \/ \E text \in Texts : r = One("=") ++ text
        /\ Grows(r, 0, IF a.addition = "size" THEN 1 ELSE 0)
        /\ ~Contains(r, "...")
    BY <1>1, DefaultIs
  <1>3. Core(a) \in Seq(CoreWords) /\ Core(a) \in Texts /\ Core(a) # <<>>
    BY CoreIs
  <1>4. Core(a) \in Seq(ListWords) /\ ~Contains(Core(a), "...")
    <2>1. CoreWords \in SUBSET Tokens /\ "..." \notin CoreWords /\ CoreWords \subseteq ListWords
      BY ListWordsAre
    <2>2. QED
      BY <1>3, <2>1, WordsOnly, SeqMonotonic
  <1> HIDE DEF r
  <1>5. ReadText(a) = Core(a) ++ r
    BY DEF ReadText, r
  <1>6. ReadText(a) \in Seq(ListWords) /\ ReadText(a) \in Texts
    BY <1>2, <1>3, <1>4, <1>5, WordsCat, CatIs
  <1>7. ReadText(a) # <<>>
    <2>1. Len(ReadText(a)) = Len(Core(a)) + Len(r) /\ Len(r) \in Nat /\ Len(Core(a)) \in Nat /\ Len(Core(a)) # 0
      BY <1>2, <1>3, <1>5, CatIs, TextsAre
    <2>2. Len(ReadText(a)) # 0
      BY <2>1
    <2>3. QED
      BY <1>6, <2>2, TextsAre
  <1>8. parse_argument(ReadText(a)) = <<Shape(a)>>
    <2>1. CASE r = <<>>
      <3>1. ReadText(a) = Core(a)
        BY <1>3, <1>5, <2>1, CatIs
      <3>2. QED
        BY <1>6, <3>1, ArgumentIsRead
    <2>2. CASE \E text \in Texts : r = One("=") ++ text
      <3>1. \E default \in Texts : ReadText(a) = Core(a) ++ (One("=") ++ default)
        BY <1>5, <2>2
      <3>2. QED
        BY <1>6, <3>1, ArgumentIsRead
    <2>3. QED
      BY <1>2, <2>1, <2>2
  <1>9. Grows(ReadText(a), 0, IF a.addition = "size" THEN 1 ELSE 0)
    BY <1>2, <1>5, CoreGrows, GrowsBoth
  <1>10. ~Contains(ReadText(a), "...")
    BY <1>2, <1>3, <1>4, <1>5, ContainsCat
  <1>11. ArgumentText(a) = Core(a) ++ Default(a.addition)
    <2> DEFINE C == When(a.const, One("const"))
               R == When(a.by_reference, One("&"))
               T == When(a.tag # None, One(a.tag) ++ One(":"))
               A == One("arg")
               B == When(a.array, One("[") ++ One("]"))
               D == Default(a.addition)
    <2>1. /\ "const" \in Tokens /\ "&" \in Tokens /\ "arg" \in Tokens /\ "[" \in Tokens /\ "]" \in Tokens
          /\ ":" \in Tokens
          /\ a.tag # None => a.tag \in Tokens
      BY <1>1, ListWordsAre DEF ListWords, CoreWords, Tags
    <2>2. /\ C \in Texts /\ R \in Texts /\ T \in Texts /\ A \in Texts /\ B \in Texts
      <3>1. One("[") ++ One("]") \in Texts
        BY <2>1, OneIs, CatIs
      <3>2. a.tag # None => One(a.tag) ++ One(":") \in Texts
        <4>1. HAVE a.tag # None
        <4>2. One(a.tag) \in Texts /\ One(":") \in Texts
          BY <2>1, <4>1, OneIs
        <4>3. QED
          BY <4>2, CatIs
      <3>3. QED
        BY <2>1, <3>1, <3>2, OneIs, TextsAre DEF When
    <2>3. D \in Texts
      <3>1. When(a.addition = "size", One(")")) \in Texts
        BY Marks, OneIs, TextsAre DEF When
      <3>2. QED
        BY <1>2, <3>1, CatIs
    <2>4. ArgumentText(a) = ((((C ++ R) ++ T) ++ A) ++ B) ++ D
      <3>1. When(a.const, <<"const">>) = C /\ When(a.by_reference, <<"&">>) = R /\ <<"arg">> = A
        BY DEF One
      <3>2. Tagged(a.tag) = T
        <4>1. CASE a.tag # None
          <5>1. a.tag \in Tokens /\ ":" \in Tokens
            BY <2>1, <4>1
          <5>2. <<a.tag, ":">> = One(a.tag) ++ One(":")
            BY <5>1, Tuple2
          <5>3. QED
            BY <4>1, <5>2 DEF Tagged, When
        <4>2. CASE a.tag = None
          BY <4>2 DEF Tagged, When
        <4>3. QED
          BY <4>1, <4>2
      <3>3. When(a.array, <<"[", "]">>) = B
        <4>1. <<"[", "]">> = One("[") ++ One("]")
          BY <2>1, Tuple2
        <4>2. QED
          BY <4>1
      <3>4. Addition(a.addition) = D
        BY <1>2
      <3> HIDE DEF C, R, T, A, B, D
      <3>5. QED
        BY <3>1, <3>2, <3>3, <3>4 DEF ArgumentText, ++
    <2>5. Core(a) = C ++ (R ++ (T ++ (A ++ B)))
      BY DEF Core, Marked, Bare, ArgName
    <2> HIDE DEF C, R, T, A, B, D
    <2>6. /\ C ++ R \in Texts /\ (C ++ R) ++ T \in Texts /\ ((C ++ R) ++ T) ++ A \in Texts
          /\ T ++ (A ++ B) \in Texts /\ A ++ B \in Texts
      BY <2>2, CatIs
    <2>7. C ++ (R ++ (T ++ (A ++ B))) = (C ++ R) ++ (T ++ (A ++ B))
      BY <2>2, <2>6, CatRegroups
    <2>8. (C ++ R) ++ (T ++ (A ++ B)) = ((C ++ R) ++ T) ++ (A ++ B)
      BY <2>2, <2>6, CatRegroups
    <2>9. ((C ++ R) ++ T) ++ (A ++ B) = (((C ++ R) ++ T) ++ A) ++ B
      BY <2>2, <2>6, CatRegroups
    <2>10. QED
      BY <2>4, <2>5, <2>7, <2>8, <2>9 DEF D
  <1>12. ArgumentText(a) = ReadText(a) ++ When(a.addition = "size", One(")"))
    <2>1. When(a.addition = "size", One(")")) \in Texts
      BY Marks, OneIs, TextsAre DEF When
    <2>2. QED
      BY <1>2, <1>3, <1>5, <1>11, <2>1, CatRegroups
  <1>13. QED
    BY <1>6, <1>7, <1>8, <1>9, <1>10, <1>12

LEMMA VarargsIs ==
  /\ Varargs \in Seq(ListWords) /\ Varargs \in Texts /\ Varargs # <<>>
  /\ Contains(Varargs, "...") /\ Grows(Varargs, 0, 0) /\ parse_argument(Varargs) = <<>>
  <1> DEFINE W == {LeftBrace, "float", Comma, Untagged, RightBrace, ":", "..."}
             inner == One("float") ++ (One(Comma) ++ One(Untagged))
             behind == One(":") ++ One("...")
             text == One("float") ++ (One(Comma) ++ (One(Untagged) ++ (One(RightBrace) ++ (One(":") ++ One("...")))))
  <1>1. W \subseteq ListWords /\ W \subseteq Tokens
    BY ListWordsAre DEF ListWords, CoreWords
  <1>2. /\ LeftBrace \in W /\ "float" \in W /\ Comma \in W /\ Untagged \in W /\ RightBrace \in W
        /\ ":" \in W /\ "..." \in W /\ "=" \notin W /\ LeftBrace # "const"
    BY NamedTokens
  <1> HIDE DEF W
  <1>3. \A c \in W : One(c) \in Seq(W) /\ One(c) \in Texts /\ c \in Tokens
    BY <1>1, WordsOne, OneIs
  <1>4. \A a, b \in Seq(W) : a ++ b \in Seq(W)
    BY WordsCat
  <1>5. Varargs = One(LeftBrace) ++ text
    <2> DEFINE six == <<"float", Comma, Untagged, RightBrace, ":", "...">>
    <2>1. {"float", Comma, Untagged, RightBrace, ":", "..."} \subseteq Tokens /\ LeftBrace \in Tokens
      BY <1>2, <1>3
    <2>2. /\ Varargs \in Texts /\ six \in Texts
          /\ Len(Varargs) = Len(six) + 1 /\ Varargs[1] = LeftBrace
          /\ \A i \in 1 .. Len(six) : Varargs[i + 1] = six[i]
      BY <2>1 DEF Varargs, Texts
    <2>3. six = text
      <3>1. {"float", Comma, Untagged, RightBrace, ":", "..."} \subseteq Tokens
        BY <2>1
      <3>2. QED
        BY <3>1, Tuple6, SMTT(20)
    <2> HIDE DEF six, text
    <2>4. Varargs = One(LeftBrace) ++ six
      BY <2>1, <2>2, ConsIs
    <2>5. QED
      BY <2>3, <2>4
  <1>6. text \in Seq(W) /\ One(LeftBrace) ++ text \in Seq(W)
    BY <1>2, <1>3, <1>4
  <1>7. text \in Texts /\ Varargs \in Texts /\ Varargs \in Seq(ListWords) /\ ~Contains(Varargs, "=")
    <2> HIDE DEF text
    <2>1. W \in SUBSET Tokens
      BY <1>1
    <2>2. Varargs \in Seq(W)
      BY <1>5, <1>6
    <2>3. QED
      BY <1>1, <1>2, <1>6, <2>1, <2>2, WordsOnly, SeqMonotonic
  <1>8. text = inner ++ (One(RightBrace) ++ behind)
    <2>1. /\ One(RightBrace) ++ behind \in Texts /\ One(Comma) ++ One(Untagged) \in Texts
      BY <1>2, <1>3, CatIs
    <2> HIDE DEF behind
    <2>2. inner ++ (One(RightBrace) ++ behind) =
            One("float") ++ ((One(Comma) ++ One(Untagged)) ++ (One(RightBrace) ++ behind))
      BY <1>2, <1>3, <2>1, CatRegroups
    <2>3. (One(Comma) ++ One(Untagged)) ++ (One(RightBrace) ++ behind) =
            One(Comma) ++ (One(Untagged) ++ (One(RightBrace) ++ behind))
      BY <1>2, <1>3, <2>1, CatRegroups
    <2>4. QED
      BY <2>2, <2>3 DEF behind
  <1>9. Contains(Varargs, "...")
    <2>1. Contains(One("..."), "...")
      BY ContainsIn
    <2>2. Contains(behind, "...")
      BY <1>2, <1>3, <2>1, ContainsCat
    <2>3. inner \in Texts /\ behind \in Texts
      BY <1>2, <1>3, CatIs
    <2> HIDE DEF inner, behind, text
    <2>4. One(RightBrace) ++ behind \in Texts /\ Contains(One(RightBrace) ++ behind, "...")
      BY <1>2, <1>3, <2>2, <2>3, CatIs, ContainsCat
    <2>5. Contains(text, "...")
      BY <1>8, <2>3, <2>4, ContainsCat
    <2>6. QED
      BY <1>2, <1>3, <1>5, <1>7, <2>5, ContainsCat
  <1>10. Grows(Varargs, 0, 0)
    <2>1. Grows(One("float"), 1, 1) /\ Grows(One(Untagged), 1, 1) /\ Grows(One(":"), 0, 0) /\ Grows(One("..."), 0, 0)
      BY GrowsWord
    <2>2. Grows(One(Comma), 1, 1)
      <3>1. Deeper(Comma) = 0 /\ 1 + 0 = 1
        BY Depths
      <3>2. QED
        BY <1>2, <1>3, <3>1, GrowsOne
    <2>3. Grows(inner, 1, 1) /\ Grows(behind, 0, 0)
      BY <2>1, <2>2, GrowsBoth
    <2>4. Grows(One(LeftBrace), 0, 1) /\ Grows(One(RightBrace), 1, 0)
      <3>1. LeftBrace # Comma /\ RightBrace # Comma
        BY NamedTokens
      <3>2. Deeper(LeftBrace) = 1 /\ Deeper(RightBrace) = -1 /\ 0 + 1 = 1 /\ 1 + (-1) = 0
        BY Depths
      <3>3. QED
        BY <1>2, <1>3, <3>1, <3>2, GrowsOne
    <2> HIDE DEF inner, behind, text
    <2>5. Grows(text, 1, 0)
      BY <1>8, <2>3, <2>4, GrowsBoth
    <2>6. QED
      BY <1>5, <2>4, <2>5, GrowsBoth
  <1>11. Head(Varargs) = LeftBrace /\ Varargs # <<>>
    <2> HIDE DEF text
    <2>1. QED
      BY <1>2, <1>3, <1>5, <1>7, FirstIs
  <1>12. parse_argument(Varargs) = <<>>
    <2>1. Before(Varargs, "=") = Varargs
      BY <1>7 DEF Before
    <2>2. Strip(Varargs, "const") = Varargs
      BY <1>2, <1>11 DEF Strip
    <2> HIDE DEF text
    <2>3. QED
      BY <1>9, <2>1, <2>2 DEF parse_argument
  <1>13. QED
    BY <1>7, <1>9, <1>10, <1>11, <1>12

(***************************************************************************)
(* A declaration, written and read.                                        *)
(***************************************************************************)

Decl == [tag : Tags, name : Names \cup Callbacks, arguments : Seq(Argument), variadic : BOOLEAN,
         implemented_by : Names \cup {None}]
Fits(d) == d \in Decl /\ SizeIsLast(d.arguments, d.variadic)

\* What is read of a declaration.
Plain(d) ==
  [name           |-> d.name,
   tag            |-> d.tag,
   arguments      |-> [i \in DOMAIN d.arguments |-> Shape(d.arguments[i])],
   variadic       |-> d.variadic,
   implemented_by |-> d.implemented_by,
   shape_known    |-> TRUE]

\* The list ends in a size, whose parenthesis is read as the end of the list.
Sized(d) == d.arguments # <<>> /\ d.arguments[Len(d.arguments)].addition = "size"
Closing(d) == When(Sized(d), One(")"))
Target(d) == When(d.implemented_by # None, One("=") ++ One(d.implemented_by))
Lead(d) == When(d.tag # None, One(d.tag) ++ One(":")) ++ One(d.name)
Trail(d) == Closing(d) ++ Target(d)
Items(d) == [i \in DOMAIN d.arguments |-> ArgumentText(d.arguments[i])] \o When(d.variadic, <<Varargs>>)
ReadItems(d) == [i \in DOMAIN d.arguments |-> ReadText(d.arguments[i])] \o When(d.variadic, <<Varargs>>)
ReadList(d) == Join(ReadItems(d), <<Comma>>)

LEMMA WithVarargs ==
  ASSUME NEW texts \in Lists, NEW open \in BOOLEAN, NEW all, all = texts \o When(open, <<Varargs>>)
  PROVE  /\ all \in Lists
         /\ Len(all) = Len(texts) + (IF open THEN 1 ELSE 0)
         /\ \A i \in 1 .. Len(texts) : all[i] = texts[i]
         /\ open => all[Len(texts) + 1] = Varargs
  <1>1. CASE open
    <2>1. <<Varargs>> \in Lists /\ Len(<<Varargs>>) = 1 /\ <<Varargs>>[1] = Varargs
      BY VarargsIs DEF Lists
    <2> DEFINE one == <<Varargs>>
    <2>2. all = texts \o one /\ one \in Seq(Texts) /\ Len(one) = 1 /\ one[1] = Varargs
      BY <1>1, <2>1 DEF When, Lists
    <2> HIDE DEF one
    <2>3. texts \in Seq(Texts) /\ Len(texts) \in Nat
      BY DEF Lists
    <2>4. /\ all \in Seq(Texts) /\ Len(all) = Len(texts) + 1
          /\ \A i \in 1 .. Len(texts) + Len(one) : all[i] = IF i <= Len(texts) THEN texts[i] ELSE one[i - Len(texts)]
      <3>1. /\ texts \o one \in Seq(Texts) /\ Len(texts \o one) = Len(texts) + Len(one)
            /\ \A i \in 1 .. Len(texts) + Len(one) :
                 (texts \o one)[i] = IF i <= Len(texts) THEN texts[i] ELSE one[i - Len(texts)]
        BY <2>2, <2>3, ConcatProperties
      <3>2. QED
        BY <2>2, <3>1
    <2>5. \A i \in 1 .. Len(texts) : all[i] = texts[i]
      BY <2>2, <2>3, <2>4
    <2>6. all[Len(texts) + 1] = Varargs
      <3>1. Len(texts) + 1 \in 1 .. Len(texts) + Len(one) /\ ~(Len(texts) + 1 <= Len(texts))
            /\ (Len(texts) + 1) - Len(texts) = 1
        BY <2>2, <2>3
      <3>2. QED
        BY <2>2, <2>4, <3>1
    <2>7. QED
      BY <1>1, <2>4, <2>5, <2>6 DEF Lists
  <1>2. CASE ~open
    <2>1. all = texts
      BY <1>2, ConcatEmptySeq DEF When, Lists
    <2>2. Len(texts) \in Nat
      BY DEF Lists
    <2>3. Len(all) = Len(texts) + 0 /\ (IF open THEN 1 ELSE 0) = 0
      BY <1>2, <2>1, <2>2
    <2>4. all \in Lists /\ \A i \in 1 .. Len(texts) : all[i] = texts[i]
      BY <2>1
    <2>5. QED
      BY <1>2, <2>3, <2>4
  <1>3. QED
    BY <1>1, <1>2

LEMMA CountIs ==
  ASSUME NEW n \in Nat, NEW open \in BOOLEAN, NEW N, N = n + (IF open THEN 1 ELSE 0)
  PROVE  /\ N \in Nat /\ n \in 0 .. N
         /\ \A i \in 1 .. N : (i \in 1 .. n) \/ (open /\ i = N)
         /\ open => N \in 1 .. N /\ N = n + 1
         /\ ~open => N = n
         /\ \A i \in 1 .. n : i = n /\ ~open <=> i = N
  OBVIOUS

LEMMA ItemsAre ==
  ASSUME NEW d, Fits(d)
  PROVE  LET n == Len(d.arguments)
             N == n + (IF d.variadic THEN 1 ELSE 0)
         IN /\ n \in Nat /\ N \in Nat
            /\ Items(d) \in Lists /\ ReadItems(d) \in Lists
            /\ Len(Items(d)) = N /\ Len(ReadItems(d)) = N
            /\ \A i \in 1 .. n : /\ d.arguments[i] \in Argument
                                 /\ Items(d)[i] = ArgumentText(d.arguments[i])
                                 /\ ReadItems(d)[i] = ReadText(d.arguments[i])
            /\ d.variadic => Items(d)[N] = Varargs /\ ReadItems(d)[N] = Varargs
            /\ \A i \in 1 .. n : d.arguments[i].addition = "size" <=> i = N /\ Sized(d)
            /\ Sized(d) => ~d.variadic /\ N # 0
  <1> DEFINE args == d.arguments
             n == Len(args)
             N == n + (IF d.variadic THEN 1 ELSE 0)
  <1>1. args \in Seq(Argument) /\ d.variadic \in BOOLEAN /\ SizeIsLast(args, d.variadic)
    BY DEF Fits, Decl
  <1> HIDE DEF args
  <1>2. /\ n \in Nat /\ DOMAIN args = 1 .. n /\ \A i \in 1 .. n : args[i] \in Argument
        /\ args = <<>> <=> n = 0
    BY <1>1, EmptySeq
  <1>3. /\ N \in Nat
        /\ d.variadic => N = n + 1
        /\ ~d.variadic => N = n
        /\ \A i \in 1 .. n : i = n /\ ~d.variadic <=> i = N
    <2>1. n \in Nat /\ d.variadic \in BOOLEAN
      BY <1>1, <1>2
    <2>2. N = n + (IF d.variadic THEN 1 ELSE 0)
      OBVIOUS
    <2> HIDE DEF n, N
    <2>3. QED
      BY <2>1, <2>2, CountIs
  <1> HIDE DEF N
  <1>4. \A a \in Argument : ReadText(a) \in Texts /\ ArgumentText(a) \in Texts
    <2>1. \A a \in Argument : When(a.addition = "size", One(")")) \in Texts
      BY Marks, OneIs, TextsAre DEF When
    <2>2. QED
      BY <2>1, ReadTextIs, CatIs
  <1> DEFINE written == [i \in DOMAIN args |-> ArgumentText(args[i])]
             read == [i \in DOMAIN args |-> ReadText(args[i])]
  <1>5. /\ written \in Lists /\ Len(written) = n /\ \A i \in 1 .. n : written[i] = ArgumentText(args[i])
        /\ read \in Lists /\ Len(read) = n /\ \A i \in 1 .. n : read[i] = ReadText(args[i])
    <2>1. written \in [1 .. n -> Texts] /\ read \in [1 .. n -> Texts]
      BY <1>2, <1>4
    <2>2. QED
      BY <1>2, <2>1 DEF Lists
  <1>6. Items(d) = written \o When(d.variadic, <<Varargs>>) /\ ReadItems(d) = read \o When(d.variadic, <<Varargs>>)
    BY DEF Items, ReadItems, args
  <1> HIDE DEF written, read
  <1>7. /\ Items(d) \in Lists /\ Len(Items(d)) = N /\ (d.variadic => Items(d)[n + 1] = Varargs)
        /\ \A i \in 1 .. n : Items(d)[i] = ArgumentText(args[i])
    <2>1. /\ Items(d) \in Lists /\ Len(Items(d)) = Len(written) + (IF d.variadic THEN 1 ELSE 0)
          /\ (d.variadic => Items(d)[Len(written) + 1] = Varargs)
          /\ \A i \in 1 .. Len(written) : Items(d)[i] = written[i]
      BY <1>1, <1>5, <1>6, WithVarargs
    <2>2. QED
      BY <1>5, <2>1 DEF N
  <1>8. /\ ReadItems(d) \in Lists /\ Len(ReadItems(d)) = N /\ (d.variadic => ReadItems(d)[n + 1] = Varargs)
        /\ \A i \in 1 .. n : ReadItems(d)[i] = ReadText(args[i])
    <2>1. /\ ReadItems(d) \in Lists /\ Len(ReadItems(d)) = Len(read) + (IF d.variadic THEN 1 ELSE 0)
          /\ (d.variadic => ReadItems(d)[Len(read) + 1] = Varargs)
          /\ \A i \in 1 .. Len(read) : ReadItems(d)[i] = read[i]
      BY <1>1, <1>5, <1>6, WithVarargs
    <2>2. QED
      BY <1>5, <2>1 DEF N
  <1>9. Sized(d) <=> n # 0 /\ args[n].addition = "size"
    BY <1>2 DEF Sized, args
  <1>10. \A i \in 1 .. n : args[i].addition = "size" => i = n /\ ~d.variadic
    BY <1>1, <1>2 DEF SizeIsLast
  <1>11. Sized(d) => ~d.variadic /\ N # 0
    <2>1. n # 0 => n \in 1 .. n
      BY <1>2
    <2>2. QED
      BY <1>2, <1>3, <1>9, <1>10, <2>1
  <1>12. \A i \in 1 .. n : args[i].addition = "size" <=> i = N /\ Sized(d)
    <2>1. TAKE i \in 1 .. n
    <2>2. ASSUME args[i].addition = "size"
          PROVE  i = N /\ Sized(d)
      <3>1. i = n /\ ~d.variadic
        BY <1>10, <2>2
      <3>2. i = N
        BY <1>3, <3>1
      <3>3. n # 0 /\ args[n].addition = "size"
        BY <1>2, <2>2, <3>1
      <3>4. QED
        BY <1>9, <3>2, <3>3
    <2>3. ASSUME i = N, Sized(d)
          PROVE  args[i].addition = "size"
      <3>1. i = n
        BY <1>3, <1>11, <2>3
      <3>2. QED
        BY <1>9, <2>3, <3>1
    <2>4. QED
      BY <2>2, <2>3
  <1>13. QED
    BY <1>2, <1>3, <1>7, <1>8, <1>11, <1>12 DEF args, N

\* The list is what is read of it and, behind a size, a parenthesis.
LEMMA ListIs ==
  ASSUME NEW d, Fits(d)
  PROVE  ReadList(d) \in Texts /\ List(d) = ReadList(d) ++ Closing(d)
  <1> DEFINE n == Len(d.arguments)
             N == n + (IF d.variadic THEN 1 ELSE 0)
             items == Items(d)
             read == ReadItems(d)
             rest(i) == When(i = N /\ Sized(d), One(")"))
  <1>1. /\ n \in Nat /\ N \in Nat
        /\ items \in Lists /\ read \in Lists
        /\ Len(items) = N /\ Len(read) = N
        /\ \A i \in 1 .. n : /\ d.arguments[i] \in Argument
                             /\ items[i] = ArgumentText(d.arguments[i])
                             /\ read[i] = ReadText(d.arguments[i])
        /\ d.variadic => items[N] = Varargs /\ read[N] = Varargs
        /\ \A i \in 1 .. n : d.arguments[i].addition = "size" <=> i = N /\ Sized(d)
        /\ Sized(d) => ~d.variadic /\ N # 0
        /\ d.variadic \in BOOLEAN
    BY ItemsAre DEF Fits, Decl
  <1>2. \A i \in 1 .. N : (i \in 1 .. n) \/ (d.variadic /\ i = N)
    <2>1. n \in Nat /\ d.variadic \in BOOLEAN
      BY <1>1
    <2> HIDE DEF n
    <2>2. QED
      BY <2>1, CountIs
  <1> HIDE DEF items, read, N
  <1>3. \A i \in Int : rest(i) \in Texts
    BY Marks, OneIs, TextsAre DEF When
  <1>4. \A i \in 1 .. N : items[i] = read[i] ++ rest(i) /\ read[i] \in Texts /\ items[i] \in Texts
    <2>1. TAKE i \in 1 .. N
    <2>2. CASE i \in 1 .. n
      <3>1. items[i] = ReadText(d.arguments[i]) ++ When(d.arguments[i].addition = "size", One(")"))
        BY <1>1, <2>2, ReadTextIs
      <3>2. When(d.arguments[i].addition = "size", One(")")) = rest(i)
        BY <1>1, <2>2 DEF When
      <3>3. read[i] \in Texts
        BY <1>1, <2>2, ReadTextIs
      <3>4. rest(i) \in Texts
        BY <1>3
      <3> HIDE DEF rest
      <3>5. QED
        BY <1>1, <2>2, <3>1, <3>2, <3>3, <3>4, CatIs
    <2>3. CASE d.variadic /\ i = N
      <3>1. rest(i) = <<>>
        BY <1>1, <2>3 DEF When
      <3>2. items[i] = Varargs /\ read[i] = Varargs
        BY <1>1, <2>3
      <3> HIDE DEF rest
      <3>3. QED
        BY <3>1, <3>2, VarargsIs, CatIs
    <2>4. QED
      BY <1>2, <2>2, <2>3
  <1>5. PICK g : Joins(items, g)
    BY <1>1, JoinIs
  <1>6. PICK h : Joins(read, h)
    BY <1>1, JoinIs
  <1>7. /\ g \in [0 .. N -> Texts] /\ g[0] = <<>>
        /\ \A i \in 1 .. N : g[i] = g[i - 1] ++ (When(i # 1, One(Comma)) ++ items[i])
        /\ g[N] = Join(items, <<Comma>>)
    BY <1>1, <1>5 DEF Joins
  <1>8. /\ h \in [0 .. N -> Texts] /\ h[0] = <<>>
        /\ \A i \in 1 .. N : h[i] = h[i - 1] ++ (When(i # 1, One(Comma)) ++ read[i])
        /\ h[N] = Join(read, <<Comma>>)
    BY <1>1, <1>6 DEF Joins
  <1> HIDE DEF rest
  <1> DEFINE P == [i \in 0 .. N |-> g[i] = h[i] ++ rest(i)]
  <1>9. P \in [0 .. N -> BOOLEAN] /\ P[0]
    <2>1. 0 \in 0 .. N
      BY <1>1
    <2>2. P[0] = (g[0] = h[0] ++ rest(0))
      BY <2>1
    <2>3. rest(0) = <<>>
      BY <1>1 DEF rest, When
    <2>4. <<>> = <<>> ++ <<>>
      BY TextsAre, CatIs
    <2>5. P \in [0 .. N -> BOOLEAN]
      OBVIOUS
    <2> HIDE DEF P
    <2>6. QED
      BY <1>7, <1>8, <2>2, <2>3, <2>4, <2>5
  <1>10. ASSUME NEW i \in 0 .. N, i < N, P[i]
         PROVE  P[i + 1]
    <2>1. i + 1 \in 1 .. N /\ i + 1 \in 0 .. N /\ (i + 1) - 1 = i /\ i \in Int /\ i + 1 \in Int
      BY <1>1, <1>10
    <2>2. g[i] = h[i]
      <3>1. rest(i) = <<>>
        BY <1>10 DEF rest, When
      <3>2. h[i] \in Texts
        BY <1>8
      <3>3. h[i] ++ <<>> = h[i]
        BY <3>2, CatIs
      <3>4. QED
        BY <1>10, <3>1, <3>3
    <2>3. h[i] \in Texts
      BY <1>8
    <2> DEFINE C == When(i + 1 # 1, One(Comma))
    <2>4. C \in Texts
      BY CommaIs, TextsAre DEF When
    <2>5. /\ g[i + 1] = h[i] ++ (C ++ items[i + 1])
          /\ h[i + 1] = h[i] ++ (C ++ read[i + 1])
      BY <1>7, <1>8, <2>1, <2>2
    <2>6. items[i + 1] = read[i + 1] ++ rest(i + 1) /\ read[i + 1] \in Texts /\ rest(i + 1) \in Texts
      BY <1>3, <1>4, <2>1
    <2> HIDE DEF C
    <2>7. C ++ read[i + 1] \in Texts
      BY <2>4, <2>6, CatIs
    <2>8. C ++ (read[i + 1] ++ rest(i + 1)) = (C ++ read[i + 1]) ++ rest(i + 1)
      BY <2>4, <2>6, CatRegroups
    <2>9. h[i] ++ ((C ++ read[i + 1]) ++ rest(i + 1)) = (h[i] ++ (C ++ read[i + 1])) ++ rest(i + 1)
      BY <2>3, <2>6, <2>7, CatRegroups
    <2>10. g[i + 1] = h[i + 1] ++ rest(i + 1)
      BY <2>5, <2>6, <2>8, <2>9
    <2>11. QED
      BY <2>1, <2>10
  <1>11. \A i \in 0 .. N : P[i]
    <2> HIDE DEF P
    <2>1. QED
      BY <1>1, <1>9, <1>10, UpTo
  <1>12. N \in 0 .. N
    BY <1>1
  <1>13. g[N] = h[N] ++ rest(N)
    BY <1>11, <1>12
  <1>14. rest(N) = Closing(d)
    BY <1>1 DEF rest, Closing, When
  <1>15. List(d) = g[N]
    BY <1>7 DEF List, Items, items
  <1>16. ReadList(d) = h[N] /\ h[N] \in Texts
    BY <1>8, <1>12 DEF ReadList, read
  <1>17. QED
    BY <1>13, <1>14, <1>15, <1>16

LEMMA ReadListIs ==
  ASSUME NEW d, Fits(d)
  PROVE  /\ \A token : token \notin ListWords => ~Contains(ReadList(d), token)
         /\ Contains(ReadList(d), "...") <=> d.variadic
         /\ split_arguments(ReadList(d)) = ReadItems(d)
         /\ FlattenSeq([i \in DOMAIN ReadItems(d) |-> parse_argument(ReadItems(d)[i])]) =
              [i \in DOMAIN d.arguments |-> Shape(d.arguments[i])]
  <1> DEFINE args == d.arguments
             n == Len(args)
             N == n + (IF d.variadic THEN 1 ELSE 0)
             read == ReadItems(d)
  <1>1. /\ n \in Nat /\ N \in Nat
        /\ read \in Lists /\ Len(read) = N
        /\ \A i \in 1 .. n : args[i] \in Argument /\ read[i] = ReadText(args[i])
        /\ d.variadic => read[N] = Varargs
        /\ \A i \in 1 .. n : args[i].addition = "size" <=> i = N /\ Sized(d)
        /\ Sized(d) => ~d.variadic /\ N # 0
        /\ d.variadic \in BOOLEAN /\ args \in Seq(Argument)
    BY ItemsAre DEF Fits, Decl
  <1>17. n \in Nat /\ d.variadic \in BOOLEAN
    BY <1>1
  <1>2. \A i \in 1 .. N : (i \in 1 .. n) \/ (d.variadic /\ i = N)
    <2> HIDE DEF n
    <2>2. QED
      BY <1>17, CountIs
  <1>13. d.variadic => N \in 1 .. N /\ N = n + 1
    <2> HIDE DEF n
    <2>2. QED
      BY <1>17, CountIs
  <1>14. ~d.variadic => N = n
    <2> HIDE DEF n
    <2>2. QED
      BY <1>17, CountIs
  <1>15. n \in 0 .. N
    <2> HIDE DEF n
    <2>2. QED
      BY <1>17, CountIs
  <1>16. DOMAIN args = 1 .. n
    BY <1>1
  <1> HIDE DEF read, N, args
  <1>3. \A i \in 1 .. N : /\ read[i] \in Seq(ListWords) /\ read[i] # <<>> /\ read[i] \in Texts
                          /\ Contains(read[i], "...") <=> i \notin 1 .. n
                          /\ Grows(read[i], 0, IF i = N THEN IF Sized(d) THEN 1 ELSE 0 ELSE 0)
                          /\ i \in 1 .. n => parse_argument(read[i]) = <<Shape(args[i])>>
                          /\ i \notin 1 .. n => parse_argument(read[i]) = <<>>
    <2>1. TAKE i \in 1 .. N
    <2>2. CASE i \in 1 .. n
      BY <1>1, <2>2, ReadTextIs
    <2>3. CASE d.variadic /\ i = N /\ i \notin 1 .. n
      BY <1>1, <2>3, VarargsIs
    <2>4. QED
      BY <1>2, <2>2, <2>3
  <1>4. ReadList(d) = Join(read, <<Comma>>)
    BY DEF ReadList, read
  <1>5. \A token : token \notin ListWords => ~Contains(ReadList(d), token)
    <2>1. TAKE token
    <2>2. HAVE token \notin ListWords
    <2>3. token # Comma
      BY <2>2 DEF ListWords
    <2>4. ListWords \in SUBSET Tokens
      BY ListWordsAre
    <2>5. \A i \in 1 .. N : ~Contains(read[i], token)
      BY <1>3, <2>2, <2>4, WordsOnly
    <2>6. QED
      BY <1>1, <1>4, <2>3, <2>5, JoinContains
  <1>6. Contains(ReadList(d), "...") <=> d.variadic
    <2>1. "..." # Comma
      BY NamedTokens
    <2>2. Contains(ReadList(d), "...") <=> \E i \in 1 .. N : Contains(read[i], "...")
      BY <1>1, <1>4, <2>1, JoinContains
    <2>3. (\E i \in 1 .. N : Contains(read[i], "...")) <=> \E i \in 1 .. N : i \notin 1 .. n
      BY <1>3
    <2>4. (\E i \in 1 .. N : i \notin 1 .. n) <=> d.variadic
      <3>1. CASE d.variadic
        <4>1. N \in 1 .. N /\ N \notin 1 .. n
          BY <1>1, <1>13, <3>1
        <4>2. QED
          BY <3>1, <4>1
      <3>2. CASE ~d.variadic
        BY <1>14, <3>2
      <3>3. QED
        BY <3>1, <3>2
    <2>5. QED
      BY <2>2, <2>3, <2>4
  <1>7. split_arguments(ReadList(d)) = read
    <2> DEFINE depth == IF Sized(d) THEN 1 ELSE 0
    <2>1. depth \in Int
      OBVIOUS
    <2>2. \A i \in 1 .. Len(read) : read[i] # <<>>
      BY <1>1, <1>3
    <2>3. \A i \in 1 .. Len(read) : Grows(read[i], 0, IF i = Len(read) THEN depth ELSE 0)
      BY <1>1, <1>3
    <2> HIDE DEF depth
    <2>4. QED
      BY <1>1, <1>4, <2>1, <2>2, <2>3, JoinIsSplit
  <1>8. FlattenSeq([i \in DOMAIN read |-> parse_argument(read[i])]) = [i \in DOMAIN args |-> Shape(args[i])]
    <2> DEFINE S == {Shape(a) : a \in Argument}
               parsed == [i \in DOMAIN read |-> parse_argument(read[i])]
               shapes == [i \in 1 .. n |-> Shape(args[i])]
    <2>1. shapes \in Seq(S) /\ Len(shapes) = n /\ \A i \in 1 .. n : shapes[i] = Shape(args[i])
      <3>1. \A i \in 1 .. n : Shape(args[i]) \in S
        BY <1>1
      <3> HIDE DEF S
      <3>2. shapes \in [1 .. n -> S]
        BY <3>1
      <3>3. QED
        BY <1>1, <3>2
    <2>2. \A i \in 1 .. n : parse_argument(read[i]) = <<shapes[i]>> /\ shapes[i] \in S
      <3>1. \A i \in 1 .. n : i \in 1 .. N /\ Shape(args[i]) \in S
        BY <1>1, <1>13, <1>14
      <3> HIDE DEF S
      <3>2. QED
        BY <1>3, <2>1, <3>1
    <2>3. \A i \in 1 .. N : i \notin 1 .. n => parse_argument(read[i]) = <<>>
      BY <1>3
    <2>4. DOMAIN read = 1 .. N
      BY <1>1 DEF Lists
    <2> HIDE DEF S, shapes
    <2>5. parsed \in Seq(Seq(S)) /\ Len(parsed) = N
      <3>1. \A i \in 1 .. N : parse_argument(read[i]) \in Seq(S)
        <4>1. TAKE i \in 1 .. N
        <4>2. CASE i \in 1 .. n
          <5>1. parse_argument(read[i]) = <<shapes[i]>> /\ shapes[i] \in S
            BY <2>2, <4>2
          <5>2. <<shapes[i]>> \in Seq(S)
            BY <5>1
          <5>3. QED
            BY <5>1, <5>2
        <4>3. CASE i \notin 1 .. n
          <5>1. <<>> \in Seq(S)
            OBVIOUS
          <5>2. QED
            BY <2>3, <4>3, <5>1
        <4>4. QED
          BY <4>2, <4>3
      <3>2. parsed \in [1 .. N -> Seq(S)]
        BY <2>4, <3>1
      <3>3. QED
        BY <1>1, <3>2
    <2>6. PICK g : Flattens(S, parsed, g)
      BY <2>5, FlattenIs
    <2>7. /\ g \in [0 .. N -> Seq(S)] /\ g[0] = <<>>
          /\ \A i \in 1 .. N : g[i] = g[i - 1] \o parse_argument(read[i])
          /\ g[N] = FlattenSeq(parsed)
      <3>1. \A i \in 1 .. N : parsed[i] = parse_argument(read[i])
        BY <2>4
      <3> HIDE DEF parsed
      <3>2. QED
        BY <2>5, <2>6, <3>1 DEF Flattens
    <2> DEFINE P == [i \in 0 .. n |-> g[i] = SubSeq(shapes, 1, i)]
    <2>8. P \in [0 .. n -> BOOLEAN] /\ P[0]
      <3>1. 0 \in 0 .. n
        BY <1>1
      <3>2. P[0] = (g[0] = SubSeq(shapes, 1, 0))
        BY <3>1
      <3>3. SubSeq(shapes, 1, 0) = <<>>
        BY SubSeqEmpty
      <3>4. P \in [0 .. n -> BOOLEAN]
        OBVIOUS
      <3> HIDE DEF P
      <3>5. QED
        BY <2>7, <3>2, <3>3, <3>4
    <2>9. ASSUME NEW i \in 0 .. n, i < n, P[i]
          PROVE  P[i + 1]
      <3>1. i + 1 \in 1 .. n /\ i + 1 \in 0 .. n /\ (i + 1) - 1 = i /\ i + 1 \in 1 .. N
        BY <1>1, <1>13, <1>14, <2>9
      <3>2. g[i + 1] = g[i] \o <<shapes[i + 1]>>
        BY <2>2, <2>7, <3>1
      <3>3. g[i] = SubSeq(shapes, 1, i)
        BY <2>9
      <3>4. SubSeq(shapes, 1, i + 1) = SubSeq(shapes, 1, (i + 1) - 1) \o <<shapes[i + 1]>>
        <4>1. 1 \in 1 .. Len(shapes) /\ i + 1 \in 1 .. Len(shapes)
          BY <2>1, <3>1
        <4>2. QED
          BY <2>1, <4>1, SubSeqRecursiveSecond
      <3>5. g[i + 1] = SubSeq(shapes, 1, i + 1)
        BY <3>1, <3>2, <3>3, <3>4
      <3>6. QED
        BY <3>1, <3>5
    <2>10. \A i \in 0 .. n : P[i]
      <3> HIDE DEF P
      <3>1. QED
        BY <1>1, <2>8, <2>9, UpTo
    <2>11. g[n] = shapes
      <3>1. n \in 0 .. n
        BY <1>1
      <3>2. g[n] = SubSeq(shapes, 1, n)
        BY <2>10, <3>1
      <3>3. SubSeq(shapes, 1, n) = shapes
        BY <2>1, SubSeqFull
      <3>4. QED
        BY <3>2, <3>3
    <2>12. g[N] = g[n]
      <3>1. CASE d.variadic
        <4>1. N \in 1 .. N /\ N - 1 = n /\ N \notin 1 .. n
          BY <1>1, <1>13, <3>1
        <4>2. g[N] = g[n] \o <<>>
          BY <2>3, <2>7, <4>1
        <4>3. g[n] \in Seq(S)
          BY <1>15, <2>7
        <4>4. QED
          BY <4>2, <4>3, ConcatEmptySeq
      <3>2. CASE ~d.variadic
        BY <1>14, <3>2
      <3>3. QED
        BY <3>1, <3>2
    <2>13. shapes = [i \in DOMAIN args |-> Shape(args[i])]
      BY <1>16 DEF shapes
    <2> HIDE DEF parsed
    <2>14. FlattenSeq(parsed) = [i \in DOMAIN args |-> Shape(args[i])]
      BY <2>7, <2>11, <2>12, <2>13
    <2>15. QED
      BY <2>14 DEF parsed
  <1>9. QED
    BY <1>5, <1>6, <1>7, <1>8 DEF read, args

(***************************************************************************)
(* Lines of an include.                                                    *)
(***************************************************************************)

LEMMA FindLastAt ==
  ASSUME NEW text \in Texts, NEW token, NEW i \in 1 .. Len(text), text[i] = token,
         \A j \in i + 1 .. Len(text) : text[j] # token
  PROVE  FindLast(text, token) = i
  <1> DEFINE I == {j \in 1 .. Len(text) : text[j] = token}
  <1>1. Len(text) \in Nat /\ i \in Int
    BY TextsAre
  <1>2. i \in I /\ \A j \in I : i >= j /\ j \in Int
    BY <1>1
  <1>3. FindLast(text, token) = Max(I)
    BY <1>2 DEF FindLast, SelectLastInSeq
  <1> HIDE DEF I
  <1>4. \A m \in I : (\A j \in I : m >= j) => m = i
    BY <1>1, <1>2
  <1>5. Max(I) = i
    BY <1>2, <1>4 DEF Max
  <1>6. QED
    BY <1>3, <1>5

LEMMA FindLastNone ==
  ASSUME NEW text \in Texts, NEW token, ~Contains(text, token)
  PROVE  FindLast(text, token) = 0
  BY DEF FindLast, SelectLastInSeq, Contains

\* A name is none of the tokens that are not names.
LEMMA NameIs ==
  ASSUME NEW name \in Names \cup Callbacks
  PROVE  /\ name \in Tokens /\ name \notin Words /\ name \notin Punctuation
         /\ name # None /\ One(name) \in Texts
         /\ Identifier(One(name))
  <1>1. name \in Tokens /\ name \notin Words
    BY PawnIncludeAssumption DEF Tokens
  <1>2. Punctuation \subseteq Words /\ None \in Words
    BY DEF Words
  <1>3. One(name) \in Texts /\ Len(One(name)) = 1 /\ One(name)[1] = name
    BY <1>1, OneIs
  <1>4. QED
    BY <1>1, <1>2, <1>3 DEF Identifier

\* One token behind the last colon is a name.
LEMMA LastTokenIs ==
  ASSUME NEW lead \in Texts, lead # <<>>, FindLast(lead, ":") = Len(lead) - 1,
         lead[Len(lead)] \notin Punctuation
  PROVE  Identifier(NameOf(lead))
  <1> DEFINE i == Len(lead) - 1
  <1>1. Len(lead) \in Nat /\ Len(lead) > 0
    BY TextsAre
  <1>2. lead \in Seq(Tokens) /\ i \in Nat /\ Len(lead) = i + 1
    BY <1>1 DEF Texts
  <1>6. NameOf(lead) = SubSeq(lead, i + 1, i + 1)
    BY <1>2 DEF NameOf, From
  <1> HIDE DEF i
  <1>3. i + 1 \in 1 .. Len(lead) + 1 /\ i + 1 \in i + 1 - 1 .. Len(lead) /\ (i + 1) - (i + 1) + 1 = 1
    BY <1>2
  <1>4. Len(SubSeq(lead, i + 1, i + 1)) = 1 /\ SubSeq(lead, i + 1, i + 1)[1] = lead[i + 1]
    BY <1>2, <1>3, SubSeqProperties
  <1>5. QED
    BY <1>2, <1>4, <1>6 DEF Identifier

LEMMA TagIs ==
  ASSUME NEW tag \in Tags, tag # None
  PROVE  /\ tag \in Tokens /\ ":" \in Tokens /\ tag \in {"float", "bool"}
         /\ One(tag) \in Texts /\ One(":") \in Texts /\ One(tag) ++ One(":") \in Texts
         /\ Tagged(tag) = One(tag) ++ One(":")
  <1>1. tag \in {"float", "bool"}
    BY DEF Tags
  <1>2. tag \in Tokens /\ ":" \in Tokens
    BY <1>1, ListWordsAre DEF ListWords, CoreWords
  <1>3. One(tag) \in Texts /\ One(":") \in Texts
    BY <1>2, OneIs
  <1>4. One(tag) ++ One(":") \in Texts
    BY <1>3, CatIs
  <1>5. {tag, ":"} \subseteq Tokens
    BY <1>2
  <1>6. <<tag, ":">> = One(tag) ++ One(":")
    BY <1>5, Tuple2
  <1>7. QED
    BY <1>1, <1>2, <1>3, <1>4, <1>6 DEF Tagged

\* What is in front of the parentheses.
LEMMA LeadIs ==
  ASSUME NEW d \in Decl
  PROVE  /\ HeadOK(Lead(d))
         /\ \A token \in Words : token \notin {"float", "bool", ":"} => ~Contains(Lead(d), token)
         /\ FindLast(Lead(d), ":") = (IF d.tag = None THEN 0 ELSE 2)
         /\ Lead(d)[(IF d.tag = None THEN 0 ELSE 2) + 1] = d.name
         /\ d.tag # None => Lead(d)[1] = d.tag
  <1>1. d.tag \in Tags /\ d.name \in Names \cup Callbacks
    BY DEF Decl
  <1>2. /\ d.name \in Tokens /\ d.name \notin Words /\ d.name \notin Punctuation
        /\ One(d.name) \in Texts /\ Len(One(d.name)) = 1 /\ One(d.name)[1] = d.name
    BY <1>1, NameIs, OneIs
  <1>3. \A token \in Words : ~Contains(One(d.name), token)
    BY <1>2, ContainsIn
  <1>4. /\ "(" \in Words /\ ")" \in Words /\ ":" \in Words
        /\ "(" \notin {"float", "bool", ":"} /\ ")" \notin {"float", "bool", ":"}
    BY DEF Words, Punctuation, Brackets
  <1>5. CASE d.tag = None
    <2>1. Lead(d) = One(d.name)
      <3>1. <<>> ++ One(d.name) = One(d.name)
        BY <1>2, CatIs
      <3>2. QED
        BY <1>5, <3>1 DEF Lead, When
    <2>2. FindLast(One(d.name), ":") = 0
      BY <1>2, <1>3, <1>4, FindLastNone
    <2>3. HeadOK(One(d.name))
      <3>1. One(d.name) # <<>>
        BY <1>2, TextsAre
      <3>2. Identifier(NameOf(One(d.name)))
        <4>1. FindLast(One(d.name), ":") = Len(One(d.name)) - 1
          BY <1>2, <2>2
        <4>2. QED
          BY <1>2, <3>1, <4>1, LastTokenIs
      <3>3. QED
        BY <1>2, <1>3, <1>4, <3>1, <3>2 DEF HeadOK
    <2>4. One(d.name)[0 + 1] = d.name
      BY <1>2
    <2>5. QED
      BY <1>3, <1>5, <2>1, <2>2, <2>3, <2>4
  <1>6. CASE d.tag # None
    <2>1. /\ d.tag \in Tokens /\ ":" \in Tokens /\ d.tag \in {"float", "bool"}
          /\ One(d.tag) \in Texts /\ One(":") \in Texts
      BY <1>1, <1>6, TagIs
    <2>2. Lead(d) = One(d.tag) ++ (One(":") ++ One(d.name))
      BY <1>2, <1>6, <2>1, CatRegroups DEF Lead, When
    <2> DEFINE behind == One(":") ++ One(d.name)
    <2>3. behind \in Texts /\ behind[1] = ":" /\ Len(behind) = 2
      <3>1. behind \in Texts /\ behind[1] = ":" /\ Len(behind) = Len(One(d.name)) + 1
        BY <1>2, <2>1, FirstIs
      <3> HIDE DEF behind
      <3>2. QED
        BY <1>2, <3>1
    <2>4. behind[2] = d.name
      <3>1. \A i \in 1 .. Len(One(d.name)) : behind[Len(One(":")) + i] = One(d.name)[i]
        BY <1>2, <2>1, CatIs
      <3>2. Len(One(":")) = 1
        BY <2>1, OneIs
      <3> HIDE DEF behind
      <3>5. 1 \in 1 .. Len(One(d.name))
        BY <1>2
      <3>6. behind[Len(One(":")) + 1] = One(d.name)[1]
        BY <3>1, <3>5
      <3>3. behind[1 + 1] = One(d.name)[1]
        BY <3>2, <3>6
      <3>4. QED
        BY <1>2, <3>3
    <2>5. \A token \in Words : token \notin {"float", "bool", ":"} => ~Contains(Lead(d), token)
      <3>1. TAKE token \in Words
      <3>2. HAVE token \notin {"float", "bool", ":"}
      <3>3. ~Contains(One(d.tag), token) /\ ~Contains(One(":"), token)
        BY <2>1, <3>2, ContainsIn
      <3>4. ~Contains(behind, token)
        BY <1>2, <1>3, <2>1, <3>3, ContainsCat
      <3> HIDE DEF behind
      <3>5. QED
        BY <2>1, <2>2, <2>3, <3>3, <3>4, ContainsCat DEF behind
    <2> HIDE DEF behind
    <2>6. Lead(d) = One(d.tag) ++ behind
      BY <2>2 DEF behind
    <2> DEFINE lead == Lead(d)
    <2>7. lead \in Texts /\ lead # <<>> /\ Len(lead) = 3 /\ lead[1] = d.tag
      <3> HIDE DEF lead
      <3>1. lead = One(d.tag) ++ behind
        BY <2>6 DEF lead
      <3>2. lead \in Texts /\ lead # <<>> /\ Len(lead) = Len(behind) + 1 /\ lead[1] = d.tag
        BY <2>1, <2>3, <3>1, FirstIs
      <3>3. QED
        BY <2>3, <3>2
    <2>8. lead[2] = ":" /\ lead[3] = d.name
      <3> HIDE DEF lead
      <3>5. lead = One(d.tag) ++ behind
        BY <2>6 DEF lead
      <3>1. \A i \in 1 .. Len(behind) : lead[Len(One(d.tag)) + i] = behind[i]
        BY <2>1, <2>3, <3>5, CatIs
      <3>2. Len(One(d.tag)) = 1
        BY <2>1, OneIs
      <3>3. lead[1 + 1] = behind[1] /\ lead[1 + 2] = behind[2]
        BY <2>3, <3>1, <3>2
      <3>4. QED
        BY <2>3, <2>4, <3>3
    <2> HIDE DEF lead
    <2>9. FindLast(lead, ":") = 2
      <3>1. 2 \in 1 .. Len(lead)
        BY <2>7
      <3>2. \A j \in 2 + 1 .. Len(lead) : lead[j] # ":"
        <4>1. d.name # ":"
          BY <1>2, <1>4
        <4>2. \A j \in 2 + 1 .. Len(lead) : j = 3
          BY <2>7
        <4>3. QED
          BY <2>8, <4>1, <4>2
      <3>3. QED
        BY <2>7, <2>8, <3>1, <3>2, FindLastAt
    <2>10. HeadOK(lead)
      <3>1. ~Contains(lead, "(") /\ ~Contains(lead, ")")
        BY <1>4, <2>5 DEF lead
      <3>2. Identifier(NameOf(lead))
        <4>1. FindLast(lead, ":") = Len(lead) - 1 /\ lead[Len(lead)] \notin Punctuation
          BY <1>2, <2>7, <2>8, <2>9
        <4>2. QED
          BY <2>7, <4>1, LastTokenIs
      <3>3. QED
        BY <2>7, <3>1, <3>2 DEF HeadOK
    <2>11. lead[2 + 1] = d.name
      BY <2>8
    <2>12. QED
      BY <1>6, <2>5, <2>7, <2>9, <2>10, <2>11 DEF lead
  <1>7. QED
    BY <1>5, <1>6

\* What is behind the list.
LEMMA TrailIs ==
  ASSUME NEW d \in Decl
  PROVE  /\ Closing(d) \in Texts /\ Target(d) \in Texts /\ Trail(d) \in Texts
         /\ \A token \in Words : token \notin {")", "="} => ~Contains(Trail(d), token)
         /\ Contains(Trail(d), "=") <=> d.implemented_by # None
         /\ d.implemented_by # None =>
              From(Trail(d), Find(Trail(d), "=") + 1) = One(d.implemented_by)
  <1>1. d.implemented_by \in Names \cup {None} /\ Sized(d) \in BOOLEAN
    BY DEF Decl, Sized
  <1>2. /\ ")" \in Tokens /\ "=" \in Tokens /\ One(")") \in Texts /\ One("=") \in Texts
    BY Marks, OneIs
  <1>3. /\ Closing(d) \in Texts
        /\ \A token : token # ")" => ~Contains(Closing(d), token)
    BY <1>2, ContainsIn, ContainsNone, TextsAre DEF Closing, When
  <1>4. CASE d.implemented_by = None
    <2>1. Target(d) = <<>> /\ Trail(d) = Closing(d)
      <3>1. Target(d) = <<>>
        BY <1>4 DEF Target, When
      <3>2. Closing(d) ++ <<>> = Closing(d)
        BY <1>3, CatIs
      <3>3. QED
        BY <3>1, <3>2 DEF Trail
    <2>2. "=" # ")"
      BY NamedTokens
    <2>3. QED
      BY <1>3, <1>4, <2>1, <2>2, TextsAre
  <1>5. CASE d.implemented_by # None
    <2> DEFINE name == d.implemented_by
    <2>1. name \in Names \cup Callbacks
      BY <1>1, <1>5
    <2>2. name \in Tokens /\ name \notin Words /\ One(name) \in Texts
      BY <2>1, NameIs
    <2>3. Target(d) = One("=") ++ One(name)
      BY <1>5 DEF Target, When
    <2>4. Target(d) \in Texts
      BY <1>2, <2>2, <2>3, CatIs
    <2>5. Trail(d) = Closing(d) ++ (One("=") ++ One(name))
      BY <2>3 DEF Trail
    <2> HIDE DEF name
    <2>6. ~Contains(Closing(d), "=")
      BY <1>3, NamedTokens
    <2>7. /\ Trail(d) \in Texts /\ Contains(Trail(d), "=")
          /\ From(Trail(d), Find(Trail(d), "=") + 1) = One(name)
      BY <1>2, <1>3, <2>2, <2>5, <2>6, AroundToken
    <2>8. \A token \in Words : token \notin {")", "="} => ~Contains(Trail(d), token)
      <3>1. TAKE token \in Words
      <3>2. HAVE token \notin {")", "="}
      <3>3. ~Contains(One("="), token) /\ ~Contains(One(name), token) /\ ~Contains(Closing(d), token)
        BY <1>3, <2>2, <3>2, ContainsIn
      <3>4. ~Contains(One("=") ++ One(name), token) /\ One("=") ++ One(name) \in Texts
        BY <1>2, <2>2, <3>3, ContainsCat, CatIs
      <3>5. QED
        BY <1>3, <2>5, <3>3, <3>4, ContainsCat
    <2>9. QED
      BY <1>3, <1>5, <2>4, <2>7, <2>8 DEF name
  <1>6. QED
    BY <1>4, <1>5

\* The declaration that was written.
LEMMA ToDeclarationIs ==
  ASSUME NEW d, Fits(d)
  PROVE  ToDeclaration(Lead(d), ReadList(d), Trail(d)) = Plain(d)
  <1>1. d \in Decl
    BY DEF Fits
  <1>2. d.implemented_by \in Names \cup {None} /\ d.variadic \in BOOLEAN
    BY <1>1 DEF Decl
  <1> DEFINE colon == IF d.tag = None THEN 0 ELSE 2
             target == IF Contains(Trail(d), "=") THEN From(Trail(d), Find(Trail(d), "=") + 1) ELSE <<>>
             parts == ReadItems(d)
             shapes == [i \in DOMAIN d.arguments |-> Shape(d.arguments[i])]
  <1>3. /\ FindLast(Lead(d), ":") = colon /\ Lead(d)[colon + 1] = d.name
        /\ d.tag # None => Lead(d)[1] = d.tag
    BY <1>1, LeadIs
  <1>4. ToDeclaration(Lead(d), ReadList(d), Trail(d)) = Declaration(Lead(d), colon, ReadList(d), parts, target)
    <2>1. FindLast(Lead(d), ":") = colon
      BY <1>3
    <2>2. split_arguments(ReadList(d)) = parts
      BY ReadListIs
    <2> HIDE DEF colon, parts
    <2>3. QED
      BY <2>1, <2>2 DEF ToDeclaration
  <1>5. (IF Identifier(target) THEN target[1] ELSE None) = d.implemented_by
    <2>1. CASE d.implemented_by = None
      <3>1. target = <<>>
        BY <1>1, <2>1, TrailIs
      <3>2. ~Identifier(<<>>)
        BY DEF Identifier
      <3> HIDE DEF target
      <3>3. QED
        BY <2>1, <3>1, <3>2
    <2>2. CASE d.implemented_by # None
      <3>1. target = One(d.implemented_by)
        BY <1>1, <2>2, TrailIs
      <3>2. d.implemented_by \in Names \cup Callbacks
        BY <1>2, <2>2
      <3>3. Identifier(One(d.implemented_by)) /\ One(d.implemented_by)[1] = d.implemented_by
        BY <3>2, NameIs, OneIs
      <3> HIDE DEF target
      <3>4. QED
        BY <3>1, <3>3
    <2>3. QED
      BY <2>1, <2>2
  <1>6. (IF colon = 0 THEN None ELSE Lead(d)[colon - 1]) = d.tag
    BY <1>3
  <1>7. FlattenSeq([i \in DOMAIN parts |-> parse_argument(parts[i])]) = shapes
    BY ReadListIs
  <1>8. Contains(ReadList(d), "...") = d.variadic
    <2>1. Contains(ReadList(d), "...") <=> d.variadic
      BY ReadListIs
    <2>2. Contains(ReadList(d), "...") \in BOOLEAN
      BY DEF Contains
    <2>3. QED
      BY <1>2, <2>1, <2>2
  <1>9. Plain(d) = [name |-> d.name, tag |-> d.tag, arguments |-> shapes, variadic |-> d.variadic,
                    implemented_by |-> d.implemented_by, shape_known |-> TRUE]
    BY DEF Plain
  <1> HIDE DEF colon, parts, target, shapes
  <1>10. QED
    BY <1>3, <1>4, <1>5, <1>6, <1>7, <1>8, <1>9 DEF Declaration

\* A line of an include.
LEMMA LineIs ==
  ASSUME NEW d, Fits(d), NEW keyword \in {"native", "forward"}
  PROVE  Line(keyword, d) = DeclarationText(keyword, Lead(d), ReadList(d), Trail(d))
  <1>1. d \in Decl /\ d.tag \in Tags /\ d.name \in Names \cup Callbacks
        /\ d.implemented_by \in Names \cup {None}
    BY DEF Fits, Decl
  <1> DEFINE K == One(keyword)
             T == When(d.tag # None, One(d.tag) ++ One(":"))
             N == One(d.name)
             O == One("(")
             L == ReadList(d)
             C == Closing(d)
             Z == One(")")
             E == Target(d)
             S == One(Semicolon)
  <1>2. /\ K \in Texts /\ N \in Texts /\ O \in Texts /\ Z \in Texts /\ S \in Texts
        /\ d.name \in Tokens /\ "(" \in Tokens
    <2>1. keyword \in Tokens /\ d.name \in Tokens /\ "(" \in Tokens /\ ")" \in Tokens /\ Semicolon \in Tokens
      BY <1>1, Keywords, NameIs, Marks DEF Tokens, Words, Punctuation
    <2>2. QED
      BY <2>1, OneIs
  <1>3. T \in Texts /\ Tagged(d.tag) = T
    <2>1. CASE d.tag # None
      BY <1>1, <2>1, TagIs DEF When
    <2>2. CASE d.tag = None
      BY <2>2, TextsAre DEF When, Tagged
    <2>3. QED
      BY <2>1, <2>2
  <1>4. L \in Texts /\ List(d) = L ++ C
    BY ListIs
  <1>5. C \in Texts /\ E \in Texts /\ Trail(d) = C ++ E
    BY <1>1, TrailIs DEF Trail
  <1>6. When(d.implemented_by # None, <<"=", d.implemented_by>>) = E
    <2>1. CASE d.implemented_by = None
      BY <2>1 DEF When, Target
    <2>2. CASE d.implemented_by # None
      <3>1. d.implemented_by \in Names \cup Callbacks
        BY <1>1, <2>2
      <3>2. {"=", d.implemented_by} \subseteq Tokens
        BY <3>1, NameIs, Marks
      <3>3. <<"=", d.implemented_by>> = One("=") ++ One(d.implemented_by)
        BY <3>2, Tuple2
      <3>4. QED
        BY <2>2, <3>3 DEF When, Target
    <2>3. QED
      BY <2>1, <2>2
  <1>7. <<d.name, "(">> = N ++ O
    <2>1. {d.name, "("} \subseteq Tokens
      BY <1>2
    <2>2. QED
      BY <2>1, Tuple2
  <1>8. Line(keyword, d) = (((((K ++ T) ++ (N ++ O)) ++ (L ++ C)) ++ Z) ++ E) ++ S
    <2>1. Line(keyword, d) = (((((K \o T) \o (N ++ O)) \o List(d)) \o Z) \o E) \o S
      <3>1. <<keyword>> = K /\ <<")">> = Z /\ <<Semicolon>> = S
        BY DEF One
      <3> HIDE DEF K, T, N, O, L, C, Z, E, S
      <3>2. QED
        BY <1>3, <1>6, <1>7, <3>1 DEF Line
    <2> HIDE DEF K, T, N, O, L, C, Z, E, S
    <2>2. QED
      BY <1>4, <2>1 DEF ++
  <1>9. Lead(d) = T ++ N
    BY DEF Lead
  <1>10. DeclarationText(keyword, Lead(d), ReadList(d), Trail(d)) =
           K ++ ((T ++ N) ++ (O ++ (L ++ (Z ++ ((C ++ E) ++ S)))))
    BY <1>5, <1>9 DEF DeclarationText
  <1>11. C ++ Z = Z ++ C
    <2>1. CASE Sized(d)
      BY <2>1 DEF Closing, When
    <2>2. CASE ~Sized(d)
      <3>1. C = <<>>
        BY <2>2 DEF Closing, When
      <3> HIDE DEF C, Z
      <3>2. QED
        BY <1>2, <3>1, CatIs
    <2>3. QED
      BY <2>1, <2>2
  <1> HIDE DEF K, T, N, O, L, C, Z, E, S
  <1>12. /\ K ++ T \in Texts /\ N ++ O \in Texts /\ L ++ C \in Texts /\ Z ++ E \in Texts /\ E ++ S \in Texts
         /\ C ++ E \in Texts
    BY <1>2, <1>3, <1>4, <1>5, CatIs
  <1>13. (K ++ T) ++ (N ++ O) \in Texts /\ ((K ++ T) ++ (N ++ O)) ++ (L ++ C) \in Texts
    BY <1>12, CatIs
  <1>14. Z ++ (E ++ S) \in Texts /\ C ++ (Z ++ (E ++ S)) \in Texts /\ (C ++ E) ++ S \in Texts
    BY <1>2, <1>5, <1>12, CatIs
  <1>15. /\ L ++ (C ++ (Z ++ (E ++ S))) \in Texts
    BY <1>4, <1>14, CatIs
  \* The left side, to the right.
  <1>16. (((((K ++ T) ++ (N ++ O)) ++ (L ++ C)) ++ Z) ++ E) ++ S =
           ((K ++ T) ++ (N ++ O)) ++ (L ++ (C ++ (Z ++ (E ++ S))))
    <2> DEFINE A == (K ++ T) ++ (N ++ O)
               B == A ++ (L ++ C)
    <2>1. A \in Texts /\ B \in Texts
      BY <1>13
    <2>2. ((B ++ Z) ++ E) ++ S = B ++ (Z ++ (E ++ S))
      <3> HIDE DEF A, B
      <3>1. B ++ Z \in Texts
        BY <1>2, <2>1, CatIs
      <3>2. ((B ++ Z) ++ E) ++ S = (B ++ Z) ++ (E ++ S)
        BY <1>2, <1>5, <3>1, CatRegroups
      <3>3. (B ++ Z) ++ (E ++ S) = B ++ (Z ++ (E ++ S))
        BY <1>2, <1>12, <2>1, CatRegroups
      <3>4. QED
        BY <3>2, <3>3
    <2>3. B ++ (Z ++ (E ++ S)) = A ++ (L ++ (C ++ (Z ++ (E ++ S))))
      <3> HIDE DEF A
      <3>1. B ++ (Z ++ (E ++ S)) = A ++ ((L ++ C) ++ (Z ++ (E ++ S)))
        BY <1>12, <1>14, <2>1, CatRegroups
      <3>2. (L ++ C) ++ (Z ++ (E ++ S)) = L ++ (C ++ (Z ++ (E ++ S)))
        BY <1>4, <1>5, <1>14, CatRegroups
      <3>3. QED
        BY <3>1, <3>2
    <2> HIDE DEF A
    <2>4. QED
      BY <2>2, <2>3 DEF A
  <1>17. C ++ (Z ++ (E ++ S)) = Z ++ ((C ++ E) ++ S)
    <2>1. C ++ (Z ++ (E ++ S)) = (C ++ Z) ++ (E ++ S)
      BY <1>2, <1>5, <1>12, CatRegroups
    <2>2. (Z ++ C) ++ (E ++ S) = Z ++ (C ++ (E ++ S))
      BY <1>2, <1>5, <1>12, CatRegroups
    <2>3. C ++ (E ++ S) = (C ++ E) ++ S
      BY <1>2, <1>5, CatRegroups
    <2>4. QED
      BY <1>11, <2>1, <2>2, <2>3
  <1> DEFINE R == L ++ (Z ++ ((C ++ E) ++ S))
  <1>18. R \in Texts
    BY <1>15, <1>17
  <1>19. ((K ++ T) ++ (N ++ O)) ++ R = K ++ ((T ++ N) ++ (O ++ R))
    <2> HIDE DEF R
    <2>1. ((K ++ T) ++ (N ++ O)) ++ R = (K ++ T) ++ ((N ++ O) ++ R)
      BY <1>12, <1>18, CatRegroups
    <2>2. (N ++ O) ++ R \in Texts /\ T ++ N \in Texts /\ O ++ R \in Texts
      BY <1>2, <1>3, <1>12, <1>18, CatIs
    <2>3. (K ++ T) ++ ((N ++ O) ++ R) = K ++ (T ++ ((N ++ O) ++ R))
      BY <1>2, <1>3, <2>2, CatRegroups
    <2>4. (N ++ O) ++ R = N ++ (O ++ R)
      BY <1>2, <1>18, CatRegroups
    <2>5. T ++ (N ++ (O ++ R)) = (T ++ N) ++ (O ++ R)
      BY <1>2, <1>3, <2>2, CatRegroups
    <2>6. QED
      BY <2>1, <2>3, <2>4, <2>5
  <1>20. QED
    BY <1>8, <1>10, <1>16, <1>17, <1>19

LEMMA LineContains ==
  ASSUME NEW d, Fits(d), NEW keyword \in {"native", "forward"},
         NEW token \in {"//", "/*", "*/", "\n", "native", "forward"}, token # keyword
  PROVE  Line(keyword, d) \in Texts /\ ~Contains(Line(keyword, d), token)
  <1>1. d \in Decl
    BY DEF Fits
  <1>2. token \in Words /\ token \notin {"float", "bool", ":", ")", "=", "("} /\ token # Semicolon
    BY NamedTokens DEF Words, Punctuation
  <1>3. Lead(d) \in Texts /\ ~Contains(Lead(d), token)
    BY <1>1, <1>2, LeadIs DEF HeadOK
  <1>4. Trail(d) \in Texts /\ ~Contains(Trail(d), token)
    BY <1>1, <1>2, TrailIs
  <1>5. ReadList(d) \in Texts /\ ~Contains(ReadList(d), token)
    <2>1. token \notin ListWords
      BY ListWordsAre
    <2>2. QED
      BY <2>1, ListIs, ReadListIs
  <1>6. /\ One(keyword) \in Texts /\ One("(") \in Texts /\ One(")") \in Texts /\ One(Semicolon) \in Texts
    <2>1. keyword \in Tokens /\ "(" \in Tokens /\ ")" \in Tokens /\ Semicolon \in Tokens
      BY Keywords, Marks DEF Tokens, Words, Punctuation
    <2>2. QED
      BY <2>1, OneIs
  <1>7. /\ ~Contains(One(keyword), token) /\ ~Contains(One("("), token) /\ ~Contains(One(")"), token)
        /\ ~Contains(One(Semicolon), token)
    BY <1>2, ContainsIn
  <1> DEFINE A == Trail(d) ++ One(Semicolon)
             B == One(")") ++ A
             C == ReadList(d) ++ B
             D == One("(") ++ C
             E == Lead(d) ++ D
  <1>8. A \in Texts /\ ~Contains(A, token)
    BY <1>4, <1>6, <1>7, CatIs, ContainsCat
  <1>9. B \in Texts /\ ~Contains(B, token)
    <2> HIDE DEF A
    <2>1. QED
      BY <1>6, <1>7, <1>8, CatIs, ContainsCat
  <1>10. C \in Texts /\ ~Contains(C, token)
    <2> HIDE DEF B
    <2>1. QED
      BY <1>5, <1>9, CatIs, ContainsCat
  <1>11. D \in Texts /\ ~Contains(D, token)
    <2> HIDE DEF C
    <2>1. QED
      BY <1>6, <1>7, <1>10, CatIs, ContainsCat
  <1>12. E \in Texts /\ ~Contains(E, token)
    <2> HIDE DEF D
    <2>1. QED
      BY <1>3, <1>11, CatIs, ContainsCat
  <1>13. Line(keyword, d) = One(keyword) ++ E
    BY LineIs DEF DeclarationText
  <1> HIDE DEF E
  <1>14. QED
    BY <1>6, <1>7, <1>12, <1>13, CatIs, ContainsCat

\* A line declares what it was written from.
LEMMA LineSays ==
  ASSUME NEW d, Fits(d)
  PROVE  /\ Says(Line("native", d), <<Plain(d)>>, <<>>)
         /\ Says(Line("forward", d), <<>>, <<Plain(d)>>)
  <1>1. d \in Decl
    BY DEF Fits
  <1>2. HeadOK(Lead(d)) /\ Trail(d) \in Texts /\ ~Contains(Trail(d), Semicolon)
    <2>1. Semicolon \in Words /\ Semicolon \notin {")", "="}
      BY NamedTokens DEF Words, Punctuation
    <2>2. QED
      BY <1>1, <2>1, LeadIs, TrailIs
  <1>3. ReadList(d) \in Texts /\ ~Contains(ReadList(d), ")")
    <2>1. ")" \notin ListWords
      BY ListWordsAre
    <2>2. QED
      BY <2>1, ListIs, ReadListIs
  <1>4. ToDeclaration(Lead(d), ReadList(d), Trail(d)) = Plain(d)
    BY ToDeclarationIs
  <1>5. Plain(d) \in Readings
    BY <1>2, <1>3, <1>4 DEF Readings, HeadOK
  <1>6. <<Plain(d)>> \in Seq(Readings)
    BY <1>5
  <1>7. ASSUME NEW keyword \in {"native", "forward"}
        PROVE  Declares(Line(keyword, d), keyword, <<Plain(d)>>)
    <2>1. keyword \in Tokens /\ keyword # Semicolon
      BY Keywords
    <2>2. ASSUME NEW rest \in Texts
          PROVE  parse_declarations(Line(keyword, d) ++ rest, keyword) =
                   <<Plain(d)>> \o parse_declarations(rest, keyword)
      BY <1>2, <1>3, <1>4, <2>1, LineIs, OneIsRead
    <2>3. QED
      BY <1>6, <2>2 DEF Declares
  <1>8. ASSUME NEW keyword \in {"native", "forward"}
        PROVE  /\ Line(keyword, d) \in Texts
               /\ ~Contains(Line(keyword, d), "//") /\ ~Contains(Line(keyword, d), "/*")
    <2>1. "//" # keyword /\ "/*" # keyword
      OBVIOUS
    <2>2. QED
      BY <2>1, LineContains
  <1>9. Declares(Line("native", d), "forward", <<>>)
    <2>1. ~Contains(Line("native", d), "forward")
      BY LineContains
    <2>2. QED
      BY <1>8, <2>1, Keywords, DeclaresNothing
  <1>10. Declares(Line("forward", d), "native", <<>>)
    <2>1. ~Contains(Line("forward", d), "native")
      BY LineContains
    <2>2. QED
      BY <1>8, <2>1, Keywords, DeclaresNothing
  <1>11. QED
    BY <1>7, <1>8, <1>9, <1>10, SaysCode

(***************************************************************************)
(* What both sides are, and stay.                                          *)
(***************************************************************************)

ArgumentSpec == [type : RustTypes, addition : {"none"} \cup Additions]
HandPiece == [kind : {"native", "forward"}, comment : {"none", "line", "block"}, decl : Decl]

TypeOK ==
  /\ natives \in Seq(Native)
  /\ \A i, j \in DOMAIN natives : natives[i].name = natives[j].name => i = j
  /\ \A i \in DOMAIN natives : Len(natives[i].args) <= MaxArgs
  /\ source \in Seq(HandPiece \cup Placeholders)
SizesOK == SizeEndsList => SizesEndLists
IInv == TypeOK /\ SizesOK

LEMMA NativeIs ==
  /\ \A n \in Native : /\ n.name \in Names /\ n.returns \in RustTypes /\ n.varargs \in BOOLEAN
                       /\ n.raw \in BOOLEAN /\ n.args \in Seq(ArgumentSpec)
                       /\ n = [name |-> n.name, returns |-> n.returns, varargs |-> n.varargs,
                               raw |-> n.raw, args |-> n.args]
  /\ \A name \in Names, returns \in RustTypes, varargs \in BOOLEAN, raw \in BOOLEAN,
        args \in Seq(ArgumentSpec) :
       [name |-> name, returns |-> returns, varargs |-> varargs, raw |-> raw, args |-> args] \in Native
  BY DEF Native, ArgumentSpec

\* The kinds of pieces.
LEMMA PieceKinds ==
  /\ \A piece \in HandPiece : ~IsPlaceholder(piece)
  /\ \A piece \in Placeholders : IsPlaceholder(piece)
  <1>1. \A piece \in HandPiece : piece.kind \in {"native", "forward"}
    BY DEF HandPiece
  <1>2. \A piece \in Placeholders :
          piece.kind \in {"NATIVES", "CALLBACKS", "VAR", "UNCLOSED", "NATIVE", "UNCLOSED NATIVE"}
    BY DEF Placeholders
  <1>3. QED
    BY <1>1, <1>2 DEF IsPlaceholder, OpenKinds

LEMMA TagOf ==
  ASSUME NEW type
  PROVE  tag_of(type) \in Tags
  BY DEF tag_of, Tags

LEMMA AdditionsAre == {"none"} \cup Additions \subseteq Additional
  BY PawnIncludeAssumption DEF Additional

LEMMA ArgDecl ==
  ASSUME NEW a \in ArgumentSpec
  PROVE  arg_decl(a) \in Argument /\ arg_decl(a).addition = a.addition
  <1>1. a.addition \in Additional
    BY AdditionsAre DEF ArgumentSpec
  <1>2. tag_of(a.type) \in Tags
    BY TagOf
  <1>3. QED
    BY <1>1, <1>2 DEF arg_decl, Argument

\* What is derived of a native can be declared.
LEMMA DerivedIs ==
  ASSUME NEW n \in Native
  PROVE  /\ Derived(n) \in Decl /\ Derived(n).name = n.name /\ Derived(n).implemented_by = None
         /\ Derived(n).tag = tag_of(n.returns) /\ Derived(n).variadic = n.varargs
         /\ DOMAIN Derived(n).arguments = DOMAIN n.args
         /\ Len(Derived(n).arguments) = Len(n.args)
         /\ \A i \in DOMAIN n.args : Derived(n).arguments[i] = arg_decl(n.args[i])
         /\ SizeIsLast(n.args, n.varargs) => Fits(Derived(n))
  <1>1. /\ n.name \in Names /\ n.returns \in RustTypes /\ n.varargs \in BOOLEAN
        /\ n.args \in Seq(ArgumentSpec)
    BY NativeIs
  <1> DEFINE decls == [i \in DOMAIN n.args |-> arg_decl(n.args[i])]
  <1>2. /\ decls \in Seq(Argument) /\ Len(decls) = Len(n.args) /\ DOMAIN decls = DOMAIN n.args
        /\ \A i \in DOMAIN n.args : decls[i] = arg_decl(n.args[i]) /\ decls[i].addition = n.args[i].addition
    <2>1. Len(n.args) \in Nat /\ DOMAIN n.args = 1 .. Len(n.args)
      BY <1>1
    <2>2. \A i \in 1 .. Len(n.args) : /\ n.args[i] \in ArgumentSpec /\ arg_decl(n.args[i]) \in Argument
                                      /\ arg_decl(n.args[i]).addition = n.args[i].addition
      BY <1>1, ArgDecl
    <2>3. decls \in [1 .. Len(n.args) -> Argument]
      BY <2>1, <2>2
    <2>4. QED
      BY <2>1, <2>2, <2>3
  <1>3. tag_of(n.returns) \in Tags
    BY TagOf
  <1> HIDE DEF decls
  <1>4. Derived(n) = [tag |-> tag_of(n.returns), name |-> n.name, arguments |-> decls,
                      variadic |-> n.varargs, implemented_by |-> None]
    BY DEF Derived, decls
  <1>5. Derived(n) \in Decl
    BY <1>1, <1>2, <1>3, <1>4 DEF Decl
  <1>6. SizeIsLast(n.args, n.varargs) => SizeIsLast(decls, n.varargs)
    BY <1>2 DEF SizeIsLast
  <1>7. QED
    BY <1>2, <1>4, <1>5, <1>6 DEF Fits

LEMMA AliasedIs ==
  ASSUME NEW d \in Decl, NEW alias \in Names, d.name \in Names
  PROVE  /\ Aliased(d, alias) \in Decl
         /\ Aliased(d, alias) = [tag |-> d.tag, name |-> alias, arguments |-> d.arguments,
                                 variadic |-> d.variadic, implemented_by |-> d.name]
         /\ Fits(d) => Fits(Aliased(d, alias))
  <1>1. d = [tag |-> d.tag, name |-> d.name, arguments |-> d.arguments, variadic |-> d.variadic,
             implemented_by |-> d.implemented_by]
    BY DEF Decl
  <1> DEFINE one == [d EXCEPT !.name = alias]
  <1>2. one = [tag |-> d.tag, name |-> alias, arguments |-> d.arguments, variadic |-> d.variadic,
               implemented_by |-> d.implemented_by]
    BY <1>1
  <1>3. Aliased(d, alias) = [one EXCEPT !.implemented_by = d.name]
    BY Zenon DEF Aliased
  <1> HIDE DEF one
  <1>4. Aliased(d, alias) = [tag |-> d.tag, name |-> alias, arguments |-> d.arguments,
                             variadic |-> d.variadic, implemented_by |-> d.name]
    BY <1>2, <1>3
  <1>5. QED
    BY <1>4 DEF Decl, Fits

LEMMA ByHandIs ==
  ASSUME NEW n \in Native
  PROVE  /\ ByHand(n) \in HandPiece /\ ByHand(n).decl = Derived(n)
         /\ ByHand(n) = [kind |-> "native", comment |-> "none", decl |-> Derived(n)]
  BY DerivedIs DEF ByHand, HandPiece

\* A field that is set.
LEMMA FieldsSet ==
  ASSUME NEW x, NEW b
  PROVE  /\ x = [name |-> x.name, returns |-> x.returns, varargs |-> x.varargs, raw |-> x.raw, args |-> x.args] =>
              /\ [x EXCEPT !.varargs = b] =
                   [name |-> x.name, returns |-> x.returns, varargs |-> b, raw |-> x.raw, args |-> x.args]
              /\ [x EXCEPT !.raw = b] =
                   [name |-> x.name, returns |-> x.returns, varargs |-> x.varargs, raw |-> b, args |-> x.args]
         /\ x = [tag |-> x.tag, name |-> x.name, arguments |-> x.arguments, variadic |-> x.variadic,
                 implemented_by |-> x.implemented_by] =>
              [x EXCEPT !.variadic = b] =
                [tag |-> x.tag, name |-> x.name, arguments |-> x.arguments, variadic |-> b,
                 implemented_by |-> x.implemented_by]
  OBVIOUS

\* The edits of one native.
LEMMA EditNative ==
  ASSUME TypeOK, NEW i \in DOMAIN natives, NEW n \in Native,
         natives' = [natives EXCEPT ![i] = n], source' = source,
         Len(n.args) <= MaxArgs,
         \A j \in DOMAIN natives : j # i => natives[j].name # n.name
  PROVE  TypeOK'
  <1>1. natives' \in Seq(Native) /\ DOMAIN natives' = DOMAIN natives
    BY DEF TypeOK
  <1>2. \A j \in DOMAIN natives : natives'[j] = IF j = i THEN n ELSE natives[j]
    BY DEF TypeOK
  <1>3. source' \in Seq(HandPiece \cup Placeholders)
    BY DEF TypeOK
  <1>4. \A j, k \in DOMAIN natives' : natives'[j].name = natives'[k].name => j = k
    BY <1>1, <1>2 DEF TypeOK
  <1>5. \A j \in DOMAIN natives' : Len(natives'[j].args) <= MaxArgs
    BY <1>1, <1>2 DEF TypeOK
  <1>6. QED
    BY <1>1, <1>3, <1>4, <1>5 DEF TypeOK

\* The edits of the include.
LEMMA EditSource ==
  ASSUME TypeOK, NEW piece \in HandPiece \cup Placeholders, natives' = natives,
         \/ source' = Append(source, piece)
         \/ \E p \in DOMAIN source : source' = [source EXCEPT ![p] = piece]
  PROVE  TypeOK'
  <1>1. source \in Seq(HandPiece \cup Placeholders)
    BY DEF TypeOK
  <1>2. source' \in Seq(HandPiece \cup Placeholders)
    <2> DEFINE S == HandPiece \cup Placeholders
    <2>1. source \in Seq(S) /\ piece \in S
      BY <1>1
    <2> HIDE DEF S
    <2>2. source' \in Seq(S)
      BY <2>1
    <2>3. QED
      BY <2>2 DEF S
  <1>3. QED
    BY <1>2 DEF TypeOK

LEMMA TypeRust ==
  ASSUME TypeOK, RustSide
  PROVE  TypeOK'
  <1>1. PICK i \in DOMAIN natives :
          \/ \E name \in Names : Rename(i, name)
          \/ \E type \in {"i32", "f32", "bool"} : Returns(i, type)
          \/ \E type \in Types : AddArgument(i, type)
          \/ \E j \in DOMAIN natives[i].args : DropArgument(i, j)
          \/ \E j \in DOMAIN natives[i].args, a \in Additions : Annotate(i, j, a)
          \/ OpenList(i)
          \/ MakeRaw(i)
    BY DEF RustSide
  <1> DEFINE n == natives[i]
  <1>2. /\ n \in Native /\ n.name \in Names /\ n.returns \in RustTypes /\ n.varargs \in BOOLEAN
        /\ n.raw \in BOOLEAN /\ n.args \in Seq(ArgumentSpec)
        /\ n = [name |-> n.name, returns |-> n.returns, varargs |-> n.varargs,
                raw |-> n.raw, args |-> n.args]
        /\ Len(n.args) <= MaxArgs
        /\ \A j \in DOMAIN natives : j # i => natives[j].name # n.name
    <2>1. n \in Native
      BY DEF TypeOK
    <2>2. QED
      BY <2>1, NativeIs DEF TypeOK
  <1>3. MaxArgs \in Nat /\ Len(n.args) \in Nat
    <2>1. MaxArgs \in Nat
      BY PawnIncludeAssumption
    <2>2. QED
      BY <1>2, <2>1
  <1>4. ASSUME NEW name \in Names, Rename(i, name)
        PROVE  TypeOK'
    <2> DEFINE m == [name |-> name, returns |-> n.returns, varargs |-> n.varargs, raw |-> n.raw,
                     args |-> n.args]
    <2>1. m \in Native
      BY <1>2, NativeIs
    <2>2. [n EXCEPT !.name = name] = m
      BY <1>2
    <2>3. natives' = [natives EXCEPT ![i] = m]
      BY <1>4, <2>2 DEF Rename
    <2>4. \A j \in DOMAIN natives : j # i => natives[j].name # m.name
      BY <1>4 DEF Rename
    <2>5. source' = source /\ Len(m.args) <= MaxArgs
      BY <1>2, <1>4 DEF Rename
    <2> HIDE DEF m
    <2>6. QED
      BY <2>1, <2>3, <2>4, <2>5, EditNative
  <1>5. ASSUME NEW type \in {"i32", "f32", "bool"}, Returns(i, type)
        PROVE  TypeOK'
    <2> DEFINE m == [name |-> n.name, returns |-> type, varargs |-> n.varargs, raw |-> n.raw,
                     args |-> n.args]
    <2>1. m \in Native
      <3>1. type \in RustTypes
        BY DEF RustTypes
      <3>2. QED
        BY <1>2, <3>1, NativeIs
    <2>2. [n EXCEPT !.returns = type] = m
      BY <1>2
    <2>3. natives' = [natives EXCEPT ![i] = m]
      BY <1>5, <2>2 DEF Returns
    <2>4. /\ source' = source /\ Len(m.args) <= MaxArgs
          /\ \A j \in DOMAIN natives : j # i => natives[j].name # m.name
      BY <1>2, <1>5 DEF Returns
    <2> HIDE DEF m
    <2>5. QED
      BY <2>1, <2>3, <2>4, EditNative
  <1>6. ASSUME NEW args \in Seq(ArgumentSpec), natives' = [natives EXCEPT ![i].args = args], source' = source,
               Len(args) <= MaxArgs
        PROVE  TypeOK'
    <2> DEFINE m == [name |-> n.name, returns |-> n.returns, varargs |-> n.varargs, raw |-> n.raw,
                     args |-> args]
    <2>1. m \in Native
      BY <1>2, NativeIs
    <2>2. [n EXCEPT !.args = args] = m
      BY <1>2
    <2>3. natives' = [natives EXCEPT ![i] = m]
      BY <1>6, <2>2
    <2>4. /\ source' = source /\ Len(m.args) <= MaxArgs
          /\ \A j \in DOMAIN natives : j # i => natives[j].name # m.name
      BY <1>2, <1>6
    <2> HIDE DEF m
    <2>5. QED
      BY <2>1, <2>3, <2>4, EditNative
  <1>7. ASSUME NEW type \in Types, AddArgument(i, type)
        PROVE  TypeOK'
    <2> DEFINE a == [type |-> type, addition |-> "none"]
    <2>1. a \in ArgumentSpec
      BY PawnIncludeAssumption DEF ArgumentSpec
    <2> HIDE DEF a
    <2> DEFINE args == Append(n.args, a)
    <2>2. args \in Seq(ArgumentSpec) /\ Len(args) = Len(n.args) + 1
      BY <1>2, <2>1
    <2>3. natives' = [natives EXCEPT ![i].args = args] /\ Len(n.args) < MaxArgs /\ source' = source
      BY <1>7 DEF AddArgument, a
    <2> HIDE DEF args, n
    <2>4. Len(args) <= MaxArgs
      BY <1>3, <2>2, <2>3
    <2>5. QED
      BY <1>6, <2>2, <2>3, <2>4
  <1>8. ASSUME NEW j \in DOMAIN natives[i].args, DropArgument(i, j)
        PROVE  TypeOK'
    <2>1. j \in 1 .. Len(n.args)
      BY <1>2, <1>8
    <2> DEFINE a == SubSeq(n.args, 1, j - 1)
               b == SubSeq(n.args, j + 1, Len(n.args))
    <2>2. a \in Seq(ArgumentSpec) /\ Len(a) = j - 1
      <3>1. \A k \in 1 .. j - 1 : n.args[k] \in ArgumentSpec
        BY <1>2, <1>3, <2>1
      <3>2. 1 \in Int /\ j - 1 \in Int
        BY <2>1
      <3>3. QED
        BY <1>3, <2>1, <3>1, <3>2, SubSeqProperties
    <2>3. b \in Seq(ArgumentSpec) /\ Len(b) = Len(n.args) - j
      <3>1. \A k \in j + 1 .. Len(n.args) : n.args[k] \in ArgumentSpec
        BY <1>2, <1>3, <2>1
      <3>2. j + 1 \in Int /\ Len(n.args) \in Int
        BY <1>3, <2>1
      <3>3. QED
        BY <1>3, <2>1, <3>1, <3>2, SubSeqProperties
    <2> DEFINE args == a \o b
    <2>5. natives' = [natives EXCEPT ![i].args = args] /\ source' = source
      BY <1>8 DEF DropArgument, RemoveAt
    <2>6. j \in Nat /\ Len(n.args) <= MaxArgs
      BY <1>2, <1>3, <2>1
    <2> HIDE DEF a, b, n
    <2>4. args \in Seq(ArgumentSpec) /\ Len(args) = Len(a) + Len(b)
      BY <2>2, <2>3, ConcatProperties
    <2> HIDE DEF args
    <2>7. Len(args) <= MaxArgs
      BY <1>3, <2>2, <2>3, <2>4, <2>6
    <2>8. QED
      BY <1>6, <2>4, <2>5, <2>7
  <1>9. ASSUME NEW j \in DOMAIN natives[i].args, NEW addition \in Additions, Annotate(i, j, addition)
        PROVE  TypeOK'
    <2> DEFINE a == [n.args[j] EXCEPT !.addition = addition]
               args == [n.args EXCEPT ![j] = a]
    <2>1. a \in ArgumentSpec
      <3>1. n.args[j] \in ArgumentSpec
        BY <1>2, <1>9
      <3>2. QED
        BY <3>1 DEF ArgumentSpec
    <2> HIDE DEF a
    <2>2. args \in Seq(ArgumentSpec) /\ Len(args) = Len(n.args)
      BY <1>2, <1>9, <2>1
    <2>3. natives' = [natives EXCEPT ![i].args = args] /\ source' = source
      BY <1>9 DEF Annotate, a
    <2> HIDE DEF args
    <2>4. QED
      BY <1>2, <1>6, <2>2, <2>3
  <1>10. ASSUME OpenList(i)
         PROVE  TypeOK'
    <2> DEFINE m == [name |-> n.name, returns |-> n.returns, varargs |-> TRUE, raw |-> n.raw,
                     args |-> n.args]
    <2>1. m \in Native
      BY <1>2, NativeIs
    <2>2. [n EXCEPT !.varargs = TRUE] = m
      <3>1. n = [name |-> n.name, returns |-> n.returns, varargs |-> n.varargs, raw |-> n.raw, args |-> n.args]
        BY <1>2
      <3> HIDE DEF n
      <3>2. QED
        BY <3>1, FieldsSet
    <2>3. natives' = [natives EXCEPT ![i] = m]
      BY <1>10, <2>2 DEF OpenList
    <2>4. /\ source' = source /\ Len(m.args) <= MaxArgs
          /\ \A j \in DOMAIN natives : j # i => natives[j].name # m.name
      BY <1>2, <1>10 DEF OpenList
    <2> HIDE DEF m
    <2>5. QED
      BY <2>1, <2>3, <2>4, EditNative
  <1>11. ASSUME MakeRaw(i)
         PROVE  TypeOK'
    <2> DEFINE m == [name |-> n.name, returns |-> n.returns, varargs |-> n.varargs, raw |-> TRUE,
                     args |-> n.args]
    <2>1. m \in Native
      BY <1>2, NativeIs
    <2>2. [n EXCEPT !.raw = TRUE] = m
      <3>1. n = [name |-> n.name, returns |-> n.returns, varargs |-> n.varargs, raw |-> n.raw, args |-> n.args]
        BY <1>2
      <3> HIDE DEF n
      <3>2. QED
        BY <3>1, FieldsSet
    <2>3. natives' = [natives EXCEPT ![i] = m]
      BY <1>11, <2>2 DEF MakeRaw
    <2>4. /\ source' = source /\ Len(m.args) <= MaxArgs
          /\ \A j \in DOMAIN natives : j # i => natives[j].name # m.name
      BY <1>2, <1>11 DEF MakeRaw
    <2> HIDE DEF m
    <2>5. QED
      BY <2>1, <2>3, <2>4, EditNative
  <1>12. QED
    BY <1>1, <1>4, <1>5, <1>7, <1>8, <1>9, <1>10, <1>11

LEMMA TypeInclude ==
  ASSUME TypeOK, IncludeSide
  PROVE  TypeOK'
  <1>1. \A i \in DOMAIN natives : natives[i] \in Native
    BY DEF TypeOK
  <1>2. \A p \in DOMAIN source : source[p] \in HandPiece \cup Placeholders
    BY DEF TypeOK
  <1>3. ASSUME NEW i \in DOMAIN natives, NEW alias \in Names \cup {None}, WriteOut(i, alias)
        PROVE  TypeOK'
    <2> DEFINE piece == IF alias = None THEN ByHand(natives[i])
                        ELSE [ByHand(natives[i]) EXCEPT !.decl = Aliased(@, alias)]
    <2>1. piece \in HandPiece
      <3>1. natives[i] \in Native
        BY <1>1
      <3>2. CASE alias = None
        BY <3>1, <3>2, ByHandIs
      <3>3. CASE alias # None
        <4>1. alias \in Names /\ Derived(natives[i]) \in Decl /\ Derived(natives[i]).name \in Names
          BY <3>1, <3>3, DerivedIs, NativeIs
        <4>2. Aliased(Derived(natives[i]), alias) \in Decl
          BY <4>1, AliasedIs
        <4>3. piece = [kind |-> "native", comment |-> "none", decl |-> Aliased(Derived(natives[i]), alias)]
          BY <3>1, <3>3, ByHandIs
        <4>4. QED
          BY <4>2, <4>3 DEF HandPiece
      <3>4. QED
        BY <3>2, <3>3
    <2>2. source' = Append(source, piece) /\ natives' = natives
      BY <1>3 DEF WriteOut, Add
    <2> HIDE DEF piece
    <2>3. QED
      BY <2>1, <2>2, EditSource
  <1>4. ASSUME NEW c \in Callbacks, WriteForward(c)
        PROVE  TypeOK'
    <2> DEFINE d == [tag |-> None, name |-> c, arguments |-> <<>>, variadic |-> FALSE, implemented_by |-> None]
               piece == [kind |-> "forward", comment |-> "none", decl |-> d]
    <2>1. d \in Decl
      BY DEF Decl, Tags
    <2>2. source' = Append(source, piece) /\ natives' = natives
      BY <1>4 DEF WriteForward, Add
    <2> HIDE DEF d
    <2>3. piece \in HandPiece
      BY <2>1 DEF HandPiece
    <2> HIDE DEF piece
    <2>4. QED
      BY <2>2, <2>3, EditSource
  <1>5. ASSUME NEW piece \in Placeholders, Add(piece)
        PROVE  TypeOK'
    BY <1>5, EditSource DEF Add
  <1>6. ASSUME NEW p \in DOMAIN source, NEW comment \in {"line", "block"}, CommentOut(p, comment)
        PROVE  TypeOK'
    <2>1. source[p] \in HandPiece
      BY <1>2, <1>6, PieceKinds DEF CommentOut
    <2>2. [source[p] EXCEPT !.comment = comment] \in HandPiece
      BY <2>1 DEF HandPiece
    <2>3. source' = [source EXCEPT ![p] = [source[p] EXCEPT !.comment = comment]] /\ natives' = natives
      BY <1>6 DEF CommentOut, Change
    <2>4. QED
      BY <2>2, <2>3, EditSource
  <1>7. ASSUME NEW p \in DOMAIN source, source[p] \in HandPiece, NEW arguments \in Seq(Argument),
               NEW variadic \in BOOLEAN, NEW piece,
               piece = [kind |-> source[p].kind, comment |-> source[p].comment,
                        decl |-> [tag |-> source[p].decl.tag, name |-> source[p].decl.name,
                                  arguments |-> arguments, variadic |-> variadic,
                                  implemented_by |-> source[p].decl.implemented_by]],
               Change(p, piece)
        PROVE  TypeOK'
    <2>1. source[p].decl \in Decl
      BY <1>7 DEF HandPiece
    <2>2. piece \in HandPiece
      BY <1>7, <2>1 DEF HandPiece, Decl
    <2>3. QED
      BY <1>7, <2>2, EditSource DEF Change
  <1>8. ASSUME NEW p \in DOMAIN source, NEW j \in Arguments(source[p]), NEW addition \in Additions,
               Decorate(p, j, addition)
        PROVE  TypeOK'
    <2>1. source[p] \in HandPiece /\ j \in DOMAIN source[p].decl.arguments
      BY <1>2, <1>8, PieceKinds DEF Arguments
    <2>2. source[p].decl \in Decl /\ source[p].decl.arguments \in Seq(Argument)
      BY <2>1 DEF HandPiece, Decl
    <2> DEFINE d == source[p].decl
               a == [d.arguments[j] EXCEPT !.addition = addition]
               arguments == [d.arguments EXCEPT ![j] = a]
    <2>3. a \in Argument
      <3>1. d.arguments[j] \in Argument
        BY <2>1, <2>2
      <3>2. addition \in Additional
        BY AdditionsAre
      <3>3. QED
        BY <3>1, <3>2 DEF Argument
    <2> HIDE DEF a
    <2>4. arguments \in Seq(Argument)
      BY <2>1, <2>2, <2>3
    <2>5. [source[p] EXCEPT !.decl.arguments[j].addition = addition] =
            [kind |-> source[p].kind, comment |-> source[p].comment,
             decl |-> [tag |-> d.tag, name |-> d.name, arguments |-> arguments, variadic |-> d.variadic,
                       implemented_by |-> d.implemented_by]]
      <3> DEFINE e == [d EXCEPT !.arguments = arguments]
      <3>1. e = [tag |-> d.tag, name |-> d.name, arguments |-> arguments, variadic |-> d.variadic,
                 implemented_by |-> d.implemented_by]
        <4> HIDE DEF arguments
        <4>1. QED
          BY <2>2 DEF Decl
      <3>2. [source[p] EXCEPT !.decl.arguments[j].addition = addition] = [source[p] EXCEPT !.decl = e]
        BY Zenon DEF a
      <3> HIDE DEF e, d
      <3>3. [source[p] EXCEPT !.decl = e] = [kind |-> source[p].kind, comment |-> source[p].comment, decl |-> e]
        BY <2>1 DEF HandPiece
      <3>4. QED
        BY <3>1, <3>2, <3>3
    <2> HIDE DEF arguments
    <2>6. d.variadic \in BOOLEAN
      BY <2>2 DEF Decl
    <2>7. QED
      BY <1>7, <1>8, <2>1, <2>4, <2>5, <2>6 DEF Decorate
  <1>9. ASSUME NEW p \in DOMAIN source, LeaveOpen(p)
        PROVE  TypeOK'
    <2>1. source[p] \in HandPiece
      BY <1>2, <1>9, PieceKinds DEF LeaveOpen
    <2>2. source[p].decl \in Decl /\ source[p].decl.arguments \in Seq(Argument)
      BY <2>1 DEF HandPiece, Decl
    <2> DEFINE d == source[p].decl
               arguments == Front(d.arguments)
               one == [d EXCEPT !.arguments = arguments]
               two == [one EXCEPT !.variadic = TRUE]
    <2>3. arguments \in Seq(Argument)
      <3>1. \A k \in 1 .. Len(d.arguments) - 1 : d.arguments[k] \in Argument
        BY <2>2
      <3>2. QED
        BY <2>2, <3>1, SubSeqProperties DEF Front
    <2> HIDE DEF arguments
    <2>4. one = [tag |-> d.tag, name |-> d.name, arguments |-> arguments, variadic |-> d.variadic,
                 implemented_by |-> d.implemented_by]
      BY <2>2 DEF Decl
    <2> HIDE DEF one
    <2>5. two = [tag |-> d.tag, name |-> d.name, arguments |-> arguments, variadic |-> TRUE,
                 implemented_by |-> d.implemented_by]
      <3>1. one = [tag |-> one.tag, name |-> one.name, arguments |-> one.arguments,
                   variadic |-> one.variadic, implemented_by |-> one.implemented_by]
        BY <2>4
      <3>2. two = [tag |-> one.tag, name |-> one.name, arguments |-> one.arguments,
                   variadic |-> TRUE, implemented_by |-> one.implemented_by]
        BY <3>1, FieldsSet
      <3> HIDE DEF two, d
      <3>3. one.tag = d.tag /\ one.name = d.name /\ one.arguments = arguments /\ one.implemented_by = d.implemented_by
        BY <2>4
      <3>4. QED
        BY <3>2, <3>3
    <2>6. Change(p, [source[p] EXCEPT !.decl = two])
      <3>1. Opened(d) = two
        BY Zenon DEF Opened, two, one, arguments
      <3>2. Change(p, [source[p] EXCEPT !.decl = Opened(d)])
        BY <1>9 DEF LeaveOpen
      <3>3. QED
        BY <3>1, <3>2
    <2> HIDE DEF two
    <2>7. [source[p] EXCEPT !.decl = two] = [kind |-> source[p].kind, comment |-> source[p].comment, decl |-> two]
      BY <2>1 DEF HandPiece
    <2>9. QED
      BY <1>7, <2>1, <2>3, <2>5, <2>6, <2>7
  <1>10. QED
    BY <1>3, <1>4, <1>5, <1>6, <1>8, <1>9 DEF IncludeSide

\* What the check reads is well-formed, whatever was edited.
THEOREM TypesHold == Spec => []IInv
  <1>1. ASSUME Init
        PROVE  IInv
    <2>1. natives = Crate /\ source \in {<<>>, [i \in DOMAIN Crate |-> ByHand(Crate[i])]}
      BY <1>1 DEF Init
    <2>2. /\ Crate \in Seq(Native) /\ \A i \in DOMAIN Crate : Len(Crate[i].args) <= MaxArgs
          /\ \A i, j \in DOMAIN Crate : Crate[i].name = Crate[j].name => i = j
          /\ \A i \in DOMAIN Crate : SizeEndsList => SizeIsLast(Crate[i].args, Crate[i].varargs)
      BY PawnIncludeAssumption
    <2> DEFINE hand == [i \in DOMAIN Crate |-> ByHand(Crate[i])]
    <2>3. \A i \in DOMAIN Crate : Crate[i] \in Native /\ ByHand(Crate[i]) \in HandPiece
      BY <2>2, ByHandIs
    <2>4. hand \in Seq(HandPiece \cup Placeholders) /\ DOMAIN hand = DOMAIN Crate
      <3> DEFINE S == HandPiece \cup Placeholders
      <3>1. \A i \in DOMAIN Crate : ByHand(Crate[i]) \in S
        BY <2>3
      <3> HIDE DEF S
      <3>2. DOMAIN Crate = 1 .. Len(Crate) /\ Len(Crate) \in Nat
        BY <2>2
      <3>3. hand \in Seq(S)
        BY <3>1, <3>2
      <3>4. QED
        BY <3>3 DEF S
    <2>5. <<>> \in Seq(HandPiece \cup Placeholders)
      OBVIOUS
    <2>6. TypeOK
      BY <2>1, <2>2, <2>4, <2>5 DEF TypeOK
    <2>7. ASSUME SizeEndsList
          PROVE  SizesEndLists
      <3>1. \A i \in DOMAIN natives : SizeIsLast(natives[i].args, natives[i].varargs)
        BY <2>1, <2>2, <2>7
      <3>2. ASSUME NEW p \in DOMAIN source, source # <<>>
            PROVE  SizeIsLast(source[p].decl.arguments, source[p].decl.variadic)
        <4>1. source = hand /\ p \in DOMAIN Crate
          BY <2>1, <2>4, <3>2
        <4>2. source[p].decl = Derived(Crate[p]) /\ Crate[p] \in Native
          BY <2>3, <4>1, ByHandIs
        <4>3. Fits(Derived(Crate[p]))
          BY <2>2, <2>3, <2>7, <4>1, DerivedIs
        <4>4. QED
          BY <4>2, <4>3 DEF Fits
      <3>3. source = <<>> => DOMAIN source = {}
        OBVIOUS
      <3>4. QED
        BY <3>1, <3>2, <3>3 DEF SizesEndLists
    <2>8. QED
      BY <2>6, <2>7 DEF IInv, SizesOK
  <1>2. ASSUME IInv, [Next]_vars
        PROVE  IInv'
    <2>1. CASE Next
      <3>1. TypeOK'
        BY <1>2, <2>1, TypeRust, TypeInclude DEF IInv, Next
      <3>2. SizesOK'
        BY <2>1 DEF Next, SizesOK
      <3>3. QED
        BY <3>1, <3>2 DEF IInv
    <2>2. CASE UNCHANGED vars
      BY <1>2, <2>2 DEF vars, IInv, TypeOK, SizesOK, SizesEndLists
    <2>3. QED
      BY <1>2, <2>1, <2>2
  <1>3. QED
    BY <1>1, <1>2, PTL DEF Spec

(***************************************************************************)
(* What a native becomes.                                                  *)
(***************************************************************************)

\* A comment at the end that no line ends.
LEMMA ParseUnended ==
  ASSUME NEW a, NEW ds, NEW fs, Says(a, ds, fs), NEW body \in Texts, ~Contains(body, "\n")
  PROVE  parse(a ++ (One("//") ++ body)) = ds
  <1>1. PICK cleaned : /\ Cleans(a, cleaned)
                       /\ Declares(cleaned, "native", ds)
                       /\ Declares(cleaned, "forward", fs)
    BY DEF Says
  <1>2. a \in Texts /\ cleaned \in Texts /\ <<>> \in Texts
    BY <1>1, TextsAre DEF Cleans
  <1>3. <<>> ++ cleaned = cleaned
    BY <1>2, CatIs
  <1>4. Runs(Reading, skip, a, At("code", <<>>), At("code", cleaned))
    BY <1>1, <1>2, <1>3 DEF Cleans
  <1>5. Runs(Reading, skip, One("//"), At("code", cleaned), At("line", cleaned))
    <2>1. /\ skip \in [Reading \X Tokens -> Reading] /\ At("code", cleaned) \in Reading
          /\ skip[<<At("code", cleaned), "//">>] = At("line", cleaned) /\ "//" \in Tokens
      BY <1>2, SkipIs, Marks
    <2>2. QED
      BY <2>1, RunsOne DEF One
  <1>6. Runs(Reading, skip, body, At("line", cleaned), At("line", cleaned))
    BY <1>2, CommentRuns
  <1>7. One("//") \in Texts /\ One("//") ++ body \in Texts
    BY Marks, OneIs, CatIs
  <1>8. Runs(Reading, skip, One("//") ++ body, At("code", cleaned), At("line", cleaned))
    BY <1>5, <1>6, <1>7, RunsOn DEF ++
  <1>9. Runs(Reading, skip, a ++ (One("//") ++ body), At("code", <<>>), At("line", cleaned))
    BY <1>2, <1>4, <1>7, <1>8, RunsOn DEF ++
  <1>10. a ++ (One("//") ++ body) \in Texts
    BY <1>2, <1>7, CatIs
  <1>11. without_comments(a ++ (One("//") ++ body)) = cleaned
    BY <1>9, <1>10, WithoutCommentsIs DEF At
  <1>12. parse_declarations(cleaned ++ <<>>, "native") = ds \o parse_declarations(<<>>, "native")
    BY <1>1, <1>2 DEF Declares
  <1>13. parse_declarations(<<>>, "native") = <<>> /\ cleaned ++ <<>> = cleaned
    BY <1>2, DeclarationsAre, CatIs
  <1>14. ds \o <<>> = ds
    BY <1>1, ConcatEmptySeq DEF Declares
  <1>15. QED
    BY <1>11, <1>12, <1>13, <1>14 DEF parse

\* A text that is a comment.
LEMMA CommentSays ==
  ASSUME NEW text \in Texts, text # <<>>, text[1] = "//", ~Contains(text, "\n")
  PROVE  /\ parse(text) = <<>>
         /\ Says(text ++ One("\n"), <<>>, <<>>)
  <1> DEFINE body == Tail(text)
  <1>1. /\ body \in Texts /\ Len(body) = Len(text) - 1 /\ Len(text) \in Nat
        /\ \A i \in 1 .. Len(body) : body[i] = text[i + 1]
    BY DEF Texts
  <1> HIDE DEF body
  <1>2. Len(text) = Len(body) + 1
    BY <1>1
  <1>3. text = One("//") ++ body
    BY <1>1, <1>2, Marks, ConsIs
  <1>4. ~Contains(body, "\n")
    <2>1. One("//") \in Texts
      BY Marks, OneIs
    <2>2. QED
      BY <1>1, <1>3, <2>1, ContainsCat
  <1>5. parse(text) = <<>>
    <2>1. parse(<<>> ++ (One("//") ++ body)) = <<>>
      BY <1>1, <1>4, EmptySays, ParseUnended
    <2>2. <<>> ++ text = text
      BY CatIs
    <2>3. QED
      BY <1>3, <2>1, <2>2
  <1>6. text ++ One("\n") = One("//") ++ (body ++ One("\n"))
    <2>1. One("//") \in Texts /\ One("\n") \in Texts
      BY Marks, OneIs
    <2>2. QED
      BY <1>1, <1>3, <2>1, CatRegroups
  <1>7. QED
    BY <1>1, <1>4, <1>5, <1>6, LineCommentSays

\* The text of a raw native, behind the slashes.
RawDeclaration(n) == DeclarationText("native", Lead(Derived(n)), One("..."), <<>>)
RawText(n) == RawDeclaration(n) ++ (One("//") ++ (One("raw") ++ One("native")))

LEMMA RawIs ==
  ASSUME NEW n \in Native, n.raw
  PROVE  /\ native_decl(n) = One("//") ++ RawText(n)
         /\ RawText(n) \in Texts /\ ~Contains(RawText(n), "\n")
         /\ \E x : /\ Says(RawDeclaration(n), <<x>>, <<>>) /\ x.name = n.name
                   /\ DOMAIN x = {"name", "tag", "arguments", "variadic", "implemented_by", "shape_known"}
                   /\ parse(RawText(n)) = <<x>>
  <1> DEFINE d == Derived(n)
             T == When(d.tag # None, One(d.tag) ++ One(":"))
             N == One(d.name)
             end == One("//") ++ (One("raw") ++ One("native"))
  <1>1. /\ d \in Decl /\ d.name = n.name /\ d.tag = tag_of(n.returns) /\ n.name \in Names \cup Callbacks
        /\ d.tag \in Tags
    BY DerivedIs, NativeIs, TagOf
  <1>2. /\ "//" \in Tokens /\ "native" \in Tokens /\ "raw" \in Tokens /\ "(" \in Tokens /\ ")" \in Tokens
        /\ "..." \in Tokens /\ Semicolon \in Tokens /\ d.name \in Tokens
    BY <1>1, NameIs, Marks, Keywords DEF Tokens, Words, Punctuation
  <1>3. /\ One("//") \in Texts /\ One("native") \in Texts /\ One("raw") \in Texts /\ One("(") \in Texts
        /\ One(")") \in Texts /\ One("...") \in Texts /\ One(Semicolon) \in Texts /\ N \in Texts
    BY <1>2, OneIs
  <1>4. T \in Texts /\ Tagged(tag_of(n.returns)) = T
    <2>1. CASE d.tag # None
      BY <1>1, <2>1, TagIs DEF When
    <2>2. CASE d.tag = None
      BY <1>1, <2>2, TextsAre DEF When, Tagged
    <2>3. QED
      BY <2>1, <2>2
  <1>5. Lead(d) = T ++ N
    BY DEF Lead
  <1>6. end \in Texts
    BY <1>3, CatIs
  <1>7. RawText(n) = One("native") ++ ((T ++ N) ++ (One("(") ++ (One("...") ++ (One(")") ++ (One(Semicolon) ++ end)))))
    <2>1. RawDeclaration(n) = One("native") ++ ((T ++ N) ++ (One("(") ++ (One("...") ++ (One(")") ++ One(Semicolon)))))
      <3>1. <<>> ++ One(Semicolon) = One(Semicolon)
        BY <1>3, CatIs
      <3> HIDE DEF T, N
      <3>2. QED
        BY <1>5, <3>1 DEF RawDeclaration, DeclarationText
    <2> HIDE DEF T, N, end, d
    <2> DEFINE C1 == One(")") ++ One(Semicolon)
               C2 == One("...") ++ C1
               C3 == One("(") ++ C2
               C4 == (T ++ N) ++ C3
    <2>2. C1 \in Texts /\ T ++ N \in Texts
      BY <1>3, <1>4, CatIs
    <2>3. C2 \in Texts
      <3> HIDE DEF C1
      <3>1. QED
        BY <1>3, <2>2, CatIs
    <2>4. C3 \in Texts
      <3> HIDE DEF C2
      <3>1. QED
        BY <1>3, <2>3, CatIs
    <2>5. C4 \in Texts
      <3> HIDE DEF C3
      <3>1. QED
        BY <2>2, <2>4, CatIs
    <2>6. (One("native") ++ C4) ++ end = One("native") ++ (C4 ++ end)
      <3> HIDE DEF C4
      <3>1. QED
        BY <1>3, <1>6, <2>5, CatRegroups
    <2>7. C4 ++ end = (T ++ N) ++ (C3 ++ end)
      <3> HIDE DEF C3
      <3>1. QED
        BY <1>6, <2>2, <2>4, CatRegroups
    <2>8. C3 ++ end = One("(") ++ (C2 ++ end)
      <3> HIDE DEF C2
      <3>1. QED
        BY <1>3, <1>6, <2>3, CatRegroups
    <2>9. C2 ++ end = One("...") ++ (C1 ++ end)
      <3> HIDE DEF C1
      <3>1. QED
        BY <1>3, <1>6, <2>2, CatRegroups
    <2>10. C1 ++ end = One(")") ++ (One(Semicolon) ++ end)
      BY <1>3, <1>6, CatRegroups
    <2>11. RawText(n) = (One("native") ++ C4) ++ end
      BY <2>1 DEF RawText, end
    <2> HIDE DEF C1, C2, C3, C4
    <2>12. QED
      BY <2>6, <2>7, <2>8, <2>9, <2>10, <2>11
  <1>8. native_decl(n) = One("//") ++ RawText(n)
    <2> DEFINE six == <<"...", ")", Semicolon, "//", "raw", "native">>
               eight == <<d.name, "(", "...", ")", Semicolon, "//", "raw", "native">>
               seven == <<"(", "...", ")", Semicolon, "//", "raw", "native">>
    <2>1. six = One("...") ++ (One(")") ++ (One(Semicolon) ++ end))
      <3>1. {"...", ")", Semicolon, "//", "raw", "native"} \subseteq Tokens
        BY <1>2
      <3>2. QED
        BY <3>1, Tuple6, SMTT(20)
    <2>2. /\ seven \in Texts /\ six \in Texts /\ Len(seven) = Len(six) + 1 /\ seven[1] = "("
          /\ \A i \in 1 .. Len(six) : seven[i + 1] = six[i]
      BY <1>2 DEF Texts
    <2>3. seven = One("(") ++ six
      <3> HIDE DEF seven, six
      <3>1. QED
        BY <1>2, <2>2, ConsIs
    <2>4. /\ eight \in Texts /\ Len(eight) = Len(seven) + 1 /\ eight[1] = d.name
          /\ \A i \in 1 .. Len(seven) : eight[i + 1] = seven[i]
      <3> HIDE DEF d
      <3>1. QED
        BY <1>2 DEF Texts
    <2>5. eight = N ++ seven
      <3> DEFINE name == d.name
      <3>1. name \in Tokens /\ N = One(name) /\ eight[1] = name
        BY <1>2, <2>4
      <3> HIDE DEF seven, eight, N, name
      <3>2. QED
        BY <2>2, <2>4, <3>1, ConsIs
    <2>6. <<"//", "native">> = One("//") ++ One("native")
      <3>1. {"//", "native"} \subseteq Tokens
        BY <1>2
      <3>2. QED
        BY <3>1, Tuple2
    <2>7. native_decl(n) = ((One("//") ++ One("native")) ++ T) ++ eight
      <3>1. native_decl(n) = (<<"//", "native">> \o Tagged(tag_of(n.returns))) \o eight
        BY <1>1 DEF native_decl
      <3> HIDE DEF eight, T, d
      <3>2. QED
        BY <1>4, <2>6, <3>1 DEF ++
    <2> DEFINE R == One("(") ++ (One("...") ++ (One(")") ++ (One(Semicolon) ++ end)))
    <2>8. eight = N ++ R
      <3> HIDE DEF eight, seven, six, end, N
      <3>1. QED
        BY <2>1, <2>3, <2>5
    <2>9. R \in Texts
      BY <2>1, <2>2, <2>3
    <2> HIDE DEF R, N, T, eight, six, seven, end, d
    <2>10. N ++ R \in Texts /\ T ++ N \in Texts
      BY <1>3, <1>4, <2>9, CatIs
    <2>11. ((One("//") ++ One("native")) ++ T) ++ (N ++ R) = One("//") ++ (One("native") ++ (T ++ (N ++ R)))
      <3>1. One("//") ++ One("native") \in Texts /\ T ++ (N ++ R) \in Texts
        BY <1>3, <1>4, <2>10, CatIs
      <3>2. ((One("//") ++ One("native")) ++ T) ++ (N ++ R) = (One("//") ++ One("native")) ++ (T ++ (N ++ R))
        BY <1>3, <1>4, <2>10, <3>1, CatRegroups
      <3>3. QED
        BY <1>3, <3>1, <3>2, CatRegroups
    <2>12. T ++ (N ++ R) = (T ++ N) ++ R
      BY <1>3, <1>4, <2>9, CatRegroups
    <2>13. RawText(n) = One("native") ++ ((T ++ N) ++ R)
      BY <1>7 DEF R
    <2>14. QED
      BY <2>7, <2>8, <2>11, <2>12, <2>13
  <1>9. HeadOK(Lead(d)) /\ \A token \in {"//", "/*", "\n", "native", "forward"} : ~Contains(Lead(d), token)
    <2>1. \A token \in {"//", "/*", "\n", "native", "forward"} : token \in Words /\ token \notin {"float", "bool", ":"}
      BY DEF Words, Punctuation
    <2>2. QED
      BY <1>1, <2>1, LeadIs
  <1>10. RawDeclaration(n) \in Texts /\
         \A token \in {"//", "/*", "\n", "forward"} : ~Contains(RawDeclaration(n), token)
    <2> DEFINE C1 == <<>> ++ One(Semicolon)
               C2 == One(")") ++ C1
               C3 == One("...") ++ C2
               C4 == One("(") ++ C3
               C5 == Lead(d) ++ C4
    <2>1. ASSUME NEW token \in {"//", "/*", "\n", "forward"}
          PROVE  RawDeclaration(n) \in Texts /\ ~Contains(RawDeclaration(n), token)
      <3>1. /\ ~Contains(One("native"), token) /\ ~Contains(One("("), token) /\ ~Contains(One(")"), token)
            /\ ~Contains(One("..."), token) /\ ~Contains(One(Semicolon), token) /\ ~Contains(<<>>, token)
        <4>1. /\ token # "native" /\ token # "(" /\ token # ")" /\ token # "..." /\ token # Semicolon
              /\ token \in Tokens
          BY Marks, Keywords DEF Semicolon
        <4>2. ~Contains(<<>>, token)
          BY <4>1, ContainsNone
        <4>3. \A other : token # other => ~Contains(One(other), token)
          BY ContainsIn
        <4>4. QED
          BY <4>1, <4>2, <4>3
      <3>2. C1 \in Texts /\ ~Contains(C1, token)
        BY <1>3, <3>1, TextsAre, CatIs, ContainsCat
      <3>3. C2 \in Texts /\ ~Contains(C2, token)
        <4> HIDE DEF C1
        <4>1. QED
          BY <1>3, <3>1, <3>2, CatIs, ContainsCat
      <3>4. C3 \in Texts /\ ~Contains(C3, token)
        <4> HIDE DEF C2
        <4>1. QED
          BY <1>3, <3>1, <3>3, CatIs, ContainsCat
      <3>5. C4 \in Texts /\ ~Contains(C4, token)
        <4> HIDE DEF C3
        <4>1. QED
          BY <1>3, <3>1, <3>4, CatIs, ContainsCat
      <3>6. C5 \in Texts /\ ~Contains(C5, token)
        <4> HIDE DEF C4
        <4>1. Lead(d) \in Texts /\ ~Contains(Lead(d), token)
          BY <1>9 DEF HeadOK
        <4> HIDE DEF d
        <4>2. QED
          BY <3>5, <4>1, CatIs, ContainsCat
      <3>7. RawDeclaration(n) = One("native") ++ C5
        BY DEF RawDeclaration, DeclarationText
      <3> HIDE DEF C5
      <3>8. QED
        BY <1>3, <3>1, <3>6, <3>7, CatIs, ContainsCat
    <2>2. QED
      BY <2>1
  <1>11. RawText(n) \in Texts /\ ~Contains(RawText(n), "\n")
    <2>1. ~Contains(end, "\n")
      <3>1. ~Contains(One("//"), "\n") /\ ~Contains(One("raw"), "\n") /\ ~Contains(One("native"), "\n")
        BY ContainsIn
      <3>2. One("raw") ++ One("native") \in Texts /\ ~Contains(One("raw") ++ One("native"), "\n")
        BY <1>3, <3>1, CatIs, ContainsCat
      <3>3. QED
        BY <1>3, <3>1, <3>2, ContainsCat
    <2>2. RawText(n) = RawDeclaration(n) ++ end
      BY DEF RawText
    <2> HIDE DEF end
    <2>3. QED
      BY <1>6, <1>10, <2>1, <2>2, CatIs, ContainsCat
  <1> DEFINE x == ToDeclaration(Lead(d), One("..."), <<>>)
  <1>12. Says(RawDeclaration(n), <<x>>, <<>>)
    <2>1. <<>> \in Texts /\ ~Contains(<<>>, Semicolon) /\ ~Contains(One("..."), ")")
      BY TextsAre, ContainsNone, ContainsIn
    <2>2. "native" \in Tokens /\ "native" # Semicolon
      BY Keywords
    <2>3. <<x>> \in Seq(Readings)
      <3>1. x \in Readings
        BY <1>3, <1>9, <2>1 DEF HeadOK, Readings
      <3> HIDE DEF x
      <3>2. QED
        BY <3>1
    <2>4. ASSUME NEW rest \in Texts
          PROVE  parse_declarations(RawDeclaration(n) ++ rest, "native") =
                   <<x>> \o parse_declarations(rest, "native")
      BY <1>3, <1>9, <2>1, <2>2, OneIsRead DEF RawDeclaration
    <2> HIDE DEF x
    <2>5. Declares(RawDeclaration(n), "native", <<x>>)
      BY <2>3, <2>4 DEF Declares
    <2>6. Declares(RawDeclaration(n), "forward", <<>>)
      BY <1>10, Keywords, DeclaresNothing
    <2>7. QED
      BY <1>10, <2>5, <2>6, SaysCode
  <1>13. x.name = n.name /\ DOMAIN x = {"name", "tag", "arguments", "variadic", "implemented_by", "shape_known"}
    <2>1. Lead(d)[FindLast(Lead(d), ":") + 1] = d.name
      BY <1>1, LeadIs
    <2>2. QED
      BY <1>1, <2>1 DEF ToDeclaration, Declaration
  <1>14. parse(RawText(n)) = <<x>>
    <2>1. One("raw") ++ One("native") \in Texts /\ ~Contains(One("raw") ++ One("native"), "\n")
      <3>1. ~Contains(One("raw"), "\n") /\ ~Contains(One("native"), "\n")
        BY ContainsIn
      <3>2. QED
        BY <1>3, <3>1, CatIs, ContainsCat
    <2> HIDE DEF x
    <2>2. QED
      BY <1>12, <2>1, ParseUnended DEF RawText
  <1>15. QED
    <2> HIDE DEF x, end, d, T, N
    <2>1. QED
      BY <1>8, <1>11, <1>12, <1>13, <1>14

(***************************************************************************)
(* A native as a line, under its name or another.                          *)
(***************************************************************************)

\* The front of a text.
LEMMA FrontIs ==
  ASSUME NEW a \in Texts, NEW b \in Texts
  PROVE  SubSeq(a ++ b, 1, Len(a)) = a
  <1>1. a ++ b \in Texts /\ Len(a ++ b) = Len(a) + Len(b) /\ \A i \in 1 .. Len(a) : (a ++ b)[i] = a[i]
    BY CatIs
  <1>2. Len(a) \in Nat /\ Len(b) \in Nat
    BY DEF Texts
  <1>3. QED
    BY <1>1, <1>2 DEF Texts

LEMMA ConsAt ==
  ASSUME NEW c \in Tokens, NEW text \in Texts
  PROVE  /\ One(c) ++ text \in Texts /\ Len(One(c) ++ text) = 1 + Len(text) /\ (One(c) ++ text)[1] = c
         /\ \A j \in 1 .. Len(text) : (One(c) ++ text)[1 + j] = text[j]
  <1> DEFINE a == One(c)
  <1>1. a \in Texts /\ Len(a) = 1
    BY OneIs
  <1> HIDE DEF a
  <1>2. a ++ text \in Texts /\ Len(a ++ text) = Len(a) + Len(text)
    BY <1>1, CatIs
  <1>3. \A j \in 1 .. Len(text) : (a ++ text)[Len(a) + j] = text[j]
    BY <1>1, CatIs
  <1>4. (a ++ text)[1] = c
    BY FirstIs DEF a
  <1>5. QED
    BY <1>1, <1>2, <1>3, <1>4 DEF a

LEMMA CatAt ==
  ASSUME NEW a \in Texts, NEW b \in Texts, NEW all, all = a ++ b
  PROVE  /\ all \in Texts /\ Len(all) = Len(a) + Len(b)
         /\ \A j \in 1 .. Len(a) : all[j] = a[j]
         /\ \A j \in 1 .. Len(b) : all[Len(a) + j] = b[j]
  BY CatIs

LEMMA LastIs ==
  ASSUME NEW front \in Texts, NEW token \in Tokens, NEW rest \in Texts, ~Contains(rest, token),
         NEW text, text = front ++ (One(token) ++ rest)
  PROVE  FindLast(text, token) = Len(front) + 1
  <1>1. PICK S : S = One(token) ++ rest
    OBVIOUS
  <1>2. S \in Texts /\ Len(S) = 1 + Len(rest) /\ S[1] = token /\ \A j \in 1 .. Len(rest) : S[1 + j] = rest[j]
    BY <1>1, ConsAt
  <1>3. /\ text \in Texts /\ Len(text) = Len(front) + Len(S)
        /\ \A j \in 1 .. Len(S) : text[Len(front) + j] = S[j]
    BY <1>1, <1>2, CatIs
  <1>4. Len(front) \in Nat /\ Len(rest) \in Nat
    BY DEF Texts
  <1> DEFINE k == Len(front) + 1
  <1>5. k \in 1 .. Len(text)
    BY <1>2, <1>3, <1>4
  <1>6. text[k] = token
    <2>1. 1 \in 1 .. Len(S)
      BY <1>2, <1>4
    <2>2. QED
      BY <1>2, <1>3, <2>1
  <1>7. ASSUME NEW j \in k + 1 .. Len(text)
        PROVE  text[j] # token
    <2>1. j - k \in 1 .. Len(rest) /\ 1 + (j - k) \in 1 .. Len(S)
      BY <1>2, <1>3, <1>4
    <2>2. text[Len(front) + (1 + (j - k))] = S[1 + (j - k)]
      BY <1>3, <2>1
    <2>3. Len(front) + (1 + (j - k)) = j
      BY <1>4
    <2>4. S[1 + (j - k)] = rest[j - k]
      BY <1>2, <2>1
    <2>5. rest[j - k] # token
      BY <2>1 DEF Contains
    <2>6. QED
      BY <2>2, <2>3, <2>4, <2>5
  <1> HIDE DEF k
  <1>8. FindLast(text, token) = k
    BY <1>3, <1>5, <1>6, <1>7, FindLastAt
  <1>9. QED
    BY <1>8 DEF k

\* Another name, and = with the old one in front of the last semicolon.
LEMMA AliasIs ==
  ASSUME NEW before \in Texts, NEW name \in Tokens, NEW behind \in Texts, NEW rest \in Texts,
         NEW alias \in Tokens, ~Contains(before, name), ~Contains(rest, Semicolon),
         NEW decl, decl = before ++ (One(name) ++ (behind ++ (One(Semicolon) ++ rest)))
  PROVE  alias_line(decl, name, One(alias)) =
           before ++ (One(alias) ++ (behind ++ (One("=") ++ (One(name) ++ One(Semicolon)))))
  <1> DEFINE end == behind ++ (One(Semicolon) ++ rest)
             found == Find(decl, name)
             renamed == SubSeq(decl, 1, found - 1) \o One(alias) \o From(decl, found + 1)
             front == before ++ (One(alias) ++ behind)
             i == Len(before) + 1
             k == Len(front) + 1
  <1>1. /\ Semicolon \in Tokens /\ "=" \in Tokens
        /\ One(Semicolon) \in Texts /\ One("=") \in Texts /\ One(name) \in Texts /\ One(alias) \in Texts
    BY Marks, OneIs DEF Tokens, Words, Punctuation
  <1>2. One(Semicolon) ++ rest \in Texts /\ end \in Texts
    BY <1>1, CatIs
  <1>3. /\ decl \in Texts /\ Find(decl, name) = i
        /\ SubSeq(decl, 1, found - 1) = before /\ From(decl, found + 1) = end
    <2>1. decl = before ++ (One(name) ++ end)
      OBVIOUS
    <2> HIDE DEF end
    <2>2. QED
      BY <1>2, <2>1, AroundToken
  <1>4. One(alias) ++ end \in Texts /\ One(name) ++ end \in Texts
    <2> HIDE DEF end
    <2>1. QED
      BY <1>1, <1>2, CatIs
  <1>5. renamed = before ++ (One(alias) ++ end)
    <2>1. renamed = (before ++ One(alias)) ++ end
      BY <1>3 DEF ++
    <2> HIDE DEF renamed, end
    <2>2. QED
      BY <1>1, <1>2, <2>1, CatRegroups
  <1>6. One(alias) ++ behind \in Texts /\ front \in Texts
    BY <1>1, CatIs
  <1>7. renamed = front ++ (One(Semicolon) ++ rest)
    <2>1. (One(alias) ++ behind) ++ (One(Semicolon) ++ rest) = One(alias) ++ end
      BY <1>1, <1>2, CatRegroups
    <2>2. front ++ (One(Semicolon) ++ rest) = before ++ ((One(alias) ++ behind) ++ (One(Semicolon) ++ rest))
      BY <1>2, <1>6, CatRegroups
    <2> HIDE DEF end, front
    <2>3. QED
      BY <1>5, <2>1, <2>2
  <1> HIDE DEF renamed, front, end, i, found
  <1>8. FindLast(renamed, Semicolon) = k
    BY <1>1, <1>6, <1>7, LastIs DEF k
  <1>9. SubSeq(renamed, 1, FindLast(renamed, Semicolon) - 1) = front
    <2>1. k - 1 = Len(front)
      BY <1>6 DEF Texts
    <2>2. SubSeq(front ++ (One(Semicolon) ++ rest), 1, Len(front)) = front
      BY <1>2, <1>6, FrontIs
    <2>3. QED
      BY <1>7, <1>8, <2>1, <2>2
  <1>10. <<"=", name, Semicolon>> = One("=") ++ (One(name) ++ One(Semicolon))
    <2>1. {"=", name, Semicolon} \subseteq Tokens
      BY <1>1
    <2>2. QED
      BY <2>1, Tuple3
  <1>11. alias_line(decl, name, One(alias)) = front ++ (One("=") ++ (One(name) ++ One(Semicolon)))
    BY <1>9, <1>10 DEF alias_line, ++, renamed, found
  <1> DEFINE implements == One("=") ++ (One(name) ++ One(Semicolon))
  <1>12. implements \in Texts
    BY <1>1, CatIs
  <1> HIDE DEF implements
  <1>13. front ++ implements = before ++ ((One(alias) ++ behind) ++ implements)
    BY <1>6, <1>12, CatRegroups DEF front
  <1>14. (One(alias) ++ behind) ++ implements = One(alias) ++ (behind ++ implements)
    BY <1>1, <1>12, CatRegroups
  <1>15. QED
    BY <1>11, <1>13, <1>14 DEF implements

\* What the line of a native declares.
Spoken(n) == IF n.raw THEN <<>> ELSE <<Plain(Derived(n))>>

LEMMA LineAndEnd ==
  ASSUME NEW text, NEW declared, NEW forwarded, Says(text, declared, forwarded)
  PROVE  /\ text ++ One("\n") \in Texts
         /\ Says(text ++ One("\n"), declared, forwarded)
  <1>1. declared \in Seq(Readings) /\ forwarded \in Seq(Readings)
    BY SaysTypes
  <1>2. declared \o <<>> = declared /\ forwarded \o <<>> = forwarded
    BY <1>1, ConcatEmptySeq
  <1>3. Says(text ++ One("\n"), declared \o <<>>, forwarded \o <<>>)
    BY LineEndSays, SaysBoth
  <1>4. QED
    BY <1>2, <1>3, SaysTypes

LEMMA NativeSays ==
  ASSUME NEW n \in Native, Fits(Derived(n))
  PROVE  /\ native_decl(n) \in Texts
         /\ parse(native_decl(n)) = Spoken(n)
         /\ Says(native_decl(n) ++ One("\n"), Spoken(n), <<>>)
  <1>1. CASE n.raw
    <2>1. native_decl(n) = One("//") ++ RawText(n) /\ RawText(n) \in Texts /\ ~Contains(RawText(n), "\n")
      BY <1>1, RawIs
    <2>2. native_decl(n) \in Texts /\ native_decl(n) # <<>> /\ native_decl(n)[1] = "//"
      BY <2>1, Marks, FirstIs
    <2>3. ~Contains(native_decl(n), "\n")
      <3>1. One("//") \in Texts /\ ~Contains(One("//"), "\n")
        BY Marks, OneIs, ContainsIn
      <3>2. QED
        BY <2>1, <3>1, ContainsCat
    <2>4. QED
      BY <1>1, <2>2, <2>3, CommentSays DEF Spoken
  <1>2. CASE ~n.raw
    <2>1. native_decl(n) = Line("native", Derived(n))
      BY <1>2 DEF native_decl
    <2>2. Says(native_decl(n), <<Plain(Derived(n))>>, <<>>)
      BY <2>1, LineSays
    <2>3. Spoken(n) = <<Plain(Derived(n))>>
      BY <1>2 DEF Spoken
    <2>4. QED
      BY <2>2, <2>3, SaysTypes, ParseIs, LineAndEnd
  <1>3. QED
    BY <1>1, <1>2

\* A native under an alias.
AliasSpoken(n, alias) == IF n.raw THEN <<>> ELSE <<Plain(Aliased(Derived(n), alias))>>

LEMMA AliasSays ==
  ASSUME NEW n \in Native, Fits(Derived(n)), NEW alias \in Names
  PROVE  /\ alias_line(native_decl(n), n.name, One(alias)) \in Texts
         /\ parse(alias_line(native_decl(n), n.name, One(alias))) = AliasSpoken(n, alias)
         /\ Says(alias_line(native_decl(n), n.name, One(alias)) ++ One("\n"), AliasSpoken(n, alias), <<>>)
  <1> DEFINE d == Derived(n)
             T == When(d.tag # None, One(d.tag) ++ One(":"))
             line == alias_line(native_decl(n), n.name, One(alias))
             name == n.name
  <1>1. /\ d \in Decl /\ d.name = name /\ d.tag \in Tags /\ d.implemented_by = None
        /\ name \in Names
    BY DerivedIs, NativeIs DEF Decl
  <1>2. /\ "native" \in Tokens /\ "(" \in Tokens /\ ")" \in Tokens /\ Semicolon \in Tokens /\ "=" \in Tokens
        /\ "..." \in Tokens /\ "//" \in Tokens /\ "raw" \in Tokens
        /\ name \in Tokens /\ name \notin Words /\ alias \in Tokens /\ alias \notin Words
    BY <1>1, NameIs, Marks, Keywords DEF Tokens, Words, Punctuation
  <1>3. /\ One("native") \in Texts /\ One("(") \in Texts /\ One(")") \in Texts /\ One(Semicolon) \in Texts
        /\ One("...") \in Texts /\ One("=") \in Texts /\ One("//") \in Texts /\ One("raw") \in Texts
        /\ One(name) \in Texts /\ One(alias) \in Texts
    BY <1>2, OneIs
  <1>4. T \in Texts /\ ~Contains(T, name)
    <2>1. CASE d.tag = None
      BY <1>1, <2>1, TextsAre, ContainsNone DEF When
    <2>2. CASE d.tag # None
      <3>1. /\ One(d.tag) \in Texts /\ One(":") \in Texts /\ One(d.tag) ++ One(":") \in Texts
            /\ d.tag \in {"float", "bool"}
        BY <1>1, <2>2, TagIs
      <3>2. name # d.tag /\ name # ":"
        BY <1>2, <3>1 DEF Words, Punctuation
      <3>3. ~Contains(One(d.tag) ++ One(":"), name)
        BY <3>1, <3>2, ContainsIn, ContainsCat
      <3>4. QED
        BY <2>2, <3>1, <3>3 DEF When
    <2>3. QED
      BY <2>1, <2>2
  <1>5. Lead(d) = T ++ One(name)
    BY <1>1 DEF Lead
  <1>6. ~Contains(One("native"), name) /\ ~Contains(One("//"), name)
    <2>1. name # "native" /\ name # "//"
      BY <1>2 DEF Words, Punctuation
    <2>2. QED
      BY <2>1, ContainsIn
  <1>7. One("native") ++ T \in Texts /\ ~Contains(One("native") ++ T, name)
    BY <1>3, <1>4, <1>6, CatIs, ContainsCat
  <1>8. CASE ~n.raw
    <2> DEFINE L == ReadList(d)
               C == Closing(d)
               D == Aliased(d, alias)
    <2>1. native_decl(n) = DeclarationText("native", Lead(d), L, Trail(d))
      BY <1>8, LineIs DEF native_decl
    <2>2. /\ Fits(D) /\ D.tag = d.tag /\ D.name = alias /\ D.arguments = d.arguments
          /\ D.variadic = d.variadic /\ D.implemented_by = name
      BY <1>1, AliasedIs
    <2>3. Line("native", D) = DeclarationText("native", Lead(D), ReadList(D), Trail(D))
      BY <2>2, LineIs
    <2>4. L \in Texts /\ C \in Texts
      BY <1>1, ListIs, TrailIs
    <2>5. Trail(d) = C
      <3>1. Target(d) = <<>>
        BY <1>1 DEF Target, When
      <3>2. QED
        BY <2>4, <3>1, CatIs DEF Trail
    <2>6. ReadList(D) = L /\ Closing(D) = C /\ Lead(D) = T ++ One(alias)
      <3>1. ReadItems(D) = ReadItems(d)
        BY <2>2 DEF ReadItems
      <3>2. Closing(D) = C
        BY <2>2 DEF Closing, Sized
      <3>3. Lead(D) = T ++ One(alias)
        BY <2>2 DEF Lead
      <3>4. QED
        BY <3>1, <3>2, <3>3 DEF ReadList
    <2>7. Target(D) = One("=") ++ One(name)
      <3>1. name # None
        BY <1>1, NameIs
      <3>2. QED
        BY <2>2, <3>1 DEF Target, When
    <2> HIDE DEF L, C, T
    <2> DEFINE M == One(")") ++ C
               behind == One("(") ++ (L ++ M)
               before == One("native") ++ T
               target == One("=") ++ One(name)
    <2>8. M \in Texts /\ L ++ M \in Texts
      BY <1>3, <2>4, CatIs
    <2>9. behind \in Texts
      <3> HIDE DEF M
      <3>1. QED
        BY <1>3, <2>8, CatIs
    <2>10. ASSUME NEW end \in Texts
           PROVE  One("(") ++ (L ++ (One(")") ++ (C ++ end))) = behind ++ end
      <3>1. One(")") ++ (C ++ end) = M ++ end
        BY <1>3, <2>4, CatRegroups
      <3> HIDE DEF M
      <3>2. L ++ (M ++ end) = (L ++ M) ++ end
        BY <2>4, <2>8, CatRegroups
      <3> DEFINE P == L ++ M
      <3>3. P \in Texts
        BY <2>8
      <3> HIDE DEF P
      <3>4. One("(") ++ (P ++ end) = (One("(") ++ P) ++ end
        BY <1>3, <3>3, CatRegroups
      <3>5. QED
        BY <3>1, <3>2, <3>4 DEF P
    <2>11. ASSUME NEW c \in Tokens, NEW end \in Texts
           PROVE  One("native") ++ ((T ++ One(c)) ++ (behind ++ end)) = before ++ (One(c) ++ (behind ++ end))
      <3> HIDE DEF behind
      <3>1. behind ++ end \in Texts /\ One(c) \in Texts
        BY <2>9, CatIs, OneIs
      <3> DEFINE E == behind ++ end
      <3> HIDE DEF E
      <3>2. E \in Texts
        BY <3>1 DEF E
      <3>3. (T ++ One(c)) ++ E = T ++ (One(c) ++ E)
        BY <1>4, <3>1, <3>2, CatRegroups
      <3>4. One(c) ++ E \in Texts
        BY <3>1, <3>2, CatIs
      <3>5. One("native") ++ (T ++ (One(c) ++ E)) = (One("native") ++ T) ++ (One(c) ++ E)
        BY <1>3, <1>4, <3>4, CatRegroups
      <3>6. QED
        BY <3>3, <3>5 DEF E
    <2>12. native_decl(n) = before ++ (One(name) ++ (behind ++ (One(Semicolon) ++ <<>>)))
      <3>1. One(Semicolon) ++ <<>> = One(Semicolon)
        BY <1>3, CatIs
      <3>2. native_decl(n) = One("native") ++ ((T ++ One(name)) ++ (One("(") ++ (L ++ (One(")") ++ (C ++ One(Semicolon))))))
        BY <1>5, <2>1, <2>5 DEF DeclarationText
      <3> HIDE DEF behind, before
      <3>3. native_decl(n) = One("native") ++ ((T ++ One(name)) ++ (behind ++ One(Semicolon)))
        BY <1>3, <2>10, <3>2
      <3>4. QED
        BY <1>2, <1>3, <2>11, <3>1, <3>3
    <2>13. line = before ++ (One(alias) ++ (behind ++ (One("=") ++ (One(name) ++ One(Semicolon)))))
      <3>1. <<>> \in Texts /\ ~Contains(<<>>, Semicolon)
        BY TextsAre, ContainsNone
      <3> HIDE DEF behind
      <3>2. QED
        BY <1>2, <1>7, <2>9, <2>12, <3>1, AliasIs
    <2>14. Line("native", D) = before ++ (One(alias) ++ (behind ++ (One("=") ++ (One(name) ++ One(Semicolon)))))
      <3>1. Trail(D) = C ++ target
        BY <2>6, <2>7 DEF Trail
      <3>2. Line("native", D) =
              One("native") ++ ((T ++ One(alias)) ++ (One("(") ++ (L ++ (One(")") ++ ((C ++ target) ++ One(Semicolon))))))
        BY <2>3, <2>6, <3>1 DEF DeclarationText
      <3>3. target \in Texts /\ One(name) ++ One(Semicolon) \in Texts
        BY <1>3, CatIs
      <3>4. target ++ One(Semicolon) = One("=") ++ (One(name) ++ One(Semicolon))
        BY <1>3, CatRegroups
      <3>5. (C ++ target) ++ One(Semicolon) = C ++ (target ++ One(Semicolon))
        <4> HIDE DEF target
        <4>1. QED
          BY <1>3, <2>4, <3>3, CatRegroups
      <3> DEFINE end == One("=") ++ (One(name) ++ One(Semicolon))
      <3>6. end \in Texts
        BY <1>3, <3>3, CatIs
      <3> HIDE DEF behind, before, end, target
      <3>7. (C ++ target) ++ One(Semicolon) = C ++ end
        BY <3>4, <3>5 DEF end
      <3>8. Line("native", D) = One("native") ++ ((T ++ One(alias)) ++ (behind ++ end))
        BY <2>10, <3>2, <3>6, <3>7
      <3>9. Line("native", D) = before ++ (One(alias) ++ (behind ++ end))
        BY <1>2, <2>11, <3>6, <3>8
      <3>10. QED
        BY <3>9 DEF end
    <2> HIDE DEF D, before, behind
    <2>15. line = Line("native", D)
      BY <2>13, <2>14
    <2>16. Says(line, <<Plain(D)>>, <<>>)
      BY <2>2, <2>15, LineSays
    <2>17. AliasSpoken(n, alias) = <<Plain(D)>>
      BY <1>8 DEF AliasSpoken, D
    <2> HIDE DEF line
    <2>18. line \in Texts /\ parse(line) = <<Plain(D)>> /\ Says(line ++ One("\n"), <<Plain(D)>>, <<>>)
      BY <2>16, SaysTypes, ParseIs, LineAndEnd
    <2>19. QED
      BY <2>17, <2>18 DEF line
  <1>9. CASE n.raw
    <2> DEFINE end == One("//") ++ (One("raw") ++ One("native"))
               before == One("//") ++ (One("native") ++ T)
               behind == One("(") ++ (One("...") ++ One(")"))
               implements == One("=") ++ (One(name) ++ One(Semicolon))
    <2>1. end \in Texts /\ before \in Texts /\ behind \in Texts /\ implements \in Texts
      <3> HIDE DEF T
      <3>1. One("raw") ++ One("native") \in Texts /\ One("...") ++ One(")") \in Texts
            /\ One(name) ++ One(Semicolon) \in Texts
        BY <1>3, CatIs
      <3>2. QED
        BY <1>3, <1>7, <3>1, CatIs
    <2>2. native_decl(n) = before ++ (One(name) ++ (behind ++ (One(Semicolon) ++ end)))
      <3>1. native_decl(n) =
              One("//") ++ ((One("native") ++ (Lead(d) ++ (One("(") ++ (One("...") ++ (One(")") ++ (<<>> ++ One(Semicolon))))))) ++ end)
        BY <1>9, RawIs DEF RawText, RawDeclaration, DeclarationText
      <3>2. <<>> ++ One(Semicolon) = One(Semicolon)
        BY <1>3, CatIs
      <3>3. One("(") ++ (One("...") ++ (One(")") ++ One(Semicolon))) = behind ++ One(Semicolon)
        <4>1. One("...") ++ One(")") \in Texts
          BY <1>3, CatIs
        <4>2. (One("...") ++ One(")")) ++ One(Semicolon) = One("...") ++ (One(")") ++ One(Semicolon))
          BY <1>3, CatRegroups
        <4>3. behind ++ One(Semicolon) = One("(") ++ ((One("...") ++ One(")")) ++ One(Semicolon))
          BY <1>3, <4>1, CatRegroups
        <4>4. QED
          BY <4>2, <4>3
      <3> HIDE DEF T, d, name, end, behind
      <3> DEFINE b == behind ++ One(Semicolon)
                 t == T ++ One(name)
                 nb == One(name) ++ b
      <3>4. b \in Texts /\ t \in Texts
        BY <1>3, <1>4, <2>1, CatIs
      <3>5. native_decl(n) = One("//") ++ ((One("native") ++ (t ++ b)) ++ end)
        BY <1>5, <3>1, <3>2, <3>3
      <3>6. nb \in Texts
        <4> HIDE DEF b
        <4>1. QED
          BY <1>3, <3>4, CatIs
      <3>7. t ++ b = T ++ nb
        <4> HIDE DEF b
        <4>1. QED
          BY <1>3, <1>4, <3>4, CatRegroups
      <3>8. One("native") ++ (T ++ nb) = (One("native") ++ T) ++ nb
        <4> HIDE DEF nb
        <4>1. QED
          BY <1>3, <1>4, <3>6, CatRegroups
      <3>9. nb ++ end = One(name) ++ (behind ++ (One(Semicolon) ++ end))
        <4>1. nb ++ end = One(name) ++ (b ++ end)
          <5> HIDE DEF b
          <5>1. QED
            BY <1>3, <2>1, <3>4, CatRegroups
        <4>2. b ++ end = behind ++ (One(Semicolon) ++ end)
          BY <1>3, <2>1, CatRegroups
        <4>3. QED
          BY <4>1, <4>2
      <3> DEFINE v == One("native") ++ T
      <3>10. v \in Texts
        BY <1>7
      <3> HIDE DEF t, b, nb, v
      <3>11. native_decl(n) = One("//") ++ ((v ++ nb) ++ end)
        BY <3>5, <3>7, <3>8 DEF v
      <3>12. (v ++ nb) ++ end = v ++ (nb ++ end)
        BY <2>1, <3>6, <3>10, CatRegroups
      <3>13. nb ++ end \in Texts
        BY <2>1, <3>6, CatIs
      <3>14. One("//") ++ (v ++ (nb ++ end)) = (One("//") ++ v) ++ (nb ++ end)
        BY <1>3, <3>10, <3>13, CatRegroups
      <3>15. native_decl(n) = before ++ (nb ++ end)
        BY <3>11, <3>12, <3>14 DEF v
      <3>16. QED
        BY <3>9, <3>15
    <2>3. ~Contains(before, name) /\ ~Contains(before, "\n")
      <3>1. ~Contains(One("native"), "\n") /\ ~Contains(One("//"), "\n")
        BY ContainsIn
      <3>2. ~Contains(T, "\n")
        <4>1. CASE d.tag = None
          BY <4>1, ContainsNone DEF When
        <4>2. CASE d.tag # None
          <5>1. /\ One(d.tag) \in Texts /\ One(":") \in Texts /\ d.tag \in {"float", "bool"}
            BY <1>1, <4>2, TagIs
          <5>2. ~Contains(One(d.tag) ++ One(":"), "\n")
            BY <5>1, ContainsIn, ContainsCat
          <5>3. QED
            BY <4>2, <5>2 DEF When
        <4>3. QED
          BY <4>1, <4>2
      <3> HIDE DEF T
      <3>3. ~Contains(One("native") ++ T, "\n")
        BY <1>3, <1>4, <3>1, <3>2, ContainsCat
      <3>4. QED
        BY <1>3, <1>6, <1>7, <3>1, <3>3, ContainsCat
    <2>4. ~Contains(end, Semicolon)
      <3>1. Semicolon # "//" /\ Semicolon # "raw" /\ Semicolon # "native"
        BY NamedTokens
      <3>2. ~Contains(One("//"), Semicolon) /\ ~Contains(One("raw"), Semicolon) /\ ~Contains(One("native"), Semicolon)
        BY <3>1, ContainsIn
      <3>3. One("raw") ++ One("native") \in Texts /\ ~Contains(One("raw") ++ One("native"), Semicolon)
        BY <1>3, <3>2, CatIs, ContainsCat
      <3>4. QED
        BY <1>3, <3>2, <3>3, ContainsCat
    <2>5. line = before ++ (One(alias) ++ (behind ++ implements))
      <3> HIDE DEF before, behind, end
      <3>1. QED
        BY <1>2, <2>1, <2>2, <2>3, <2>4, AliasIs
    <2>6. ~Contains(behind ++ implements, "\n") /\ behind ++ implements \in Texts
      <3>1. name # "\n" /\ Semicolon # "\n"
        BY <1>2, NamedTokens DEF Words, Punctuation
      <3>2. /\ ~Contains(One("("), "\n") /\ ~Contains(One("..."), "\n") /\ ~Contains(One(")"), "\n")
            /\ ~Contains(One("="), "\n") /\ ~Contains(One(name), "\n") /\ ~Contains(One(Semicolon), "\n")
        BY <3>1, ContainsIn
      <3>3. One("...") ++ One(")") \in Texts /\ ~Contains(One("...") ++ One(")"), "\n")
        BY <1>3, <3>2, CatIs, ContainsCat
      <3>4. One(name) ++ One(Semicolon) \in Texts /\ ~Contains(One(name) ++ One(Semicolon), "\n")
        BY <1>3, <3>2, CatIs, ContainsCat
      <3>5. ~Contains(behind, "\n") /\ ~Contains(implements, "\n")
        BY <1>3, <3>2, <3>3, <3>4, ContainsCat
      <3> HIDE DEF behind, implements
      <3>6. QED
        BY <2>1, <3>5, CatIs, ContainsCat
    <2>7. One(alias) ++ (behind ++ implements) \in Texts /\ ~Contains(One(alias) ++ (behind ++ implements), "\n")
      <3>1. alias # "\n"
        BY <1>2 DEF Words, Punctuation
      <3> HIDE DEF behind, implements
      <3>2. ~Contains(One(alias), "\n")
        BY <3>1, ContainsIn
      <3>3. QED
        BY <1>3, <2>6, <3>2, CatIs, ContainsCat
    <2>8. line \in Texts /\ ~Contains(line, "\n") /\ line # <<>> /\ line[1] = "//"
      <3> DEFINE e == One(alias) ++ (behind ++ implements)
                 v == One("native") ++ T
      <3>1. e \in Texts /\ ~Contains(e, "\n")
        BY <2>7
      <3>2. v \in Texts
        BY <1>7
      <3>3. line = before ++ e /\ before = One("//") ++ v
        BY <2>5
      <3> HIDE DEF e, v, before, line
      <3>4. line \in Texts /\ ~Contains(line, "\n")
        BY <2>1, <2>3, <3>1, <3>3, CatIs, ContainsCat
      <3>5. (One("//") ++ v) ++ e = One("//") ++ (v ++ e)
        BY <1>3, <3>1, <3>2, CatRegroups
      <3>6. v ++ e \in Texts
        BY <3>1, <3>2, CatIs
      <3>7. line # <<>> /\ line[1] = "//"
        BY <1>2, <3>3, <3>5, <3>6, FirstIs
      <3>8. QED
        BY <3>4, <3>7
    <2>9. AliasSpoken(n, alias) = <<>>
      BY <1>9 DEF AliasSpoken
    <2> HIDE DEF line
    <2>10. parse(line) = <<>> /\ Says(line ++ One("\n"), <<>>, <<>>)
      BY <2>8, CommentSays
    <2>11. QED
      BY <2>8, <2>9, <2>10 DEF line
  <1>10. QED
    BY <1>8, <1>9

\* What the check knows of the natives.
LEMMA RegisteredIs ==
  ASSUME TypeOK, \A i \in DOMAIN natives : Fits(Derived(natives[i]))
  PROVE  /\ DOMAIN registered(native_decls) = DOMAIN natives
         /\ Len(registered(native_decls)) = Len(natives)
         /\ \A i \in DOMAIN natives :
              /\ registered(native_decls)[i].name = natives[i].name
              /\ registered(native_decls)[i].shape_known = ~natives[i].raw
              /\ ~natives[i].raw => registered(native_decls)[i] = Plain(Derived(natives[i]))
  <1> DEFINE plugin == registered(native_decls)
             N == Len(natives)
  <1>1. N \in Nat /\ DOMAIN natives = 1 .. N /\ \A i \in 1 .. N : natives[i] \in Native
    BY DEF TypeOK
  <1>2. DOMAIN native_decls = DOMAIN natives /\ \A i \in DOMAIN natives : native_decls[i] = native_decl(natives[i])
    BY DEF native_decls
  <1>3. /\ DOMAIN plugin = DOMAIN natives
        /\ \A i \in DOMAIN natives :
             plugin[i] = [parse(Strip(native_decls[i], "//"))[1] EXCEPT !.shape_known = Head(native_decls[i]) # "//"]
    BY <1>2 DEF registered
  <1>4. plugin \in Seq({plugin[i] : i \in 1 .. N})
    <2>1. plugin = [i \in 1 .. N |-> plugin[i]]
      BY <1>1, <1>2 DEF registered
    <2> HIDE DEF plugin
    <2>2. QED
      BY <1>1, <2>1
  <1> HIDE DEF plugin
  <1>5. Len(plugin) = N
    BY <1>1, <1>3, <1>4
  <1>6. ASSUME NEW i \in DOMAIN natives
        PROVE  /\ plugin[i].name = natives[i].name
               /\ plugin[i].shape_known = ~natives[i].raw
               /\ ~natives[i].raw => plugin[i] = Plain(Derived(natives[i]))
    <2> DEFINE n == natives[i]
               text == native_decl(n)
    <2>1. n \in Native /\ Fits(Derived(n)) /\ native_decls[i] = text
      BY <1>1, <1>2
    <2>2. plugin[i] = [parse(Strip(text, "//"))[1] EXCEPT !.shape_known = Head(text) # "//"]
      BY <1>3, <2>1
    <2> HIDE DEF n, text
    <2>3. CASE n.raw
      <3>1. text = One("//") ++ RawText(n) /\ RawText(n) \in Texts
        BY <2>1, <2>3, RawIs DEF text
      <3>2. PICK x : /\ x.name = n.name /\ parse(RawText(n)) = <<x>>
                     /\ DOMAIN x = {"name", "tag", "arguments", "variadic", "implemented_by", "shape_known"}
        BY <2>1, <2>3, RawIs
      <3>3. text # <<>> /\ Head(text) = "//" /\ Tail(text) = RawText(n)
        BY <3>1, Marks, FirstIs
      <3>4. Strip(text, "//") = RawText(n)
        BY <3>3 DEF Strip
      <3>5. (Head(text) # "//") = FALSE /\ <<x>>[1] = x
        BY <3>3
      <3>6. plugin[i] = [x EXCEPT !.shape_known = FALSE]
        BY <2>2, <3>2, <3>4, <3>5
      <3>7. plugin[i].name = x.name /\ plugin[i].shape_known = FALSE
        BY <3>2, <3>6
      <3>8. n.raw = TRUE
        BY <2>1, <2>3, NativeIs
      <3>9. QED
        BY <2>3, <3>2, <3>7, <3>8 DEF n
    <2>4. CASE ~n.raw
      <3> DEFINE d == Derived(n)
      <3>1. text = Line("native", d) /\ Spoken(n) = <<Plain(d)>>
        BY <2>4 DEF text, native_decl, Spoken
      <3>2. text = One("native") ++ (Lead(d) ++ (One("(") ++ (ReadList(d) ++ (One(")") ++ (Trail(d) ++ One(Semicolon))))))
        BY <2>1, <3>1, LineIs DEF DeclarationText
      <3>3. parse(text) = <<Plain(d)>>
        BY <2>1, <3>1, NativeSays DEF text
      <3>4. text \in Texts /\ text # <<>> /\ Head(text) = "native"
        <4>1. text \in Texts
          BY <2>1, NativeSays DEF text
        <4> DEFINE e == Lead(d) ++ (One("(") ++ (ReadList(d) ++ (One(")") ++ (Trail(d) ++ One(Semicolon)))))
        <4>2. e \in Texts
          <5>1. d \in Decl
            BY <2>1, DerivedIs
          <5>2. Lead(d) \in Texts /\ ReadList(d) \in Texts /\ Trail(d) \in Texts
            BY <2>1, <5>1, LeadIs, ListIs, TrailIs DEF HeadOK
          <5>3. One("(") \in Texts /\ One(")") \in Texts /\ One(Semicolon) \in Texts
            BY Marks, OneIs DEF Tokens, Words, Punctuation
          <5> HIDE DEF d
          <5>4. Trail(d) ++ One(Semicolon) \in Texts
            BY <5>2, <5>3, CatIs
          <5>5. One(")") ++ (Trail(d) ++ One(Semicolon)) \in Texts
            BY <5>3, <5>4, CatIs
          <5>6. ReadList(d) ++ (One(")") ++ (Trail(d) ++ One(Semicolon))) \in Texts
            BY <5>2, <5>5, CatIs
          <5>7. One("(") ++ (ReadList(d) ++ (One(")") ++ (Trail(d) ++ One(Semicolon)))) \in Texts
            BY <5>3, <5>6, CatIs
          <5>8. QED
            BY <5>2, <5>7, CatIs
        <4>3. text = One("native") ++ e
          BY <3>2
        <4> HIDE DEF e
        <4>4. QED
          BY <4>1, <4>2, <4>3, Keywords, FirstIs
      <3>5. Strip(text, "//") = text /\ (Head(text) # "//") = TRUE
        BY <3>4 DEF Strip
      <3>6. Plain(d).shape_known = TRUE
        BY DEF Plain
      <3>7. [Plain(d) EXCEPT !.shape_known = TRUE] = Plain(d)
        <4> DEFINE x == Plain(d)
                   fields == {"name", "tag", "arguments", "variadic", "implemented_by", "shape_known"}
        <4>1. x = [f \in fields |-> x[f]] /\ x.shape_known = TRUE
          BY DEF Plain
        <4> HIDE DEF x
        <4>2. [x EXCEPT !.shape_known = TRUE] = [f \in fields |-> x[f]]
          BY <4>1, Zenon
        <4>3. QED
          BY <4>1, <4>2 DEF x
      <3>8. <<Plain(d)>>[1] = Plain(d) /\ Plain(d).name = n.name
        BY <2>1, DerivedIs DEF Plain
      <3>9. plugin[i] = Plain(d)
        BY <2>2, <3>3, <3>5, <3>7, <3>8
      <3>10. n.raw = FALSE
        BY <2>1, <2>4, NativeIs
      <3>11. QED
        BY <3>6, <3>8, <3>9, <3>10 DEF n
    <2>5. QED
      BY <2>3, <2>4
  <1>7. QED
    BY <1>3, <1>5, <1>6 DEF plugin

(***************************************************************************)
(* What lines behind each other say.                                       *)
(***************************************************************************)
NamesOf(ds) == {d.name : d \in Range(ds)}
Distinct(ds) == \A i, j \in DOMAIN ds : ds[i].name = ds[j].name => i = j

LEMMA RangeNone ==
  /\ Range(<<>>) = {} /\ NamesOf(<<>>) = {} /\ Distinct(<<>>)
  /\ \A d : Range(<<d>>) = {d} /\ NamesOf(<<d>>) = {d.name} /\ Distinct(<<d>>)
  <1>1. Range(<<>>) = {} /\ NamesOf(<<>>) = {} /\ Distinct(<<>>)
    BY DEF Range, NamesOf, Distinct
  <1>2. ASSUME NEW d
        PROVE  Range(<<d>>) = {d} /\ NamesOf(<<d>>) = {d.name} /\ Distinct(<<d>>)
    <2>1. DOMAIN <<d>> = {1} /\ <<d>>[1] = d
      OBVIOUS
    <2>2. Range(<<d>>) = {d}
      BY <2>1 DEF Range
    <2>3. QED
      BY <2>1, <2>2 DEF NamesOf, Distinct
  <1>3. QED
    BY <1>1, <1>2

LEMMA RangeCat ==
  ASSUME NEW S, NEW a \in Seq(S), NEW b \in Seq(S)
  PROVE  /\ Range(a \o b) = Range(a) \cup Range(b)
         /\ NamesOf(a \o b) = NamesOf(a) \cup NamesOf(b)
         /\ Distinct(a) /\ Distinct(b) /\ NamesOf(a) \cap NamesOf(b) = {} => Distinct(a \o b)
  <1> DEFINE c == a \o b
             m == Len(a)
             n == Len(b)
  <1>1. /\ m \in Nat /\ n \in Nat /\ DOMAIN a = 1 .. m /\ DOMAIN b = 1 .. n /\ DOMAIN c = 1 .. m + n
        /\ \A i \in 1 .. m : c[i] = a[i]
        /\ \A i \in 1 .. n : c[m + i] = b[i]
        /\ \A i \in 1 .. m + n : i > m => c[i] = b[i - m]
    OBVIOUS
  <1> HIDE DEF c, m, n
  <1>2. \A i \in 1 .. m + n : i \in 1 .. m \/ (i > m /\ i - m \in 1 .. n)
    BY <1>1
  <1>3. Range(c) = Range(a) \cup Range(b)
    <2>1. ASSUME NEW x \in Range(c)
          PROVE  x \in Range(a) \cup Range(b)
      <3>1. PICK i \in 1 .. m + n : x = c[i]
        BY <1>1 DEF Range
      <3>2. CASE i \in 1 .. m
        BY <1>1, <3>1, <3>2 DEF Range
      <3>3. CASE i > m /\ i - m \in 1 .. n
        BY <1>1, <3>1, <3>3 DEF Range
      <3>4. QED
        BY <1>2, <3>2, <3>3
    <2>2. ASSUME NEW x \in Range(a)
          PROVE  x \in Range(c)
      <3>1. PICK i \in 1 .. m : x = a[i]
        BY <1>1 DEF Range
      <3>2. i \in 1 .. m + n /\ c[i] = x
        BY <1>1, <3>1
      <3>3. QED
        BY <1>1, <3>2 DEF Range
    <2>3. ASSUME NEW x \in Range(b)
          PROVE  x \in Range(c)
      <3>1. PICK i \in 1 .. n : x = b[i]
        BY <1>1 DEF Range
      <3>2. m + i \in 1 .. m + n /\ c[m + i] = x
        BY <1>1, <3>1
      <3>3. QED
        BY <1>1, <3>2 DEF Range
    <2>4. QED
      BY <2>1, <2>2, <2>3
  <1>4. NamesOf(c) = NamesOf(a) \cup NamesOf(b)
    BY <1>3 DEF NamesOf
  <1>5. ASSUME Distinct(a), Distinct(b), NamesOf(a) \cap NamesOf(b) = {},
               NEW i \in 1 .. m + n, NEW j \in 1 .. m + n, c[i].name = c[j].name
        PROVE  i = j
    <2>1. ASSUME NEW k \in 1 .. m + n
          PROVE  /\ k \in 1 .. m => c[k].name \in NamesOf(a)
                 /\ k > m => c[k].name \in NamesOf(b)
      <3>1. k \in 1 .. m => c[k] = a[k] /\ c[k] \in Range(a)
        BY <1>1 DEF Range
      <3>2. ASSUME k > m
            PROVE  c[k] \in Range(b)
        <4>1. k - m \in 1 .. n /\ c[k] = b[k - m]
          BY <1>1, <3>2
        <4>2. QED
          BY <1>1, <4>1 DEF Range
      <3>3. QED
        BY <3>1, <3>2 DEF NamesOf
    <2>2. CASE i \in 1 .. m /\ j \in 1 .. m
      <3>1. a[i].name = a[j].name
        BY <1>1, <1>5, <2>2
      <3>2. QED
        BY <1>1, <1>5, <2>2, <3>1 DEF Distinct
    <2>3. CASE i > m /\ j > m
      <3>1. i - m \in 1 .. n /\ j - m \in 1 .. n
        BY <1>1, <2>3
      <3>2. b[i - m].name = b[j - m].name
        BY <1>1, <1>5, <2>3
      <3>3. i - m = j - m
        BY <1>1, <1>5, <3>1, <3>2 DEF Distinct
      <3>4. QED
        BY <1>1, <3>3
    <2>4. ~(i \in 1 .. m /\ j > m) /\ ~(j \in 1 .. m /\ i > m)
      BY <1>5, <2>1
    <2>5. QED
      BY <1>2, <2>2, <2>3, <2>4
  <1>6. Distinct(a) /\ Distinct(b) /\ NamesOf(a) \cap NamesOf(b) = {} => Distinct(c)
    BY <1>1, <1>5 DEF Distinct
  <1>7. QED
    BY <1>3, <1>4, <1>6 DEF c

\* What the first n of some sequences have in them.
AllOf(D, n) == UNION {Range(D[i]) : i \in 1 .. n}

LEMMA AllOfIs ==
  ASSUME NEW D, NEW n
  PROVE  \A x : x \in AllOf(D, n) <=> \E i \in 1 .. n : x \in Range(D[i])
  BY DEF AllOf

LEMMA AllOfNone ==
  ASSUME NEW D
  PROVE  AllOf(D, 0) = {}
  <1>1. 1 .. 0 = {}
    OBVIOUS
  <1>2. QED
    BY <1>1, AllOfIs

LEMMA AllOfNext ==
  ASSUME NEW D, NEW n \in Nat
  PROVE  AllOf(D, n + 1) = AllOf(D, n) \cup Range(D[n + 1])
  <1>1. 1 .. n + 1 = (1 .. n) \cup {n + 1}
    OBVIOUS
  <1>2. ASSUME NEW x
        PROVE  x \in AllOf(D, n + 1) <=> x \in AllOf(D, n) \/ x \in Range(D[n + 1])
    <2>1. x \in AllOf(D, n + 1) <=> \E i \in 1 .. n + 1 : x \in Range(D[i])
      BY AllOfIs
    <2>2. x \in AllOf(D, n) <=> \E i \in 1 .. n : x \in Range(D[i])
      BY AllOfIs
    <2>3. QED
      BY <1>1, <2>1, <2>2
  <1>3. QED
    BY <1>2

\* What is said one behind the other.
Flattened(texts, D, F, ds, fs) ==
  /\ Says(FlattenSeq(texts), ds, fs)
  /\ Range(ds) = AllOf(D, Len(texts))
  /\ Range(fs) = AllOf(F, Len(texts))
  /\ /\ \A i \in 1 .. Len(texts) : Distinct(D[i])
     /\ \A i, j \in 1 .. Len(texts) : i # j => NamesOf(D[i]) \cap NamesOf(D[j]) = {}
     => Distinct(ds)

LEMMA FlattenSays ==
  ASSUME NEW texts \in Lists, NEW D, NEW F,
         \A i \in 1 .. Len(texts) : Says(texts[i], D[i], F[i])
  PROVE  \E ds, fs : Flattened(texts, D, F, ds, fs)
  <1> DEFINE N == Len(texts)
             Apart == /\ \A i \in 1 .. N : Distinct(D[i])
                      /\ \A i, j \in 1 .. N : i # j => NamesOf(D[i]) \cap NamesOf(D[j]) = {}
  <1>1. N \in Nat
    BY DEF Lists
  <1>2. PICK g : Flattens(Tokens, texts, g)
    <2>1. texts \in Seq(Seq(Tokens))
      BY DEF Lists, Texts
    <2>2. QED
      BY <2>1, FlattenIs
  <1> HIDE DEF N, Apart
  <1>3. /\ g[0] = <<>> /\ g[N] = FlattenSeq(texts)
        /\ \A i \in 1 .. N : g[i] = g[i - 1] \o texts[i]
    BY <1>2 DEF Flattens, N
  <1> DEFINE Good(k, ds, fs) ==
               /\ Says(g[k], ds, fs)
               /\ Range(ds) = AllOf(D, k)
               /\ Range(fs) = AllOf(F, k)
               /\ Apart => Distinct(ds)
             P == [k \in 0 .. N |-> \E ds, fs : Good(k, ds, fs)]
  <1>4. P \in [0 .. N -> BOOLEAN]
    OBVIOUS
  <1>5. P[0]
    <2>1. Says(g[0], <<>>, <<>>)
      BY <1>3, EmptySays
    <2>2. 1 .. 0 = {} /\ 0 \in 0 .. N
      BY <1>1
    <2>3. Good(0, <<>>, <<>>)
      BY <2>1, RangeNone, AllOfNone
    <2> HIDE DEF Good
    <2>4. QED
      BY <2>2, <2>3
  <1>6. ASSUME NEW n \in 0 .. N, n < N, P[n]
        PROVE  P[n + 1]
    <2>0. n \in Nat
      BY <1>1
    <2>1. PICK ds, fs : Good(n, ds, fs)
      BY <1>6
    <2>2. n + 1 \in 1 .. N /\ (n + 1) - 1 = n /\ 1 .. n + 1 = (1 .. n) \cup {n + 1} /\ n + 1 \in 0 .. N
          /\ 1 .. n \subseteq 1 .. N /\ n + 1 \notin 1 .. n
      BY <1>1, <1>6
    <2>3. Says(texts[n + 1], D[n + 1], F[n + 1])
      BY <2>2 DEF N
    <2>4. g[n + 1] = g[n] ++ texts[n + 1]
      BY <1>3, <2>2 DEF ++
    <2>5. Says(g[n + 1], ds \o D[n + 1], fs \o F[n + 1])
      BY <2>1, <2>3, <2>4, SaysBoth
    <2>6. /\ ds \in Seq(Readings) /\ fs \in Seq(Readings)
          /\ D[n + 1] \in Seq(Readings) /\ F[n + 1] \in Seq(Readings)
      BY <2>1, <2>3, SaysTypes
    <2>7. /\ Range(ds \o D[n + 1]) = Range(ds) \cup Range(D[n + 1])
          /\ Range(fs \o F[n + 1]) = Range(fs) \cup Range(F[n + 1])
          /\ Distinct(ds) /\ Distinct(D[n + 1]) /\ NamesOf(ds) \cap NamesOf(D[n + 1]) = {} => Distinct(ds \o D[n + 1])
      BY <2>6, RangeCat
    <2>8. ASSUME Apart
          PROVE  Distinct(ds \o D[n + 1])
      <3>1. Distinct(ds) /\ Distinct(D[n + 1])
        BY <2>1, <2>2, <2>8 DEF Apart
      <3>2. ASSUME NEW x \in NamesOf(ds)
            PROVE  x \notin NamesOf(D[n + 1])
        <4>1. PICK d \in Range(ds) : x = d.name
          BY DEF NamesOf
        <4>2. PICK i \in 1 .. n : d \in Range(D[i])
          BY <2>1, <4>1, AllOfIs
        <4>3. x \in NamesOf(D[i]) /\ i # n + 1
          BY <2>2, <4>1, <4>2 DEF NamesOf
        <4>4. NamesOf(D[i]) \cap NamesOf(D[n + 1]) = {}
          BY <2>2, <2>8, <4>3 DEF Apart
        <4>5. QED
          BY <4>3, <4>4
      <3>3. NamesOf(ds) \cap NamesOf(D[n + 1]) = {}
        BY <3>2
      <3>4. QED
        BY <2>7, <3>1, <3>3
    <2>9. AllOf(D, n + 1) = AllOf(D, n) \cup Range(D[n + 1])
      BY <2>0, AllOfNext
    <2>10. AllOf(F, n + 1) = AllOf(F, n) \cup Range(F[n + 1])
      BY <2>0, AllOfNext
    <2>11. Good(n + 1, ds \o D[n + 1], fs \o F[n + 1])
      BY <2>1, <2>5, <2>7, <2>8, <2>9, <2>10
    <2> HIDE DEF Good
    <2>12. QED
      BY <2>2, <2>11
  <1>7. N \in 0 .. N
    BY <1>1
  <1>8. P[N]
    <2> HIDE DEF P
    <2>1. \A n \in 0 .. N : P[n]
      BY <1>1, <1>4, <1>5, <1>6, UpTo
    <2>2. QED
      BY <1>7, <2>1
  <1>9. PICK ds, fs : Good(N, ds, fs)
    BY <1>7, <1>8
  <1>10. QED
    BY <1>3, <1>9 DEF N, Apart, Flattened

(***************************************************************************)
(* The forwards of the callbacks.                                          *)
(***************************************************************************)
ForwardDecl(c) == [tag |-> None, name |-> c, arguments |-> <<>>, variadic |-> FALSE, implemented_by |-> None]
Forwards == {<<"forward", c, "(", ")", Semicolon, "\n">> : c \in Callbacks}

LEMMA ForwardFits ==
  ASSUME NEW c \in Callbacks
  PROVE  Fits(ForwardDecl(c))
  <1>1. ForwardDecl(c) \in Decl
    BY DEF Decl, Tags, ForwardDecl
  <1>2. SizeIsLast(<<>>, FALSE)
    BY DEF SizeIsLast
  <1>3. QED
    BY <1>1, <1>2 DEF Fits, ForwardDecl

LEMMA ForwardSays ==
  ASSUME NEW c \in Callbacks
  PROVE  Says(<<"forward", c, "(", ")", Semicolon, "\n">>, <<>>, <<Plain(ForwardDecl(c))>>)
  <1> DEFINE d == ForwardDecl(c)
  <1>1. Fits(d) /\ d \in Decl
    BY ForwardFits DEF Fits
  <1>2. /\ d.tag = None /\ d.name = c /\ d.arguments = <<>> /\ d.variadic = FALSE /\ d.implemented_by = None
    BY DEF ForwardDecl
  <1> HIDE DEF d
  <1>3. {"forward", c, "(", ")", Semicolon, "\n"} \subseteq Tokens
    BY NameIs, Marks, Keywords DEF Tokens, Words, Punctuation
  <1>4. /\ One("forward") \in Texts /\ One(c) \in Texts /\ One("(") \in Texts /\ One(")") \in Texts
        /\ One(Semicolon) \in Texts /\ One("\n") \in Texts /\ <<>> \in Texts
    BY <1>3, OneIs, TextsAre
  <1>5. Lead(d) = One(c)
    <2>1. When(d.tag # None, One(d.tag) ++ One(":")) = <<>>
      BY <1>2 DEF When
    <2>2. QED
      BY <1>2, <1>4, <2>1, CatIs DEF Lead
  <1>6. ReadList(d) = <<>>
    <2>1. ReadItems(d) \in Lists /\ Len(ReadItems(d)) = 0
      <3>1. Len(d.arguments) = 0 /\ (IF d.variadic THEN 1 ELSE 0) = 0
        BY <1>2
      <3>2. /\ ReadItems(d) \in Lists
            /\ Len(ReadItems(d)) = Len(d.arguments) + (IF d.variadic THEN 1 ELSE 0)
        BY <1>1, ItemsAre
      <3>3. QED
        BY <3>1, <3>2
    <2>2. PICK g : Joins(ReadItems(d), g)
      BY <2>1, JoinIs
    <2>3. QED
      BY <2>1, <2>2 DEF Joins, ReadList
  <1>7. Trail(d) = <<>>
    <2>1. Closing(d) = <<>> /\ Target(d) = <<>>
      BY <1>2 DEF Closing, Target, Sized, When
    <2>2. QED
      BY <1>4, <2>1, CatIs DEF Trail
  <1>8. Line("forward", d) = One("forward") ++ (One(c) ++ (One("(") ++ (One(")") ++ One(Semicolon))))
    <2>1. Line("forward", d) = DeclarationText("forward", One(c), <<>>, <<>>)
      BY <1>1, <1>5, <1>6, <1>7, LineIs
    <2>2. <<>> ++ One(Semicolon) = One(Semicolon)
      BY <1>4, CatIs
    <2>3. One(")") ++ One(Semicolon) \in Texts
      BY <1>4, CatIs
    <2>4. <<>> ++ (One(")") ++ One(Semicolon)) = One(")") ++ One(Semicolon)
      BY <2>3, CatIs
    <2>5. QED
      BY <2>1, <2>2, <2>4 DEF DeclarationText
  <1>9. Line("forward", d) ++ One("\n") =
          One("forward") ++ (One(c) ++ (One("(") ++ (One(")") ++ (One(Semicolon) ++ One("\n")))))
    <2> DEFINE x == One(")") ++ One(Semicolon)
               y == One("(") ++ x
               z == One(c) ++ y
    <2>1. x \in Texts
      BY <1>4, CatIs
    <2>2. y \in Texts
      <3> HIDE DEF x
      <3>1. QED
        BY <1>4, <2>1, CatIs
    <2>3. z \in Texts
      <3> HIDE DEF y
      <3>1. QED
        BY <1>4, <2>2, CatIs
    <2>4. x ++ One("\n") = One(")") ++ (One(Semicolon) ++ One("\n"))
      BY <1>4, CatRegroups
    <2>5. y ++ One("\n") = One("(") ++ (x ++ One("\n"))
      <3> HIDE DEF x
      <3>1. QED
        BY <1>4, <2>1, CatRegroups
    <2>6. z ++ One("\n") = One(c) ++ (y ++ One("\n"))
      <3> HIDE DEF y
      <3>1. QED
        BY <1>4, <2>2, CatRegroups
    <2>7. (One("forward") ++ z) ++ One("\n") = One("forward") ++ (z ++ One("\n"))
      <3> HIDE DEF z
      <3>1. QED
        BY <1>4, <2>3, CatRegroups
    <2>8. Line("forward", d) = One("forward") ++ z
      BY <1>8
    <2> HIDE DEF x, y, z
    <2>9. QED
      BY <2>4, <2>5, <2>6, <2>7, <2>8
  <1>10. <<"forward", c, "(", ")", Semicolon, "\n">> = Line("forward", d) ++ One("\n")
    <2>1. <<"forward", c, "(", ")", Semicolon, "\n">> =
            One("forward") ++ (One(c) ++ (One("(") ++ (One(")") ++ (One(Semicolon) ++ One("\n")))))
      BY <1>3, Tuple6, SMTT(20)
    <2>2. QED
      BY <1>9, <2>1
  <1>11. Says(Line("forward", d) ++ One("\n"), <<>>, <<Plain(d)>>)
    BY <1>1, LineSays, LineAndEnd
  <1>12. QED
    BY <1>10, <1>11 DEF d

\* The set, in some order.
LEMMA SetToSeqIs ==
  ASSUME NEW S, IsFiniteSet(S)
  PROVE  SetToSeq(S) \in Seq(S) /\ Range(SetToSeq(S)) = S
  <1> DEFINE n == Cardinality(S)
             s == SetToSeq(S)
  <1>1. n \in Nat /\ ExistsBijection(1 .. n, S)
    BY FS_CardinalityType
  <1>2. \E f \in [1 .. n -> S] : IsInjective(f)
    BY <1>1 DEF ExistsBijection, Bijection, Injection
  <1>3. s \in [1 .. n -> S] /\ IsInjective(s)
    BY <1>2 DEF SetToSeq
  <1>4. IsFiniteSet(1 .. n) /\ Cardinality(1 .. n) = n
    BY <1>1, FS_Interval
  <1> HIDE DEF s
  <1>5. s \in Surjection(1 .. n, S)
    <2>1. s \in Injection(1 .. n, S)
      BY <1>3 DEF Injection
    <2>2. QED
      BY <1>4, <2>1, FS_Injection
  <1>6. s \in Seq(S)
    BY <1>1, <1>3
  <1>7. Range(s) = S
    BY <1>3, <1>5 DEF Range, Surjection
  <1>8. QED
    BY <1>6, <1>7 DEF s

LEMMA ForwardsFinite == IsFiniteSet(Forwards)
  <1> DEFINE f == [c \in Callbacks |-> <<"forward", c, "(", ")", Semicolon, "\n">>]
  <1>1. f \in Surjection(Callbacks, Forwards)
    BY DEF Surjection, Forwards
  <1> HIDE DEF f
  <1>2. QED
    BY <1>1, PawnIncludeAssumption, FS_Surjection

LEMMA CallbacksSay ==
  \E fs : /\ Says(FlattenSeq(SetToSeq(Forwards)), <<>>, fs)
          /\ NamesOf(fs) = Callbacks
  <1> DEFINE texts == SetToSeq(Forwards)
             N == Len(texts)
             Of(text) == CHOOSE c \in Callbacks : text = <<"forward", c, "(", ")", Semicolon, "\n">>
             D == [i \in 1 .. N |-> <<>>]
             F == [i \in 1 .. N |-> <<Plain(ForwardDecl(Of(texts[i])))>>]
  <1>1. texts \in Seq(Forwards) /\ Range(texts) = Forwards
    BY ForwardsFinite, SetToSeqIs
  <1>2. ASSUME NEW text \in Forwards
        PROVE  Of(text) \in Callbacks /\ text = <<"forward", Of(text), "(", ")", Semicolon, "\n">>
    BY DEF Forwards
  <1> HIDE DEF Of, texts
  <1>3. ASSUME NEW c \in Callbacks
        PROVE  \E text \in Forwards : Of(text) = c
    <2>1. PICK text \in Forwards : text = <<"forward", c, "(", ")", Semicolon, "\n">>
      BY DEF Forwards
    <2>2. text = <<"forward", Of(text), "(", ")", Semicolon, "\n">>
      BY <1>2
    <2>3. text[2] = c /\ text[2] = Of(text)
      <3>1. <<"forward", c, "(", ")", Semicolon, "\n">>[2] = c
        OBVIOUS
      <3>2. <<"forward", Of(text), "(", ")", Semicolon, "\n">>[2] = Of(text)
        OBVIOUS
      <3>3. QED
        BY <2>1, <2>2, <3>1, <3>2
    <2>4. QED
      BY <2>3
  <1>4. N \in Nat /\ DOMAIN texts = 1 .. N /\ \A i \in 1 .. N : texts[i] \in Forwards
    BY <1>1
  <1>5. ASSUME NEW i \in 1 .. N
        PROVE  Says(texts[i], D[i], F[i])
    <2>1. Says(<<"forward", Of(texts[i]), "(", ")", Semicolon, "\n">>, <<>>, <<Plain(ForwardDecl(Of(texts[i])))>>)
      BY <1>2, <1>4, ForwardSays
    <2>2. QED
      BY <1>2, <1>4, <2>1
  <1>6. texts \in Lists
    <2>1. \A i \in 1 .. N : texts[i] \in Texts
      BY <1>5, SaysTypes
    <2>2. QED
      BY <1>1, <2>1 DEF Lists
  <1>7. PICK ds, fs : /\ Says(FlattenSeq(texts), ds, fs)
                      /\ Range(ds) = AllOf(D, N)
                      /\ Range(fs) = AllOf(F, N)
    <2> HIDE DEF D, F
    <2>1. \E ds, fs : Flattened(texts, D, F, ds, fs)
      <3>1. \A i \in 1 .. Len(texts) : Says(texts[i], D[i], F[i])
        BY <1>5
      <3>2. QED
        BY <1>6, <3>1, FlattenSays
    <2>2. QED
      BY <1>1, <2>1 DEF Flattened
  <1>8. ds = <<>>
    <2>1. Range(ds) = {}
      <3>1. \A i \in 1 .. N : Range(D[i]) = {}
        BY RangeNone
      <3>2. QED
        BY <1>7, <3>1, AllOfIs
    <2>2. ds \in Seq(Readings)
      BY <1>7, SaysTypes
    <2>3. Len(ds) = 0
      <3>1. SUFFICES ASSUME Len(ds) # 0
                     PROVE  FALSE
        OBVIOUS
      <3>2. 1 \in DOMAIN ds
        BY <2>2, <3>1
      <3>3. QED
        BY <2>1, <3>2 DEF Range
    <2>4. QED
      BY <2>2, <2>3, EmptySeq
  <1>9. NamesOf(fs) = Callbacks
    <2>1. \A i \in 1 .. N : Range(F[i]) = {Plain(ForwardDecl(Of(texts[i])))}
      BY RangeNone
    <2>2. \A c : Plain(ForwardDecl(c)).name = c
      BY DEF Plain, ForwardDecl
    <2>3. ASSUME NEW x \in NamesOf(fs)
          PROVE  x \in Callbacks
      <3>1. PICK d \in Range(fs) : x = d.name
        BY DEF NamesOf
      <3>2. PICK i \in 1 .. N : d \in Range(F[i])
        BY <1>7, <3>1, AllOfIs
      <3>3. d = Plain(ForwardDecl(Of(texts[i])))
        BY <2>1, <3>2
      <3>4. QED
        BY <1>2, <1>4, <2>2, <3>1, <3>3
    <2>4. ASSUME NEW c \in Callbacks
          PROVE  c \in NamesOf(fs)
      <3>1. PICK text \in Forwards : Of(text) = c
        BY <1>3
      <3>2. PICK i \in 1 .. N : texts[i] = text
        BY <1>1, <1>4 DEF Range
      <3>3. Plain(ForwardDecl(c)) \in Range(fs)
        <4>1. Plain(ForwardDecl(c)) \in Range(F[i])
          BY <2>1, <3>1, <3>2
        <4>2. QED
          BY <1>7, <4>1, AllOfIs
      <3>4. QED
        BY <2>2, <3>3 DEF NamesOf
    <2>5. QED
      BY <2>3, <2>4
  <1>10. QED
    BY <1>7, <1>8, <1>9 DEF texts

(***************************************************************************)
(* A piece written by hand, and the text of an include without a template. *)
(***************************************************************************)
HandSpoken(piece, kind) == IF piece.kind = kind /\ piece.comment = "none" THEN <<Plain(piece.decl)>> ELSE <<>>

LEMMA HandSays ==
  ASSUME NEW piece \in HandPiece, Fits(piece.decl)
  PROVE  Says(Written(piece) ++ One("\n"), HandSpoken(piece, "native"), HandSpoken(piece, "forward"))
  <1> DEFINE line == Line(piece.kind, piece.decl)
  <1>1. piece.kind \in {"native", "forward"} /\ piece.comment \in {"none", "line", "block"}
    BY DEF HandPiece
  <1>2. line \in Texts /\ ~Contains(line, "\n") /\ ~Contains(line, "*/")
    BY <1>1, LineContains
  <1>3. CASE piece.comment = "none"
    <2>1. Written(piece) = line
      BY <1>3 DEF Written
    <2>2. CASE piece.kind = "native"
      <3>1. Says(line, HandSpoken(piece, "native"), HandSpoken(piece, "forward"))
        BY <1>3, <2>2, LineSays DEF HandSpoken
      <3>2. QED
        BY <2>1, <3>1, LineAndEnd
    <2>3. CASE piece.kind = "forward"
      <3>1. Says(line, HandSpoken(piece, "native"), HandSpoken(piece, "forward"))
        BY <1>3, <2>3, LineSays DEF HandSpoken
      <3>2. QED
        BY <2>1, <3>1, LineAndEnd
    <2>4. QED
      BY <1>1, <2>2, <2>3
  <1>4. CASE piece.comment = "line"
    <2> HIDE DEF line
    <2>1. Written(piece) = One("//") ++ line
      BY <1>4 DEF Written, ++, One, line
    <2>2. One("//") \in Texts /\ One("\n") \in Texts
      BY Marks, OneIs
    <2>3. (One("//") ++ line) ++ One("\n") = One("//") ++ (line ++ One("\n"))
      BY <1>2, <2>2, CatRegroups
    <2>4. HandSpoken(piece, "native") = <<>> /\ HandSpoken(piece, "forward") = <<>>
      BY <1>4 DEF HandSpoken
    <2>5. QED
      BY <1>2, <2>1, <2>3, <2>4, LineCommentSays
  <1>5. CASE piece.comment = "block"
    <2> HIDE DEF line
    <2>1. Written(piece) = (One("/*") ++ line) ++ One("*/")
      BY <1>5 DEF Written, ++, One, line
    <2>2. One("/*") \in Texts /\ One("*/") \in Texts
      BY Marks, OneIs
    <2>3. (One("/*") ++ line) ++ One("*/") = One("/*") ++ (line ++ One("*/"))
      BY <1>2, <2>2, CatRegroups
    <2>4. HandSpoken(piece, "native") = <<>> /\ HandSpoken(piece, "forward") = <<>>
      BY <1>5 DEF HandSpoken
    <2>5. Says(Written(piece), <<>>, <<>>)
      BY <1>2, <2>1, <2>3, BlockCommentSays
    <2>6. QED
      BY <2>4, <2>5, LineAndEnd
  <1>6. QED
    BY <1>1, <1>3, <1>4, <1>5

\* What the pieces and the natives are when the sizes are where they can be read.
Readable ==
  /\ TypeOK
  /\ \A i \in DOMAIN natives : Fits(Derived(natives[i]))
  /\ \A p \in DOMAIN source : source[p] \in HandPiece => Fits(source[p].decl)

LEMMA ReadableIs ==
  ASSUME IInv, SizeEndsList
  PROVE  Readable
  <1>1. TypeOK /\ SizesEndLists
    BY DEF IInv, SizesOK
  <1>2. ASSUME NEW i \in DOMAIN natives
        PROVE  Fits(Derived(natives[i]))
    <2>1. natives[i] \in Native /\ SizeIsLast(natives[i].args, natives[i].varargs)
      BY <1>1 DEF TypeOK, SizesEndLists
    <2>2. QED
      BY <2>1, DerivedIs
  <1>3. ASSUME NEW p \in DOMAIN source, source[p] \in HandPiece
        PROVE  Fits(source[p].decl)
    <2>1. ~IsPlaceholder(source[p])
      BY <1>3, PieceKinds
    <2>2. SizeIsLast(source[p].decl.arguments, source[p].decl.variadic)
      BY <1>1, <2>1 DEF SizesEndLists
    <2>3. source[p].decl \in Decl
      BY <1>3 DEF HandPiece
    <2>4. QED
      BY <2>2, <2>3 DEF Fits
  <1>4. QED
    BY <1>1, <1>2, <1>3 DEF Readable

(***************************************************************************)
(* A template as it is read, from {{ to }}.                                *)
(***************************************************************************)
\* The pieces it can consist of.
PiecesRead ==
  {piece \in HandPiece : Fits(piece.decl)}
    \cup [kind : {"NATIVES", "CALLBACKS", "VAR", "UNCLOSED"}]
    \cup [kind : {"NATIVE"}, name : Names \cup {None}, alias : Texts]
AtPiece(read, open, text) == [read |-> read, open |-> open, text |-> text]
Opens(open) == open = <<>> \/ \E o \in Placeholders : o.kind \in OpenKinds /\ open = <<o>>
WellRead(state) ==
  \E read \in Seq(PiecesRead) : \E open : \E text \in Texts : Opens(open) /\ state = AtPiece(read, open, text)

LEMMA PlaceholderIs ==
  ASSUME NEW piece \in Placeholders
  PROVE  \/ piece \in [kind : {"NATIVES", "CALLBACKS", "VAR", "UNCLOSED"}]
         \/ /\ piece.kind \in {"NATIVE", "UNCLOSED NATIVE"} /\ piece.name \in Names /\ piece.alias \in Aliases
            /\ piece = [kind |-> piece.kind, name |-> piece.name, alias |-> piece.alias]
  BY DEF Placeholders

LEMMA AliasesAre ==
  ASSUME NEW alias \in Aliases
  PROVE  alias \in Texts /\ (alias = <<>> \/ \E n \in Names : alias = One(n))
  <1>1. CASE alias = <<>>
    BY <1>1, TextsAre
  <1>2. CASE \E n \in Names : alias = <<n>>
    <2>1. PICK n \in Names : alias = <<n>>
      BY <1>2
    <2>2. n \in Tokens
      BY DEF Tokens
    <2>3. QED
      BY <2>1, <2>2, OneIs DEF One
  <1>3. QED
    BY <1>1, <1>2 DEF Aliases

LEMMA WrittenIs ==
  ASSUME NEW piece \in HandPiece, Fits(piece.decl)
  PROVE  Written(piece) \in Texts
  <1>1. piece.kind \in {"native", "forward"} /\ piece.comment \in {"none", "line", "block"}
    BY DEF HandPiece
  <1>2. Line(piece.kind, piece.decl) \in Texts
    BY <1>1, LineContains
  <1>3. One("//") \in Texts /\ One("/*") \in Texts /\ One("*/") \in Texts
    BY Marks, OneIs
  <1>4. /\ One("//") ++ Line(piece.kind, piece.decl) \in Texts
        /\ One("/*") ++ Line(piece.kind, piece.decl) \in Texts
    BY <1>2, <1>3, CatIs
  <1>5. (One("/*") ++ Line(piece.kind, piece.decl)) ++ One("*/") \in Texts
    BY <1>3, <1>4, CatIs
  <1>6. QED
    BY <1>1, <1>2, <1>4, <1>5 DEF Written, ++, One

LEMMA FewAre ==
  ASSUME NEW S, NEW a \in S, NEW b \in S, NEW c \in S, NEW d \in S
  PROVE  <<>> \in Seq(S) /\ <<a>> \in Seq(S) /\ <<a, b>> \in Seq(S) /\ <<a, b, c, d>> \in Seq(S)
  OBVIOUS

LEMMA SourceTextIs ==
  ASSUME NEW piece \in HandPiece \cup Placeholders, piece \in HandPiece => Fits(piece.decl)
  PROVE  SourceText(piece) \in Texts
  <1>1. CASE ~IsPlaceholder(piece)
    <2>1. piece \in HandPiece
      BY <1>1, PieceKinds
    <2>2. QED
      BY <1>1, <2>1, WrittenIs DEF SourceText, IsPlaceholder, OpenKinds
  <1>2. CASE IsPlaceholder(piece)
    <2>1. piece \in Placeholders
      BY <1>2, PieceKinds
    <2>2. "{{" \in Tokens /\ "NATIVE" \in Tokens /\ ":" \in Tokens /\ "as" \in Tokens /\ "VAR" \in Tokens
      BY DEF Tokens, Words, Punctuation
    <2>3. CASE piece.kind \in {"NATIVE", "UNCLOSED NATIVE"}
      <3>1. piece.name \in Tokens /\ piece.alias \in Texts
        <4>1. piece.name \in Names /\ piece.alias \in Aliases
          BY <2>1, <2>3, PlaceholderIs
        <4>2. QED
          BY <4>1, AliasesAre DEF Tokens
      <3>2. <<"{{", "NATIVE", ":", piece.name>> \in Texts /\ <<"as">> \in Texts /\ <<>> \in Texts
        <4>1. <<"{{", "NATIVE", ":", piece.name>> \in Seq(Tokens)
          BY <2>2, <3>1, FewAre
        <4>2. <<"as">> \in Seq(Tokens) /\ <<>> \in Seq(Tokens)
          BY <2>2, FewAre
        <4>3. QED
          BY <4>1, <4>2 DEF Texts
      <3>3. <<"as">> \o piece.alias \in Texts
        BY <3>1, <3>2, CatIs DEF ++
      <3>4. When(piece.alias # <<>>, <<"as">> \o piece.alias) \in Texts
        BY <3>2, <3>3 DEF When
      <3>5. <<"{{", "NATIVE", ":", piece.name>> \o When(piece.alias # <<>>, <<"as">> \o piece.alias) \in Texts
        BY <3>2, <3>4, CatIs DEF ++
      <3>6. QED
        BY <1>2, <2>3, <3>5 DEF SourceText
    <2>4. CASE piece.kind \notin {"NATIVE", "UNCLOSED NATIVE"}
      <3>1. <<"{{", "VAR">> \in Texts
        BY <2>2, FewAre DEF Texts
      <3>2. QED
        BY <1>2, <2>4, <3>1 DEF SourceText
    <2>5. QED
      BY <2>3, <2>4
  <1>3. QED
    BY <1>1, <1>2

LEMMA ClosedIs ==
  ASSUME NEW opener \in Placeholders, opener.kind \in OpenKinds, NEW text \in Texts
  PROVE  Closed(opener, text) \in PiecesRead
  <1>1. CASE opener.kind = "UNCLOSED"
    BY <1>1 DEF Closed, PiecesRead
  <1>2. CASE opener.kind = "UNCLOSED NATIVE"
    <2>1. opener.name \in Names /\ opener.alias \in Texts
      BY <1>2, PlaceholderIs, AliasesAre
    <2>2. <<>> \in Texts /\ One("\n") \in Texts
      BY TextsAre, Marks, OneIs
    <2>3. opener.alias ++ One("\n") \in Texts
      BY <2>1, <2>2, CatIs
    <2>4. (opener.alias ++ One("\n")) ++ text \in Texts
      BY <2>3, CatIs
    <2>5. opener.alias \o <<"\n">> \o text \in Texts
      BY <2>4 DEF ++, One
    <2>6. CASE opener.alias = <<>>
      BY <1>2, <2>2, <2>6 DEF Closed, PiecesRead
    <2>7. CASE opener.alias # <<>>
      BY <1>2, <2>1, <2>5, <2>7 DEF Closed, PiecesRead
    <2>8. QED
      BY <2>6, <2>7
  <1>3. QED
    BY <1>1, <1>2 DEF OpenKinds

LEMMA KeptIs ==
  ASSUME NEW piece \in HandPiece \cup Placeholders, piece \in HandPiece => Fits(piece.decl),
         piece.kind \notin OpenKinds
  PROVE  piece \in PiecesRead
  <1>1. CASE piece \in HandPiece
    BY <1>1 DEF PiecesRead
  <1>2. CASE piece \in Placeholders
    <2>1. CASE piece \in [kind : {"NATIVES", "CALLBACKS", "VAR", "UNCLOSED"}]
      BY <2>1 DEF PiecesRead
    <2>2. CASE piece \notin [kind : {"NATIVES", "CALLBACKS", "VAR", "UNCLOSED"}]
      <3>1. /\ piece.kind \in {"NATIVE", "UNCLOSED NATIVE"} /\ piece.name \in Names /\ piece.alias \in Aliases
            /\ piece = [kind |-> piece.kind, name |-> piece.name, alias |-> piece.alias]
        BY <1>2, <2>2, PlaceholderIs
      <3>2. piece.kind = "NATIVE" /\ piece.alias \in Texts
        BY <3>1, AliasesAre DEF OpenKinds
      <3>3. QED
        BY <3>1, <3>2 DEF PiecesRead
    <2>3. QED
      BY <2>1, <2>2
  <1>3. QED
    BY <1>1, <1>2

\* A piece further.
LEMMA ReadTakes ==
  ASSUME NEW read, NEW open, NEW text, NEW piece, NEW state, state = AtPiece(read, open, text),
         open = <<>>, piece.kind \notin OpenKinds
  PROVE  ReadPiece(state, piece) = AtPiece(Append(read, piece), open, text)
  BY DEF ReadPiece, AtPiece

LEMMA ReadOpens ==
  ASSUME NEW read, NEW open, NEW text, NEW piece, NEW state, state = AtPiece(read, open, text),
         open = <<>>, piece.kind \in OpenKinds
  PROVE  ReadPiece(state, piece) = AtPiece(read, <<piece>>, text)
  BY DEF ReadPiece, AtPiece

LEMMA ReadInside ==
  ASSUME NEW read, NEW open, NEW text, NEW piece, NEW state, NEW more,
         state = AtPiece(read, open, text), more = text \o SourceText(piece),
         open # <<>>, ~IsPlaceholder(piece) \/ piece.kind \in OpenKinds
  PROVE  ReadPiece(state, piece) = AtPiece(read, open, Append(more, "\n"))
  <1>1. state.open = open /\ state.text = text
    BY DEF AtPiece
  <1>2. ReadPiece(state, piece) = [state EXCEPT !.text = Append(more, "\n")]
    BY <1>1 DEF ReadPiece
  <1>3. QED
    BY <1>2 DEF AtPiece

LEMMA ReadPieceIs ==
  ASSUME NEW piece \in HandPiece \cup Placeholders, piece \in HandPiece => Fits(piece.decl),
         NEW state, WellRead(state)
  PROVE  WellRead(ReadPiece(state, piece))
  <1>1. PICK read, open, text : /\ read \in Seq(PiecesRead) /\ text \in Texts
                                /\ Opens(open) /\ state = AtPiece(read, open, text)
    BY DEF WellRead
  <1>0. PICK more : more = text \o SourceText(piece)
    OBVIOUS
  <1>2. more \in Texts /\ Append(more, "\n") \in Texts
    <2>1. more \in Texts
      BY <1>0, <1>1, SourceTextIs, CatIs DEF ++
    <2>2. "\n" \in Tokens
      BY Marks
    <2>3. QED
      BY <2>1, <2>2 DEF Texts
  <1>3. CASE open = <<>> /\ piece.kind \notin OpenKinds
    <2>1. ReadPiece(state, piece) = AtPiece(Append(read, piece), open, text)
      BY <1>0, <1>1, <1>3, ReadTakes
    <2>2. Append(read, piece) \in Seq(PiecesRead)
      BY <1>1, <1>3, KeptIs
    <2>3. QED
      BY <1>1, <2>1, <2>2 DEF WellRead
  <1>4. CASE open = <<>> /\ piece.kind \in OpenKinds
    <2>1. ReadPiece(state, piece) = AtPiece(read, <<piece>>, text)
      BY <1>0, <1>1, <1>4, ReadOpens
    <2>2. piece \in Placeholders
      BY <1>4, PieceKinds DEF IsPlaceholder
    <2>3. Opens(<<piece>>)
      BY <1>4, <2>2 DEF Opens
    <2>4. QED
      BY <1>1, <2>1, <2>3 DEF WellRead
  <1>5. CASE open # <<>> /\ (~IsPlaceholder(piece) \/ piece.kind \in OpenKinds)
    <2>1. ReadPiece(state, piece) = AtPiece(read, open, Append(more, "\n"))
      BY <1>0, <1>1, <1>5, ReadInside
    <2>2. QED
      BY <1>1, <1>2, <2>1 DEF WellRead
  <1>6. CASE open # <<>> /\ ~(~IsPlaceholder(piece) \/ piece.kind \in OpenKinds)
    <2>1. ReadPiece(state, piece) = AtPiece(Append(read, Closed(open[1], more)), <<>>, <<>>)
      <3>1. state = AtPiece(read, open, text) /\ more = text \o SourceText(piece)
        BY <1>0, <1>1
      <3>2. open # <<>> /\ IsPlaceholder(piece) /\ piece.kind \notin OpenKinds
        BY <1>6
      <3>3. QED
        BY <3>1, <3>2 DEF ReadPiece, AtPiece
    <2>2. PICK o \in Placeholders : o.kind \in OpenKinds /\ open = <<o>>
      BY <1>1, <1>6 DEF Opens
    <2>3. Closed(open[1], more) \in PiecesRead
      BY <1>2, <2>2, ClosedIs
    <2> DEFINE closed == Closed(open[1], more)
    <2> HIDE DEF closed
    <2>4. Append(read, closed) \in Seq(PiecesRead)
      BY <1>1, <2>3 DEF closed
    <2>5. <<>> \in Texts /\ Opens(<<>>)
      BY TextsAre DEF Opens
    <2>6. QED
      BY <2>1, <2>4, <2>5 DEF WellRead, closed
  <1>7. QED
    BY <1>3, <1>4, <1>5, <1>6

\* A template, piece by piece.
LEMMA ReadSteps ==
  ASSUME NEW N \in Nat, Len(source) = N
  PROVE  \E g : /\ g[0] = AtPiece(<<>>, <<>>, <<>>)
                /\ \A p \in 1 .. N : g[p] = ReadPiece(g[p - 1], source[p])
                /\ Read = g[N].read \o When(g[N].open # <<>>, <<[kind |-> "UNCLOSED"]>>)
  <1> DEFINE start == [read |-> <<>>, open |-> <<>>, text |-> <<>>]
             Solves(f, k) == f = [p \in 0 .. k |-> IF p = 0 THEN start ELSE ReadPiece(f[p - 1], source[p])]
             P == [k \in 0 .. N |-> \E f : Solves(f, k)]
  <1>0. start = AtPiece(<<>>, <<>>, <<>>)
    BY DEF AtPiece
  <1> HIDE DEF start
  <1>1. P \in [0 .. N -> BOOLEAN] /\ 0 \in 0 .. N /\ N \in 0 .. N
    OBVIOUS
  <1>2. P[0]
    <2> DEFINE f == [p \in 0 .. 0 |-> start]
    <2>1. Solves(f, 0)
      OBVIOUS
    <2> HIDE DEF Solves
    <2>2. P[0] = \E h : Solves(h, 0)
      BY <1>1
    <2>3. QED
      BY <2>1, <2>2
  <1>3. ASSUME NEW k \in 0 .. N, k < N, P[k]
        PROVE  P[k + 1]
    <2>1. PICK f : Solves(f, k)
      BY <1>3
    <2>2. \A p \in 0 .. k : f[p] = IF p = 0 THEN start ELSE ReadPiece(f[p - 1], source[p])
      <3>1. f = [p \in 0 .. k |-> IF p = 0 THEN start ELSE ReadPiece(f[p - 1], source[p])]
        BY <2>1
      <3>2. QED
        BY <3>1, Zenon
    <2> DEFINE h == [p \in 0 .. k + 1 |-> IF p = k + 1 THEN ReadPiece(f[k], source[k + 1]) ELSE f[p]]
    <2>3. ASSUME NEW p \in 0 .. k + 1
          PROVE  h[p] = IF p = 0 THEN start ELSE ReadPiece(h[p - 1], source[p])
      <3>1. CASE p = 0
        <4>1. 0 \in 0 .. k /\ 0 # k + 1
          OBVIOUS
        <4>2. h[0] = f[0] /\ f[0] = start
          BY <2>2, <4>1, <3>1
        <4>3. QED
          BY <3>1, <4>2
      <3>2. CASE p = k + 1
        <4>1. k \in 0 .. k + 1 /\ k # k + 1 /\ (k + 1) - 1 = k /\ k + 1 # 0
          OBVIOUS
        <4>2. h[k] = f[k] /\ h[k + 1] = ReadPiece(f[k], source[k + 1])
          BY <3>2, <4>1
        <4>3. QED
          BY <3>2, <4>1, <4>2
      <3>3. CASE p # 0 /\ p # k + 1
        <4>1. p \in 0 .. k /\ p - 1 \in 0 .. k + 1 /\ p - 1 # k + 1
          BY <3>3
        <4>2. h[p] = f[p] /\ h[p - 1] = f[p - 1]
          BY <3>3, <4>1
        <4>3. QED
          BY <2>2, <3>3, <4>1, <4>2
      <3>4. QED
        BY <3>1, <3>2, <3>3
    <2>4. h = [p \in 0 .. k + 1 |-> h[p]]
      OBVIOUS
    <2> HIDE DEF h
    <2>5. Solves(h, k + 1)
      BY <2>3, <2>4
    <2>6. k + 1 \in 0 .. N
      BY <1>3
    <2> HIDE DEF Solves
    <2>7. P[k + 1] = \E x : Solves(x, k + 1)
      BY <2>6
    <2>8. QED
      BY <2>5, <2>7
  <1>4. P[N]
    <2> HIDE DEF P
    <2>1. \A k \in 0 .. N : P[k]
      BY <1>1, <1>2, <1>3, UpTo
    <2>2. QED
      BY <1>1, <2>1
  <1> DEFINE g == CHOOSE f : Solves(f, N)
  <1>5. Solves(g, N)
    <2> HIDE DEF Solves
    <2>1. \E f : Solves(f, N)
      BY <1>1, <1>4
    <2>2. QED
      BY <2>1
  <1>6. Read = g[N].read \o When(g[N].open # <<>>, <<[kind |-> "UNCLOSED"]>>)
    BY DEF Read, AsRead, start
  <1> HIDE DEF g
  <1>7. ASSUME NEW p \in 0 .. N
        PROVE  g[p] = IF p = 0 THEN start ELSE ReadPiece(g[p - 1], source[p])
    <2>1. g = [q \in 0 .. N |-> IF q = 0 THEN start ELSE ReadPiece(g[q - 1], source[q])]
      BY <1>5
    <2>2. QED
      BY <2>1, Zenon
  <1>8. g[0] = start /\ \A p \in 1 .. N : g[p] = ReadPiece(g[p - 1], source[p])
    <2>1. g[0] = start
      BY <1>1, <1>7
    <2>2. ASSUME NEW p \in 1 .. N
          PROVE  g[p] = ReadPiece(g[p - 1], source[p])
      <3>1. p \in 0 .. N /\ p # 0
        OBVIOUS
      <3>2. QED
        BY <1>7, <3>1
    <2>3. QED
      BY <2>1, <2>2
  <1>9. QED
    BY <1>0, <1>6, <1>8

LEMMA ReadTypes ==
  ASSUME Readable
  PROVE  Read \in Seq(PiecesRead)
  <1> DEFINE N == Len(source)
  <1>1. /\ N \in Nat
        /\ \A p \in 1 .. N : /\ source[p] \in HandPiece \cup Placeholders
                             /\ source[p] \in HandPiece => Fits(source[p].decl)
    BY DEF Readable, TypeOK
  <1>2. PICK g : /\ g[0] = AtPiece(<<>>, <<>>, <<>>)
                 /\ \A p \in 1 .. N : g[p] = ReadPiece(g[p - 1], source[p])
                 /\ Read = g[N].read \o When(g[N].open # <<>>, <<[kind |-> "UNCLOSED"]>>)
    BY <1>1, ReadSteps
  <1> HIDE DEF N
  <1> DEFINE P == [k \in 0 .. N |-> WellRead(g[k])]
  <1>3. P \in [0 .. N -> BOOLEAN] /\ 0 \in 0 .. N /\ N \in 0 .. N
    BY <1>1 DEF WellRead
  <1>4. P[0]
    <2>1. <<>> \in Texts /\ Opens(<<>>) /\ <<>> \in Seq(PiecesRead)
      BY TextsAre DEF Opens
    <2>2. WellRead(g[0])
      BY <1>2, <2>1 DEF WellRead
    <2>3. QED
      BY <1>3, <2>2
  <1>5. ASSUME NEW k \in 0 .. N, k < N, P[k]
        PROVE  P[k + 1]
    <2>1. k + 1 \in 1 .. N /\ (k + 1) - 1 = k /\ k + 1 \in 0 .. N
      BY <1>1, <1>5
    <2>2. g[k + 1] = ReadPiece(g[k], source[k + 1])
      BY <1>2, <2>1
    <2>3. WellRead(g[k])
      BY <1>5
    <2>4. WellRead(g[k + 1])
      BY <1>1, <2>1, <2>2, <2>3, ReadPieceIs
    <2>5. QED
      BY <2>1, <2>4
  <1>6. WellRead(g[N])
    <2>1. P[N]
      <3> HIDE DEF P
      <3>1. \A k \in 0 .. N : P[k]
        BY <1>1, <1>3, <1>4, <1>5, UpTo
      <3>2. QED
        BY <1>3, <3>1
    <2>2. QED
      BY <1>3, <2>1
  <1>7. g[N].read \in Seq(PiecesRead)
    BY <1>6 DEF WellRead, AtPiece
  <1>8. When(g[N].open # <<>>, <<[kind |-> "UNCLOSED"]>>) \in Seq(PiecesRead)
    <2>1. [kind |-> "UNCLOSED"] \in PiecesRead
      BY DEF PiecesRead
    <2>2. QED
      BY <2>1 DEF When
  <1>9. QED
    BY <1>2, <1>7, <1>8

\* A file kept by hand is read as it is.
LEMMA HandReadIs ==
  ASSUME Readable, ~IsTemplate(source)
  PROVE  Read = source
  <1> DEFINE N == Len(source)
             S == HandPiece \cup Placeholders
  <1>1. N \in Nat /\ source \in Seq(S)
    BY DEF Readable, TypeOK
  <1>2. \A p \in 1 .. N : ~IsPlaceholder(source[p])
    BY DEF IsTemplate, Readable, TypeOK
  <1>3. PICK g : /\ g[0] = AtPiece(<<>>, <<>>, <<>>)
                 /\ \A p \in 1 .. N : g[p] = ReadPiece(g[p - 1], source[p])
                 /\ Read = g[N].read \o When(g[N].open # <<>>, <<[kind |-> "UNCLOSED"]>>)
    BY <1>1, ReadSteps
  <1> DEFINE P == [k \in 0 .. N |-> g[k] = AtPiece(SubSeq(source, 1, k), <<>>, <<>>)]
  <1> HIDE DEF S
  <1>4. P \in [0 .. N -> BOOLEAN] /\ 0 \in 0 .. N /\ N \in 0 .. N
    BY <1>1
  <1>5. P[0]
    <2>1. SubSeq(source, 1, 0) = <<>>
      BY <1>1
    <2>2. QED
      BY <1>3, <1>4, <2>1
  <1>6. ASSUME NEW k \in 0 .. N, k < N, P[k]
        PROVE  P[k + 1]
    <2>1. k + 1 \in 1 .. N /\ (k + 1) - 1 = k /\ k + 1 \in 0 .. N
      BY <1>1, <1>6
    <2>2. g[k + 1] = ReadPiece(g[k], source[k + 1])
      BY <1>3, <2>1
    <2>3. source[k + 1].kind \notin OpenKinds
      BY <1>2, <2>1 DEF IsPlaceholder
    <2>4. g[k] = AtPiece(SubSeq(source, 1, k), <<>>, <<>>)
      BY <1>6
    <2>5. Append(SubSeq(source, 1, k), source[k + 1]) = SubSeq(source, 1, k + 1)
      BY <1>1, <2>1
    <2> DEFINE before == SubSeq(source, 1, k)
    <2> HIDE DEF before
    <2>6. ReadPiece(g[k], source[k + 1]) = AtPiece(Append(before, source[k + 1]), <<>>, <<>>)
      <3>1. PICK state : state = AtPiece(before, <<>>, <<>>)
        OBVIOUS
      <3>2. ReadPiece(state, source[k + 1]) = AtPiece(Append(before, source[k + 1]), <<>>, <<>>)
        BY <2>3, <3>1, ReadTakes
      <3>3. QED
        BY <2>4, <3>1, <3>2 DEF before
    <2>7. g[k + 1] = AtPiece(SubSeq(source, 1, k + 1), <<>>, <<>>)
      BY <2>2, <2>5, <2>6 DEF before
    <2>8. QED
      BY <2>1, <2>7
  <1>7. g[N] = AtPiece(SubSeq(source, 1, N), <<>>, <<>>)
    <2>1. P[N]
      <3> HIDE DEF P, N
      <3>1. \A k \in 0 .. N : P[k]
        BY <1>1, <1>4, <1>5, <1>6, UpTo
      <3>2. QED
        BY <1>4, <3>1
    <2>2. QED
      BY <1>4, <2>1
  <1>8. SubSeq(source, 1, N) = source
    BY <1>1
  <1>9. g[N].read = source /\ g[N].open = <<>>
    BY <1>7, <1>8 DEF AtPiece
  <1>10. QED
    BY <1>1, <1>3, <1>9 DEF When

NativeNames == {n.name : n \in Range(natives)}

\* Nothing that is read tells what a declaration does not say: sizes are where they
\* can be, and every alias of a native ends.
Legible == Readable /\ ~AliasRunsOn
PieceRead(piece) ==
  \/ piece \in HandPiece /\ Fits(piece.decl)
  \/ piece.kind \in {"NATIVES", "CALLBACKS", "VAR", "UNCLOSED"}
  \/ /\ piece.kind = "NATIVE" /\ piece.name \in Names \cup {None}
     /\ piece.name \in NativeNames => piece.alias = <<>> \/ \E n \in Names : piece.alias = One(n)

LEMMA ReadIs ==
  ASSUME Legible
  PROVE  /\ Len(Read) \in Nat /\ DOMAIN Read = 1 .. Len(Read) /\ Read \in Seq(PiecesRead)
         /\ \A p \in DOMAIN Read : PieceRead(Read[p])
  <1>1. Read \in Seq(PiecesRead)
    BY ReadTypes DEF Legible
  <1>2. ASSUME NEW p \in DOMAIN Read
        PROVE  PieceRead(Read[p])
    <2>1. Read[p] \in PiecesRead
      BY <1>1
    <2> DEFINE piece == Read[p]
    <2>2. piece.kind = "NATIVE" /\ piece.name \in NativeNames => piece.alias \in Aliases
      BY DEF Legible, AliasRunsOn, NativeNames
    <2> HIDE DEF piece
    <2>3. CASE piece \in HandPiece /\ Fits(piece.decl)
      BY <2>3 DEF PieceRead, piece
    <2>4. CASE piece \in [kind : {"NATIVES", "CALLBACKS", "VAR", "UNCLOSED"}]
      BY <2>4 DEF PieceRead, piece
    <2>5. CASE piece \in [kind : {"NATIVE"}, name : Names \cup {None}, alias : Texts]
      <3>1. piece.kind = "NATIVE" /\ piece.name \in Names \cup {None}
        BY <2>5
      <3>2. piece.name \in NativeNames => piece.alias = <<>> \/ \E n \in Names : piece.alias = One(n)
        BY <2>2, <3>1, AliasesAre
      <3>3. QED
        BY <3>1, <3>2 DEF PieceRead, piece
    <2>6. QED
      BY <2>1, <2>3, <2>4, <2>5 DEF PiecesRead, piece
  <1>3. QED
    BY <1>1, <1>2

(***************************************************************************)
(* Rendering a template.                                                   *)
(***************************************************************************)
\* The least of some places.
LEMMA LeastIs ==
  ASSUME NEW n \in Nat, NEW I \in SUBSET (1 .. n), I # {}
  PROVE  Min(I) \in I /\ \A j \in I : Min(I) <= j
  <1>1. I \in SUBSET Nat
    OBVIOUS
  <1>2. \E i \in I : \A j \in I : i <= j
    BY <1>1, LeastNumber
  <1>3. QED
    BY <1>2 DEF Min

LEMMA WithNameIs ==
  ASSUME NEW records, Len(records) \in Nat, NEW name
  PROVE  /\ WithName(records, name) \in 0 .. Len(records)
         /\ WithName(records, name) # 0 => records[WithName(records, name)].name = name
         /\ WithName(records, name) = 0 => \A i \in 1 .. Len(records) : records[i].name # name
  <1> DEFINE I == {i \in 1 .. Len(records) : records[i].name = name}
  <1>1. WithName(records, name) = IF I # {} THEN Min(I) ELSE 0
    BY DEF WithName, SelectInSeq
  <1>2. I \in SUBSET (1 .. Len(records))
    OBVIOUS
  <1>3. CASE I = {}
    BY <1>1, <1>3
  <1>4. CASE I # {}
    <2>1. WithName(records, name) \in I
      <3> HIDE DEF I
      <3>1. QED
        BY <1>1, <1>2, <1>4, LeastIs
    <2>2. QED
      BY <2>1
  <1>5. QED
    BY <1>3, <1>4

\* What the first k pieces place, name and collect, and what piece p puts in.
Collected(k) == \E p \in 1 .. k : Read[p].kind = "NATIVES"
NamedBy(k) == {Read[p].name : p \in {q \in 1 .. k : Read[q].kind = "NATIVE"}}
PlacedBy(k) == {i \in DOMAIN natives : Collected(k) \/ natives[i].name \in NamedBy(k)}
PutBy(p) == IF IsPlaceholder(Read[p]) THEN {d.name : d \in DeclaredBy(p)} ELSE {}
EmittedBy(k) == {n \in Names : \E p \in 1 .. k : n \in PutBy(p)}
ForwardsOf(p) == IF Read[p].kind = "CALLBACKS" THEN Callbacks
                 ELSE IF Read[p].kind = "forward" /\ Read[p].comment = "none" THEN {Read[p].decl.name}
                 ELSE {}
ErrorOf(p) ==
  OneIf(Read[p].kind = "UNCLOSED", Error("UnclosedPlaceholder", None))
    \cup OneIf(Read[p].kind = "VAR", Error("UnknownPlaceholder", None))
    \cup OneIf(Read[p].kind = "NATIVE" /\ Read[p].name \notin NativeNames, Error("UnknownNative", Read[p].name))
\* The names that are declared again.
Twice(ds, emitted) == {Error("PlacedTwice", n) : n \in NamesOf(ds) \cap emitted}
Chunk(text, places, problems) == [text |-> text, places |-> places, errors |-> problems]
Open(out, placed, emitted, errors) ==
  [out |-> out, placed |-> placed, emitted |-> emitted, errors |-> errors]

LEMMA PrefixIs ==
  ASSUME NEW S, Read \in Seq(S), NEW k \in 0 .. Len(Read)
  PROVE  LET prefix == SubSeq(Read, 1, k)
         IN /\ DOMAIN prefix = 1 .. k /\ \A p \in 1 .. k : prefix[p] = Read[p]
            /\ Collects(prefix) <=> Collected(k)
            /\ Named(prefix) = NamedBy(k)
  <1> DEFINE prefix == SubSeq(Read, 1, k)
  <1>1. DOMAIN prefix = 1 .. k /\ \A p \in 1 .. k : prefix[p] = Read[p]
    OBVIOUS
  <1> HIDE DEF prefix
  <1>2. Collects(prefix) <=> Collected(k)
    BY <1>1 DEF Collects, Collected
  <1>3. Named(prefix) = NamedBy(k)
    BY <1>1 DEF Named, NamedBy
  <1>4. QED
    BY <1>1, <1>2, <1>3 DEF prefix

\* A text that replaces a placeholder.
LEMMA ExpandIs ==
  ASSUME NEW out, NEW placed, NEW emitted, NEW errors, NEW text, NEW places, NEW problems,
         NEW ds \in Seq(Readings), parse(text) = ds, Distinct(ds)
  PROVE  Expand(Open(out, placed, emitted, errors), Chunk(text, places, problems)) =
           Open(out \o text \o <<"\n">>, placed \cup places, emitted \cup NamesOf(ds),
                 errors \cup problems \cup Twice(ds, emitted))
  <1> DEFINE names == NamesIn(ds)
             twice == {i \in DOMAIN names : names[i] \in emitted \/ \E k \in 1 .. i - 1 : names[k] = names[i]}
             all == {Error("PlacedTwice", names[i]) : i \in twice}
  <1>1. /\ Len(ds) \in Nat /\ DOMAIN ds = 1 .. Len(ds) /\ DOMAIN names = DOMAIN ds
        /\ \A i \in DOMAIN ds : names[i] = ds[i].name
    BY DEF NamesIn
  <1> HIDE DEF names
  <1>2. Range(names) = NamesOf(ds)
    BY <1>1 DEF Range, NamesOf
  <1>3. ASSUME NEW i \in DOMAIN ds
        PROVE  ~\E k \in 1 .. i - 1 : names[k] = names[i]
    <2>1. ASSUME NEW k \in 1 .. i - 1, names[k] = names[i]
          PROVE  FALSE
      <3>1. k \in DOMAIN ds /\ k # i
        BY <1>1
      <3>2. ds[k].name = ds[i].name
        BY <1>1, <2>1, <3>1
      <3>3. QED
        BY <3>1, <3>2 DEF Distinct
    <2>2. QED
      BY <2>1
  <1>4. twice = {i \in DOMAIN names : names[i] \in emitted}
    BY <1>1, <1>3
  <1>5. all = Twice(ds, emitted)
    <2> HIDE DEF twice
    <2>1. ASSUME NEW i \in twice
          PROVE  names[i] \in NamesOf(ds) \cap emitted
      BY <1>2, <1>4 DEF Range
    <2>2. ASSUME NEW n \in NamesOf(ds) \cap emitted
          PROVE  \E i \in twice : names[i] = n
      BY <1>2, <1>4 DEF Range
    <2>3. QED
      BY <2>1, <2>2 DEF Twice
  <1> DEFINE state == Open(out, placed, emitted, errors)
             e == Chunk(text, places, problems)
  <1>6. NamesIn(parse(e.text)) = names
    BY DEF names, Chunk
  <1>7. state.emitted = emitted
    BY DEF Open
  <1>8. Expand(state, e) = [state EXCEPT !.out = @ \o e.text \o <<"\n">>,
                                         !.placed = @ \cup e.places,
                                         !.emitted = @ \cup Range(names),
                                         !.errors = @ \cup e.errors \cup all]
    BY <1>6, <1>7 DEF Expand, Expanded
  <1> HIDE DEF all
  <1>9. QED
    BY <1>2, <1>5, <1>8 DEF Open, Chunk

\* The natives nobody has placed.
LEMMA NativesSay ==
  ASSUME Readable, NEW rest \in SUBSET DOMAIN natives
  PROVE  \E ds : /\ Says(FlattenSeq([i \in DOMAIN natives |-> When(i \in rest, Append(native_decls[i], "\n"))]), ds, <<>>)
                 /\ \A x : x \in Range(ds) <=> \E i \in rest : ~natives[i].raw /\ x = Plain(Derived(natives[i]))
                 /\ Distinct(ds)
  <1> DEFINE N == Len(natives)
             texts == [i \in DOMAIN natives |-> When(i \in rest, Append(native_decls[i], "\n"))]
             D == [i \in DOMAIN natives |-> IF i \in rest THEN Spoken(natives[i]) ELSE <<>>]
             F == [i \in DOMAIN natives |-> <<>>]
  <1>1. /\ N \in Nat /\ DOMAIN natives = 1 .. N
        /\ \A i \in 1 .. N : natives[i] \in Native /\ Fits(Derived(natives[i])) /\ native_decls[i] = native_decl(natives[i])
    BY DEF Readable, TypeOK, native_decls
  <1>2. ASSUME NEW i \in 1 .. N
        PROVE  /\ Says(texts[i], D[i], F[i]) /\ Distinct(D[i])
               /\ \A x : x \in Range(D[i]) <=> i \in rest /\ ~natives[i].raw /\ x = Plain(Derived(natives[i]))
               /\ \A x : x \in NamesOf(D[i]) => x = natives[i].name
    <2>1. F[i] = <<>>
      BY <1>1
    <2>2. CASE i \notin rest
      <3>1. texts[i] = <<>> /\ D[i] = <<>>
        BY <1>1, <2>2 DEF When
      <3> HIDE DEF texts, D, F
      <3>2. QED
        BY <2>1, <2>2, <3>1, EmptySays, RangeNone
    <2>3. CASE i \in rest
      <3>1. texts[i] = native_decl(natives[i]) ++ One("\n")
        <4>1. texts[i] = Append(native_decl(natives[i]), "\n")
          BY <1>1, <2>3 DEF When
        <4>2. native_decl(natives[i]) \in Seq(Tokens)
          BY <1>1, NativeSays DEF Texts
        <4>3. Append(native_decl(natives[i]), "\n") = native_decl(natives[i]) \o <<"\n">>
          BY <4>2
        <4>4. QED
          BY <4>1, <4>3 DEF ++, One
      <3>2. D[i] = Spoken(natives[i])
        BY <1>1, <2>3
      <3> HIDE DEF texts, D, F
      <3>3. Says(texts[i], D[i], F[i])
        BY <1>1, <2>1, <3>1, <3>2, NativeSays
      <3>4. CASE natives[i].raw
        BY <2>3, <3>2, <3>3, <3>4, RangeNone DEF Spoken
      <3>5. CASE ~natives[i].raw
        <4>1. D[i] = <<Plain(Derived(natives[i]))>>
          BY <3>2, <3>5 DEF Spoken
        <4>2. Plain(Derived(natives[i])).name = natives[i].name
          BY <1>1, DerivedIs DEF Plain
        <4>3. QED
          BY <2>3, <3>3, <3>5, <4>1, <4>2, RangeNone
      <3>6. QED
        BY <3>4, <3>5
    <2>4. QED
      BY <2>2, <2>3
  <1>3. texts \in Lists /\ Len(texts) = N
    <2>1. texts = [i \in 1 .. N |-> texts[i]]
      BY <1>1
    <2>2. \A i \in 1 .. N : texts[i] \in Texts
      BY <1>2, SaysTypes
    <2> HIDE DEF texts
    <2>3. QED
      BY <1>1, <2>1, <2>2 DEF Lists
  <1>4. ASSUME NEW i \in 1 .. N, NEW j \in 1 .. N, i # j
        PROVE  NamesOf(D[i]) \cap NamesOf(D[j]) = {}
    <2>1. natives[i].name # natives[j].name
      BY <1>1, <1>4 DEF Readable, TypeOK
    <2> HIDE DEF D
    <2>2. QED
      BY <1>2, <2>1
  <1> HIDE DEF texts, D
  <1>5. \E ds, fs : Flattened(texts, D, F, ds, fs)
    <2> HIDE DEF F
    <2>1. \A i \in 1 .. Len(texts) : Says(texts[i], D[i], F[i])
      BY <1>2, <1>3
    <2>2. QED
      BY <1>3, <2>1, FlattenSays
  <1>6. PICK ds, fs : /\ Says(FlattenSeq(texts), ds, fs)
                      /\ Range(ds) = AllOf(D, N) /\ Range(fs) = AllOf(F, N)
                      /\ Distinct(ds)
    BY <1>2, <1>3, <1>4, <1>5 DEF Flattened
  <1>7. fs = <<>>
    <2>1. Range(fs) = {}
      <3>1. \A i \in 1 .. N : Range(F[i]) = {}
        BY <1>1, RangeNone
      <3>2. QED
        BY <1>6, <3>1, AllOfIs
    <2>2. fs \in Seq(Readings)
      BY <1>6, SaysTypes
    <2>3. Len(fs) = 0
      <3>1. SUFFICES ASSUME Len(fs) # 0
                     PROVE  FALSE
        OBVIOUS
      <3>2. 1 \in DOMAIN fs
        BY <2>2, <3>1
      <3>3. QED
        BY <2>1, <3>2 DEF Range
    <2>4. QED
      BY <2>2, <2>3, EmptySeq
  <1>8. ASSUME NEW x
        PROVE  x \in Range(ds) <=> \E i \in rest : ~natives[i].raw /\ x = Plain(Derived(natives[i]))
    <2>1. x \in Range(ds) <=> \E i \in 1 .. N : x \in Range(D[i])
      BY <1>6, AllOfIs
    <2>2. QED
      BY <1>1, <1>2, <2>1
  <1>9. QED
    BY <1>6, <1>7, <1>8 DEF texts

(***************************************************************************)
(* What each piece of a template becomes.                                  *)
(***************************************************************************)

LEMMA NextPrefix ==
  ASSUME NEW p \in Nat, p > 0
  PROVE  /\ Collected(p) <=> Collected(p - 1) \/ Read[p].kind = "NATIVES"
         /\ NamedBy(p) = NamedBy(p - 1) \cup (IF Read[p].kind = "NATIVE" THEN {Read[p].name} ELSE {})
         /\ ~Collected(0) /\ NamedBy(0) = {}
  <1>1. 1 .. p = (1 .. p - 1) \cup {p}
    OBVIOUS
  <1>2. 1 .. 0 = {}
    OBVIOUS
  <1>3. Collected(p) <=> Collected(p - 1) \/ Read[p].kind = "NATIVES"
    BY <1>1 DEF Collected
  <1>4. \A x : x \in NamedBy(p) <=> x \in NamedBy(p - 1) \/ (Read[p].kind = "NATIVE" /\ x = Read[p].name)
    BY <1>1 DEF NamedBy
  <1>5. NamedBy(p) = NamedBy(p - 1) \cup (IF Read[p].kind = "NATIVE" THEN {Read[p].name} ELSE {})
    BY <1>4
  <1>6. ~Collected(0) /\ NamedBy(0) = {}
    BY <1>2 DEF Collected, NamedBy
  <1>7. QED
    BY <1>3, <1>5, <1>6

\* What a placeholder becomes: the text, what it places, what it declares.
Becomes(p, text, places, ds, fs) ==
  /\ expand(Read[p], PlacedBy(p - 1)) = Chunk(text, places, ErrorOf(p))
  /\ parse(text) = ds /\ Says(text ++ One("\n"), ds, fs) /\ text \in Texts
  /\ \A x : x \in Range(ds) <=> \E d \in DeclaredBy(p) : x = Plain(d)
  /\ NamesOf(fs) = ForwardsOf(p) /\ Distinct(ds)
  /\ PlacedBy(p - 1) \cup places = PlacedBy(p)

LEMMA BecomesNatives ==
  ASSUME Legible, NEW p \in DOMAIN Read, Read[p].kind = "NATIVES"
  PROVE  \E text, places, ds, fs : Becomes(p, text, places, ds, fs)
  <1> DEFINE placed == PlacedBy(p - 1)
             rest == {i \in DOMAIN natives : i \notin placed}
             text == FlattenSeq([i \in DOMAIN natives |-> When(i \in rest, Append(native_decls[i], "\n"))])
  <1>1. /\ p \in Nat /\ p > 0 /\ p - 1 \in 0 .. Len(Read) /\ Read \in Seq(PiecesRead)
        /\ Readable /\ DOMAIN natives = 1 .. Len(natives)
    BY ReadIs DEF Legible, Readable, TypeOK
  <1>2. PICK ds : /\ Says(text, ds, <<>>)
                  /\ \A x : x \in Range(ds) <=> \E i \in rest : ~natives[i].raw /\ x = Plain(Derived(natives[i]))
                  /\ Distinct(ds)
    <2>1. rest \in SUBSET DOMAIN natives
      OBVIOUS
    <2> HIDE DEF rest
    <2>2. QED
      BY <1>1, <2>1, NativesSay
  <1>3. expand(Read[p], placed) = Chunk(text, rest, {})
    BY DEF expand, Chunk
  <1>4. ErrorOf(p) = {}
    BY DEF ErrorOf, OneIf
  <1>5. placed \cup rest = PlacedBy(p)
    <2>1. PlacedBy(p) = DOMAIN natives
      BY <1>1, NextPrefix DEF PlacedBy
    <2>2. placed \subseteq DOMAIN natives
      BY DEF PlacedBy
    <2>3. QED
      BY <2>1, <2>2
  <1>6. ASSUME NEW x
        PROVE  (\E i \in rest : ~natives[i].raw /\ x = Plain(Derived(natives[i]))) <=> \E d \in DeclaredBy(p) : x = Plain(d)
    <2> DEFINE derived == {n \in Range(natives) : ~n.raw}
    <2>1. /\ Collects(SubSeq(Read, 1, p - 1)) <=> Collected(p - 1)
          /\ Named(SubSeq(Read, 1, p - 1)) = NamedBy(p - 1)
      BY <1>1, PrefixIs
    <2>2. DeclaredBy(p) = IF Collected(p - 1) THEN {}
                          ELSE {Derived(n) : n \in {m \in derived : m.name \notin NamedBy(p - 1)}}
      BY <2>1 DEF DeclaredBy
    <2>3. \A i : i \in rest <=> i \in DOMAIN natives /\ ~Collected(p - 1) /\ natives[i].name \notin NamedBy(p - 1)
      BY DEF PlacedBy
    <2>4. \A n : n \in derived <=> \E i \in DOMAIN natives : n = natives[i] /\ ~natives[i].raw
      BY DEF Range
    <2> HIDE DEF rest, derived
    <2>5. CASE Collected(p - 1)
      BY <2>2, <2>3, <2>5
    <2>6. CASE ~Collected(p - 1)
      <3>1. ASSUME NEW i \in rest, ~natives[i].raw, x = Plain(Derived(natives[i]))
            PROVE  \E d \in DeclaredBy(p) : x = Plain(d)
        <4>1. natives[i] \in derived /\ natives[i].name \notin NamedBy(p - 1)
          BY <2>3, <2>4, <3>1
        <4>2. Derived(natives[i]) \in DeclaredBy(p)
          BY <2>2, <2>6, <4>1
        <4>3. QED
          BY <3>1, <4>2
      <3>2. ASSUME NEW d \in DeclaredBy(p), x = Plain(d)
            PROVE  \E i \in rest : ~natives[i].raw /\ x = Plain(Derived(natives[i]))
        <4>1. PICK n \in derived : n.name \notin NamedBy(p - 1) /\ d = Derived(n)
          BY <2>2, <2>6
        <4>2. PICK i \in DOMAIN natives : n = natives[i] /\ ~natives[i].raw
          BY <2>4
        <4>3. i \in rest
          BY <2>3, <2>6, <4>1, <4>2
        <4>4. QED
          BY <3>2, <4>1, <4>2, <4>3
      <3>3. QED
        BY <3>1, <3>2
    <2>7. QED
      BY <2>5, <2>6
  <1>7. ForwardsOf(p) = {}
    BY DEF ForwardsOf
  <1> HIDE DEF rest, text, placed
  <1>8. text \in Texts /\ parse(text) = ds /\ Says(text ++ One("\n"), ds, <<>>)
    BY <1>2, SaysTypes, ParseIs, LineAndEnd
  <1>9. Becomes(p, text, rest, ds, <<>>)
    BY <1>2, <1>3, <1>4, <1>5, <1>6, <1>7, <1>8, RangeNone DEF Becomes, placed
  <1>10. QED
    BY <1>9

LEMMA BecomesNative ==
  ASSUME Legible, NEW p \in DOMAIN Read, Read[p].kind = "NATIVE"
  PROVE  \E text, places, ds, fs : Becomes(p, text, places, ds, fs)
  <1> DEFINE placed == PlacedBy(p - 1)
             name == Read[p].name
             alias == Read[p].alias
             named == WithName(natives, name)
             derived == {n \in Range(natives) : ~n.raw}
  <1>0. PieceRead(Read[p]) /\ ~(Read[p] \in HandPiece)
    BY ReadIs, PieceKinds DEF IsPlaceholder
  <1>1. /\ p \in Nat /\ p > 0
        /\ DOMAIN natives = 1 .. Len(natives) /\ Len(natives) \in Nat
        /\ \A i \in DOMAIN natives : natives[i] \in Native /\ Fits(Derived(natives[i]))
        /\ \A i, j \in DOMAIN natives : natives[i].name = natives[j].name => i = j
    BY ReadIs DEF Legible, Readable, TypeOK
  <1>2. ForwardsOf(p) = {}
    BY DEF ForwardsOf
  <1>3. PlacedBy(p) = placed \cup {i \in DOMAIN natives : natives[i].name = name}
    <2>1. \A i : i \in PlacedBy(p) <=> i \in DOMAIN natives /\ (Collected(p) \/ natives[i].name \in NamedBy(p))
      BY DEF PlacedBy
    <2>2. \A i : i \in placed <=> i \in DOMAIN natives /\ (Collected(p - 1) \/ natives[i].name \in NamedBy(p - 1))
      BY DEF PlacedBy
    <2>3. (Collected(p) <=> Collected(p - 1)) /\ NamedBy(p) = NamedBy(p - 1) \cup {name}
      BY <1>1, NextPrefix
    <2> HIDE DEF placed, name
    <2>4. QED
      BY <2>1, <2>2, <2>3
  <1>4. DeclaredBy(p) = IF alias = <<>> THEN {Derived(n) : n \in {m \in derived : m.name = name}}
                        ELSE {Aliased(Derived(n), alias[1]) : n \in {m \in derived : m.name = name}}
    BY DEF DeclaredBy
  <1>5. \A n : n \in derived <=> \E i \in DOMAIN natives : n = natives[i] /\ ~natives[i].raw
    BY DEF Range
  <1>6. /\ named \in 0 .. Len(natives)
        /\ named # 0 => natives[named].name = name
        /\ named = 0 => \A i \in 1 .. Len(natives) : natives[i].name # name
    BY <1>1, WithNameIs
  <1>7. \A x : x \in NativeNames <=> \E i \in DOMAIN natives : x = natives[i].name
    BY DEF NativeNames, Range
  <1>8. ErrorOf(p) = IF name \in NativeNames THEN {} ELSE {Error("UnknownNative", name)}
    BY DEF ErrorOf, OneIf
  <1>9. CASE named = 0
    <2>1. expand(Read[p], placed) = Chunk(<<>>, {}, {Error("UnknownNative", name)})
      BY <1>9 DEF expand, Chunk
    <2> HIDE DEF named, name, placed, derived, alias
    <2>2. name \notin NativeNames
      BY <1>1, <1>6, <1>7, <1>9
    <2>3. DeclaredBy(p) = {}
      <3>1. {m \in derived : m.name = name} = {}
        BY <1>1, <1>5, <1>6, <1>9
      <3>2. QED
        BY <1>4, <3>1
    <2>4. placed \cup {} = PlacedBy(p)
      BY <1>1, <1>3, <1>6, <1>9
    <2>5. <<>> \in Texts /\ parse(<<>>) = <<>> /\ Says(<<>> ++ One("\n"), <<>>, <<>>)
      BY TextsAre, EmptySays, ParseIs, LineAndEnd
    <2>6. Becomes(p, <<>>, {}, <<>>, <<>>)
      BY <1>2, <1>8, <2>1, <2>2, <2>3, <2>4, <2>5, RangeNone DEF Becomes, placed
    <2>7. QED
      BY <2>6
  <1>10. CASE named # 0
    <2> DEFINE n == natives[named]
               decl == native_decl(n)
               text == IF alias = <<>> THEN decl ELSE alias_line(decl, name, alias)
               ds == IF alias = <<>> THEN Spoken(n) ELSE AliasSpoken(n, alias[1])
               d == IF alias = <<>> THEN Derived(n) ELSE Aliased(Derived(n), alias[1])
    <2>1. /\ named \in DOMAIN natives /\ n \in Native /\ Fits(Derived(n)) /\ n.name = name
      BY <1>1, <1>6, <1>10
    <2>2. expand(Read[p], placed) = Chunk(text, {named}, {})
      <3>1. native_decls[named] = decl
        BY <2>1 DEF native_decls
      <3>2. expand(Read[p], placed) =
              Chunk(IF Read[p].alias = <<>> THEN native_decls[named]
                        ELSE alias_line(native_decls[named], Read[p].name, Read[p].alias), {named}, {})
        BY <1>10 DEF expand, Chunk
      <3>3. QED
        BY <3>1, <3>2
    <2>3. name \in NativeNames
      BY <1>7, <2>1
    <2>4. \A i \in DOMAIN natives : natives[i].name = name <=> i = named
      BY <1>1, <2>1
    <2>5. placed \cup {named} = PlacedBy(p)
      BY <1>3, <2>1, <2>4
    <2>6. text \in Texts /\ parse(text) = ds /\ Says(text ++ One("\n"), ds, <<>>)
      <3> HIDE DEF n
      <3>1. CASE alias = <<>>
        BY <2>1, <3>1, NativeSays
      <3>2. CASE alias # <<>>
        <4>1. PICK a \in Names : alias = One(a)
          BY <1>0, <2>3, <3>2 DEF PieceRead
        <4>2. /\ alias_line(native_decl(n), n.name, One(a)) \in Texts
              /\ parse(alias_line(native_decl(n), n.name, One(a))) = AliasSpoken(n, a)
              /\ Says(alias_line(native_decl(n), n.name, One(a)) ++ One("\n"), AliasSpoken(n, a), <<>>)
          BY <2>1, <4>1, AliasSays
        <4>3. alias[1] = a
          BY <4>1 DEF One
        <4> HIDE DEF alias, name
        <4>4. QED
          BY <2>1, <3>2, <4>1, <4>2, <4>3
      <3>3. QED
        BY <3>1, <3>2
    <2>7. ds = IF n.raw THEN <<>> ELSE <<Plain(d)>>
      BY DEF Spoken, AliasSpoken
    <2>8. DeclaredBy(p) = IF n.raw THEN {} ELSE {d}
      <3>1. {m \in derived : m.name = name} = IF n.raw THEN {} ELSE {n}
        <4>1. \A m : m \in derived /\ m.name = name <=> m = n /\ ~n.raw
          <5> HIDE DEF derived, name, named
          <5>1. QED
            BY <1>5, <2>1, <2>4
        <4> HIDE DEF derived, name, n
        <4>2. QED
          BY <4>1
      <3> HIDE DEF derived, n, alias, name
      <3>2. QED
        BY <1>4, <3>1
    <2> HIDE DEF n, text, d, decl
    <2>9. /\ Distinct(ds)
          /\ \A x : x \in Range(ds) <=> \E e \in DeclaredBy(p) : x = Plain(e)
      <3>1. CASE n.raw
        BY <2>7, <2>8, <3>1, RangeNone
      <3>2. CASE ~n.raw
        <4>1. ds = <<Plain(d)>> /\ DeclaredBy(p) = {d}
          BY <2>7, <2>8, <3>2
        <4> HIDE DEF ds
        <4>2. Distinct(ds) /\ Range(ds) = {Plain(d)}
          BY <4>1, RangeNone
        <4>3. QED
          BY <4>1, <4>2
      <3>3. QED
        BY <3>1, <3>2
    <2> HIDE DEF ds, named, name, placed
    <2>10. Becomes(p, text, {named}, ds, <<>>)
      BY <1>2, <1>8, <2>2, <2>3, <2>5, <2>6, <2>9, RangeNone DEF Becomes, placed
    <2>11. QED
      BY <2>10
  <1>11. QED
    BY <1>9, <1>10

LEMMA BecomesOther ==
  ASSUME Legible, NEW p \in DOMAIN Read, Read[p].kind \in {"CALLBACKS", "VAR", "UNCLOSED"}
  PROVE  \E text, places, ds, fs : Becomes(p, text, places, ds, fs)
  <1> DEFINE placed == PlacedBy(p - 1)
  <1>1. p \in Nat /\ p > 0
    BY ReadIs
  <1>2. DeclaredBy(p) = {}
    BY DEF DeclaredBy
  <1>3. placed \cup {} = PlacedBy(p)
    BY <1>1, NextPrefix DEF PlacedBy
  <1>4. CASE Read[p].kind = "CALLBACKS"
    <2> DEFINE text == FlattenSeq(SetToSeq(Forwards))
    <2>1. PICK fs : Says(text, <<>>, fs) /\ NamesOf(fs) = Callbacks
      BY CallbacksSay
    <2>2. expand(Read[p], placed) = Chunk(text, {}, {})
      BY <1>4 DEF expand, Chunk, Forwards
    <2>3. ErrorOf(p) = {} /\ ForwardsOf(p) = Callbacks
      BY <1>4 DEF ErrorOf, OneIf, ForwardsOf
    <2> HIDE DEF text, placed
    <2>4. text \in Texts /\ parse(text) = <<>> /\ Says(text ++ One("\n"), <<>>, fs)
      BY <2>1, SaysTypes, ParseIs, LineAndEnd
    <2>5. Becomes(p, text, {}, <<>>, fs)
      BY <1>2, <1>3, <2>1, <2>2, <2>3, <2>4, RangeNone DEF Becomes, placed
    <2>6. QED
      BY <2>5
  <1>5. CASE Read[p].kind = "VAR"
    <2>1. expand(Read[p], placed) = Chunk(<<>>, {}, {Error("UnknownPlaceholder", None)})
      BY <1>5 DEF expand, Chunk
    <2>2. ErrorOf(p) = {Error("UnknownPlaceholder", None)} /\ ForwardsOf(p) = {}
      BY <1>5 DEF ErrorOf, OneIf, ForwardsOf
    <2> HIDE DEF placed
    <2>3. <<>> \in Texts /\ parse(<<>>) = <<>> /\ Says(<<>> ++ One("\n"), <<>>, <<>>)
      BY TextsAre, EmptySays, ParseIs, LineAndEnd
    <2>4. Becomes(p, <<>>, {}, <<>>, <<>>)
      BY <1>2, <1>3, <2>1, <2>2, <2>3, RangeNone DEF Becomes, placed
    <2>5. QED
      BY <2>4
  <1>6. CASE Read[p].kind = "UNCLOSED"
    <2>1. expand(Read[p], placed) = Chunk(<<>>, {}, {Error("UnclosedPlaceholder", None)})
      BY <1>6 DEF expand, Chunk
    <2>2. ErrorOf(p) = {Error("UnclosedPlaceholder", None)} /\ ForwardsOf(p) = {}
      BY <1>6 DEF ErrorOf, OneIf, ForwardsOf
    <2> HIDE DEF placed
    <2>3. <<>> \in Texts /\ parse(<<>>) = <<>> /\ Says(<<>> ++ One("\n"), <<>>, <<>>)
      BY TextsAre, EmptySays, ParseIs, LineAndEnd
    <2>4. Becomes(p, <<>>, {}, <<>>, <<>>)
      BY <1>2, <1>3, <2>1, <2>2, <2>3, RangeNone DEF Becomes, placed
    <2>5. QED
      BY <2>4
  <1>7. QED
    BY <1>4, <1>5, <1>6

\* One piece of the template that is read.
Reads(p, out, emitted, errors, text, ds, fs) ==
  /\ RenderPiece(Open(out, PlacedBy(p - 1), emitted, errors), Read[p]) =
       Open(out ++ (text ++ One("\n")), PlacedBy(p),
             IF IsPlaceholder(Read[p]) THEN emitted \cup NamesOf(ds) ELSE emitted,
             IF IsPlaceholder(Read[p])
             THEN errors \cup ErrorOf(p) \cup Twice(ds, emitted)
             ELSE errors)
  /\ Says(text ++ One("\n"), ds, fs)
  /\ \A x : x \in Range(ds) <=> \E d \in DeclaredBy(p) : x = Plain(d)
  /\ NamesOf(fs) = ForwardsOf(p)

LEMMA FieldOut ==
  ASSUME NEW x, NEW more, x = [out |-> x.out, placed |-> x.placed, emitted |-> x.emitted, errors |-> x.errors]
  PROVE  [x EXCEPT !.out = more] = [out |-> more, placed |-> x.placed, emitted |-> x.emitted, errors |-> x.errors]
  OBVIOUS
LEMMA OutIs ==
  ASSUME NEW out, NEW placed, NEW emitted, NEW errors, NEW more
  PROVE  [Open(out, placed, emitted, errors) EXCEPT !.out = more] = Open(more, placed, emitted, errors)
  <1> DEFINE x == Open(out, placed, emitted, errors)
  <1>1. /\ x.out = out /\ x.placed = placed /\ x.emitted = emitted /\ x.errors = errors
        /\ x = [out |-> x.out, placed |-> x.placed, emitted |-> x.emitted, errors |-> x.errors]
    BY DEF Open
  <1> HIDE DEF x
  <1>2. [x EXCEPT !.out = more] = [out |-> more, placed |-> x.placed, emitted |-> x.emitted, errors |-> x.errors]
    BY <1>1, FieldOut
  <1>3. QED
   BY <1>1, <1>2 DEF x, Open

LEMMA HandRendered ==
  ASSUME NEW out, NEW placed, NEW emitted, NEW errors, NEW piece, ~IsPlaceholder(piece)
  PROVE  RenderPiece(Open(out, placed, emitted, errors), piece) =
           Open(out \o Written(piece) \o <<"\n">>, placed, emitted, errors)
  <1> DEFINE state == Open(out, placed, emitted, errors)
             more == out \o Written(piece) \o <<"\n">>
  <1>1. state.out = out
    BY DEF Open
  <1> HIDE DEF state
  <1>2. RenderPiece(state, piece) = [state EXCEPT !.out = @ \o Written(piece) \o <<"\n">>]
    BY DEF RenderPiece
  <1>3. [state EXCEPT !.out = @ \o Written(piece) \o <<"\n">>] = [state EXCEPT !.out = more]
    BY <1>1
  <1>4. [state EXCEPT !.out = more] = Open(more, placed, emitted, errors)
    <2> HIDE DEF more
    <2>1. QED
      BY OutIs DEF state
  <1>5. QED
    BY <1>2, <1>3, <1>4 DEF state

\* A piece written by hand, read.
LEMMA HandIs ==
  ASSUME Legible, NEW p \in DOMAIN Read, Read[p] \in HandPiece
  PROVE  /\ Written(Read[p]) \in Texts
         /\ Says(Written(Read[p]) ++ One("\n"), HandSpoken(Read[p], "native"), HandSpoken(Read[p], "forward"))
         /\ \A x : x \in Range(HandSpoken(Read[p], "native")) <=> \E d \in DeclaredBy(p) : x = Plain(d)
         /\ NamesOf(HandSpoken(Read[p], "forward")) = ForwardsOf(p)
  <1> DEFINE piece == Read[p]
             text == Written(piece)
             ds == HandSpoken(piece, "native")
             fs == HandSpoken(piece, "forward")
  <1>0. piece \in HandPiece /\ Fits(piece.decl)
    <2>1. PieceRead(piece) /\ ~IsPlaceholder(piece)
      BY ReadIs, PieceKinds
    <2> HIDE DEF piece
    <2>2. QED
      BY <2>1 DEF PieceRead, IsPlaceholder, OpenKinds, piece
  <1>1. ~IsPlaceholder(piece) /\ Fits(piece.decl) /\ piece.kind \in {"native", "forward"}
    BY <1>0, PieceKinds DEF HandPiece
  <1>2. text \in Texts /\ Says(text ++ One("\n"), ds, fs)
    <2>1. Says(text ++ One("\n"), ds, fs)
      BY <1>0, <1>1, HandSays
    <2>2. text \in Texts
      BY <1>0, WrittenIs
    <2>3. QED
      BY <2>1, <2>2
  <1>7. DeclaredBy(p) = OneIf(piece.kind = "native" /\ piece.comment = "none", piece.decl)
    BY <1>1 DEF DeclaredBy, OneIf
  <1>8. \A x : x \in Range(ds) <=> \E d \in DeclaredBy(p) : x = Plain(d)
    <2>1. CASE piece.kind = "native" /\ piece.comment = "none"
      BY <1>7, <2>1, RangeNone DEF HandSpoken, OneIf
    <2>2. CASE ~(piece.kind = "native" /\ piece.comment = "none")
      BY <1>7, <2>2, RangeNone DEF HandSpoken, OneIf
    <2>3. QED
      BY <2>1, <2>2
  <1>9. NamesOf(fs) = ForwardsOf(p)
    <2>1. CASE piece.kind = "forward" /\ piece.comment = "none"
      <3>1. fs = <<Plain(piece.decl)>> /\ Plain(piece.decl).name = piece.decl.name
        BY <2>1 DEF HandSpoken, Plain
      <3>2. ForwardsOf(p) = {piece.decl.name}
        BY <2>1 DEF ForwardsOf
      <3> HIDE DEF fs
      <3>3. QED
        BY <3>1, <3>2, RangeNone
    <2>2. CASE ~(piece.kind = "forward" /\ piece.comment = "none")
      <3>1. fs = <<>> /\ ForwardsOf(p) = {}
        BY <1>1, <2>2 DEF HandSpoken, ForwardsOf
      <3>2. QED
        BY <3>1, RangeNone
    <2>3. QED
      BY <2>1, <2>2
  <1> HIDE DEF text, ds, fs
  <1>10. QED
    BY <1>2, <1>8, <1>9 DEF text, ds, fs

LEMMA PieceIsRead ==
  ASSUME Legible, NEW p \in DOMAIN Read,
         NEW out \in Texts, NEW emitted, NEW errors
  PROVE  \E text, ds, fs : Reads(p, out, emitted, errors, text, ds, fs)
  <1> DEFINE piece == Read[p]
             state == Open(out, PlacedBy(p - 1), emitted, errors)
  <1>1. PieceRead(piece) /\ p \in Nat /\ p > 0
    BY ReadIs
  <1>2. ASSUME NEW text \in Texts
        PROVE  out \o text \o <<"\n">> = out ++ (text ++ One("\n"))
    <2>1. One("\n") \in Texts
      BY Marks, OneIs
    <2>2. (out ++ text) ++ One("\n") = out ++ (text ++ One("\n"))
      BY <2>1, CatRegroups
    <2>3. QED
      BY <2>2 DEF ++, One
  <1>3. state.placed = PlacedBy(p - 1)
    BY DEF Open
  <1>4. CASE piece \in HandPiece
    <2> DEFINE text == Written(piece)
               ds == HandSpoken(piece, "native")
               fs == HandSpoken(piece, "forward")
    <2>1. ~IsPlaceholder(piece) /\ Fits(piece.decl) /\ piece.kind \in {"native", "forward"}
      BY <1>1, <1>4, PieceKinds DEF HandPiece, PieceRead, IsPlaceholder
    <2>2. text \in Texts /\ Says(text ++ One("\n"), ds, fs)
      BY <1>4, HandIs
    <2>3. PlacedBy(p) = PlacedBy(p - 1)
      BY <1>1, <2>1, NextPrefix DEF PlacedBy
    <2>4. RenderPiece(state, piece) = Open(out \o text \o <<"\n">>, PlacedBy(p - 1), emitted, errors)
      <3> DEFINE placed == PlacedBy(p - 1)
      <3> HIDE DEF placed
      <3>1. RenderPiece(Open(out, placed, emitted, errors), piece) = Open(out \o text \o <<"\n">>, placed, emitted, errors)
        BY <2>1, HandRendered
      <3>2. QED
        BY <3>1 DEF placed
    <2>6. RenderPiece(state, piece) = Open(out ++ (text ++ One("\n")), PlacedBy(p), emitted, errors)
      BY <1>2, <2>2, <2>3, <2>4
    <2>8. (\A x : x \in Range(ds) <=> \E d \in DeclaredBy(p) : x = Plain(d)) /\ NamesOf(fs) = ForwardsOf(p)
      BY <1>4, HandIs
    <2> HIDE DEF text, ds, fs
    <2>10. Reads(p, out, emitted, errors, text, ds, fs)
      BY <2>1, <2>2, <2>6, <2>8 DEF Reads
    <2>11. QED
      BY <2>10
  <1>5. CASE piece \notin HandPiece
    <2>1. piece.kind \in {"NATIVES", "CALLBACKS", "VAR", "UNCLOSED", "NATIVE"}
      <3> HIDE DEF piece
      <3>1. QED
        BY <1>1, <1>5 DEF PieceRead
    <2>2. IsPlaceholder(piece)
      BY <2>1 DEF IsPlaceholder, OpenKinds
    <2>3. \E text, places, ds, fs : Becomes(p, text, places, ds, fs)
      BY <2>1, BecomesNatives, BecomesNative, BecomesOther
    <2>4. PICK text, places, ds, fs : Becomes(p, text, places, ds, fs)
      BY <2>3
    <2>5. ds \in Seq(Readings)
      BY <2>4, SaysTypes DEF Becomes
    <2> DEFINE e == Chunk(text, places, ErrorOf(p))
    <2>6. RenderPiece(state, piece) = Expand(state, e)
      <3>1. expand(piece, state.placed) = e
        BY <1>3, <2>4 DEF Becomes
      <3> HIDE DEF state, piece, e
      <3>2. QED
        BY <1>3, <2>2, <3>1 DEF RenderPiece
    <2>7. Expand(state, e) =
            Open(out \o text \o <<"\n">>, PlacedBy(p - 1) \cup places, emitted \cup NamesOf(ds),
                  errors \cup ErrorOf(p) \cup Twice(ds, emitted))
      <3>1. parse(text) = ds /\ Distinct(ds)
        BY <2>4 DEF Becomes
      <3> DEFINE placed == PlacedBy(p - 1)
                 problems == ErrorOf(p)
      <3> HIDE DEF placed, problems
      <3>2. Expand(Open(out, placed, emitted, errors), Chunk(text, places, problems)) =
              Open(out \o text \o <<"\n">>, placed \cup places, emitted \cup NamesOf(ds),
                    errors \cup problems \cup Twice(ds, emitted))
        BY <2>5, <3>1, ExpandIs
      <3>3. QED
        BY <3>2 DEF placed, problems
    <2>8. out \o text \o <<"\n">> = out ++ (text ++ One("\n")) /\ PlacedBy(p - 1) \cup places = PlacedBy(p)
      BY <1>2, <2>4 DEF Becomes
    <2>9. Reads(p, out, emitted, errors, text, ds, fs)
      BY <2>2, <2>4, <2>6, <2>7, <2>8 DEF Reads, Becomes
    <2>10. QED
      BY <2>9
  <1>6. QED
    BY <1>1, <1>4, <1>5

(***************************************************************************)
(* The pieces of a template, one behind the other.                         *)
(***************************************************************************)

\* A template, piece by piece.
LEMMA RenderSteps ==
  ASSUME NEW N \in Nat, Len(Read) = N
  PROVE  \E g : /\ g[0] = Open(<<>>, {}, {}, {})
                /\ \A p \in 1 .. N : g[p] = RenderPiece(g[p - 1], Read[p])
                /\ render(source) = Rendered(g[N])
  <1> DEFINE start == [out |-> <<>>, placed |-> {}, emitted |-> {}, errors |-> {}]
             Solves(f, k) == f = [p \in 0 .. k |-> IF p = 0 THEN start ELSE RenderPiece(f[p - 1], Read[p])]
             P == [k \in 0 .. N |-> \E f : Solves(f, k)]
  <1>0. start = Open(<<>>, {}, {}, {})
    BY DEF Open
  <1> HIDE DEF start
  <1>1. P \in [0 .. N -> BOOLEAN] /\ 0 \in 0 .. N /\ N \in 0 .. N
    OBVIOUS
  <1>2. P[0]
    <2> DEFINE f == [p \in 0 .. 0 |-> start]
    <2>1. Solves(f, 0)
      OBVIOUS
    <2> HIDE DEF Solves
    <2>2. P[0] = \E h : Solves(h, 0)
      BY <1>1
    <2>3. QED
      BY <2>1, <2>2
  <1>3. ASSUME NEW k \in 0 .. N, k < N, P[k]
        PROVE  P[k + 1]
    <2>1. PICK f : Solves(f, k)
      BY <1>3
    <2>2. \A p \in 0 .. k : f[p] = IF p = 0 THEN start ELSE RenderPiece(f[p - 1], Read[p])
      <3>1. f = [p \in 0 .. k |-> IF p = 0 THEN start ELSE RenderPiece(f[p - 1], Read[p])]
        BY <2>1
      <3>2. QED
        BY <3>1, Zenon
    <2> DEFINE h == [p \in 0 .. k + 1 |-> IF p = k + 1 THEN RenderPiece(f[k], Read[k + 1]) ELSE f[p]]
    <2>3. ASSUME NEW p \in 0 .. k + 1
          PROVE  h[p] = IF p = 0 THEN start ELSE RenderPiece(h[p - 1], Read[p])
      <3>1. CASE p = 0
        <4>1. 0 \in 0 .. k /\ 0 # k + 1
          OBVIOUS
        <4>2. h[0] = f[0] /\ f[0] = start
          BY <2>2, <4>1, <3>1
        <4>3. QED
          BY <3>1, <4>2
      <3>2. CASE p = k + 1
        <4>1. k \in 0 .. k + 1 /\ k # k + 1 /\ (k + 1) - 1 = k /\ k + 1 # 0
          OBVIOUS
        <4>2. h[k] = f[k] /\ h[k + 1] = RenderPiece(f[k], Read[k + 1])
          BY <3>2, <4>1
        <4>3. QED
          BY <3>2, <4>1, <4>2
      <3>3. CASE p # 0 /\ p # k + 1
        <4>1. p \in 0 .. k /\ p - 1 \in 0 .. k + 1 /\ p - 1 # k + 1
          BY <3>3
        <4>2. h[p] = f[p] /\ h[p - 1] = f[p - 1]
          BY <3>3, <4>1
        <4>3. QED
          BY <2>2, <3>3, <4>1, <4>2
      <3>4. QED
        BY <3>1, <3>2, <3>3
    <2>4. h = [p \in 0 .. k + 1 |-> h[p]]
      OBVIOUS
    <2> HIDE DEF h
    <2>5. Solves(h, k + 1)
      BY <2>3, <2>4
    <2>6. k + 1 \in 0 .. N
      BY <1>3
    <2> HIDE DEF Solves
    <2>7. P[k + 1] = \E x : Solves(x, k + 1)
      BY <2>6
    <2>8. QED
      BY <2>5, <2>7
  <1>4. P[N]
    <2> HIDE DEF P
    <2>1. \A k \in 0 .. N : P[k]
      BY <1>1, <1>2, <1>3, UpTo
    <2>2. QED
      BY <1>1, <2>1
  <1> DEFINE g == CHOOSE f : Solves(f, N)
  <1>5. Solves(g, N)
    <2> HIDE DEF Solves
    <2>1. \E f : Solves(f, N)
      BY <1>1, <1>4
    <2>2. QED
      BY <2>1
  <1>6. render(source) = Rendered(g[N])
    BY DEF render, start, Read
  <1> HIDE DEF g
  <1>7. ASSUME NEW p \in 0 .. N
        PROVE  g[p] = IF p = 0 THEN start ELSE RenderPiece(g[p - 1], Read[p])
    <2>1. g = [q \in 0 .. N |-> IF q = 0 THEN start ELSE RenderPiece(g[q - 1], Read[q])]
      BY <1>5
    <2>2. QED
      BY <2>1, Zenon
  <1>8. g[0] = start /\ \A p \in 1 .. N : g[p] = RenderPiece(g[p - 1], Read[p])
    <2>1. g[0] = start
      BY <1>1, <1>7
    <2>2. ASSUME NEW p \in 1 .. N
          PROVE  g[p] = RenderPiece(g[p - 1], Read[p])
      <3>1. p \in 0 .. N /\ p # 0
        OBVIOUS
      <3>2. QED
        BY <1>7, <3>1
    <2>3. QED
      BY <2>1, <2>2
  <1>9. QED
    BY <1>0, <1>6, <1>8

\* What is wrong with the first k pieces.
AgainBy(k) == {m \in Names : \E p, q \in 1 .. k : p < q /\ m \in PutBy(p) /\ m \in PutBy(q)}
ProblemsOf(k) == UNION {ErrorOf(p) : p \in 1 .. k}
ErrorsOf(k) == ProblemsOf(k) \cup {Error("PlacedTwice", n) : n \in AgainBy(k)}

LEMMA ProblemsAre ==
  ASSUME NEW k
  PROVE  \A e : e \in ProblemsOf(k) <=> \E p \in 1 .. k : e \in ErrorOf(p)
  BY DEF ProblemsOf

\* A placeholder declares names of natives.
LEMMA PutNames ==
  ASSUME Legible, NEW p \in DOMAIN Read
  PROVE  PutBy(p) \subseteq Names
  <1> DEFINE derived == {n \in Range(natives) : ~n.raw}
  <1>1. \A n \in derived : n \in Native /\ Derived(n).name \in Names /\ Derived(n) \in Decl
    <2>1. \A i \in DOMAIN natives : natives[i] \in Native
      BY DEF Legible, Readable, TypeOK
    <2>2. \A n \in derived : n \in Native
      BY <2>1 DEF Range
    <2>3. \A n \in Native : n.name \in Names /\ Derived(n).name = n.name /\ Derived(n) \in Decl
      BY NativeIs, DerivedIs
    <2>4. QED
      BY <2>2, <2>3
  <1>2. CASE ~IsPlaceholder(Read[p])
    BY <1>2 DEF PutBy
  <1>3. CASE IsPlaceholder(Read[p])
    <2>1. PieceRead(Read[p]) /\ ~(Read[p] \in HandPiece)
      BY <1>3, ReadIs, PieceKinds
    <2>2. CASE Read[p].kind = "NATIVES"
      <3>1. \A d \in DeclaredBy(p) : \E n \in derived : d = Derived(n)
        BY <2>2 DEF DeclaredBy
      <3>2. QED
        BY <1>1, <3>1 DEF PutBy
    <2>3. CASE Read[p].kind \in {"CALLBACKS", "VAR", "UNCLOSED"}
      <3>1. DeclaredBy(p) = {}
        BY <2>3 DEF DeclaredBy
      <3>2. QED
        BY <3>1 DEF PutBy
    <2>4. CASE Read[p].kind = "NATIVE" /\ Read[p].alias = <<>>
      <3>1. \A d \in DeclaredBy(p) : \E n \in derived : d = Derived(n)
        BY <2>4 DEF DeclaredBy
      <3>2. QED
        BY <1>1, <3>1 DEF PutBy
    <2>5. CASE Read[p].kind = "NATIVE" /\ Read[p].alias # <<>>
      <3>1. ASSUME NEW d \in DeclaredBy(p)
            PROVE  d.name \in Names
        <4>1. PICK n \in derived : d = Aliased(Derived(n), Read[p].alias[1]) /\ n.name = Read[p].name
          BY <2>5 DEF DeclaredBy
        <4>2. Read[p].name \in NativeNames
          BY <4>1 DEF NativeNames
        <4>3. PICK a \in Names : Read[p].alias = One(a)
          BY <2>1, <2>5, <4>2 DEF PieceRead
        <4>4. Read[p].alias[1] = a
          BY <4>3 DEF One
        <4>5. Derived(n) \in Decl
          BY <1>1
        <4>6. Aliased(Derived(n), a).name = a
          BY <1>1, <4>5, AliasedIs
        <4>7. QED
          BY <4>1, <4>4, <4>6
      <3>2. QED
        BY <3>1 DEF PutBy
    <2>6. QED
      BY <2>1, <2>2, <2>3, <2>4, <2>5 DEF PieceRead
  <1>4. QED
    BY <1>2, <1>3

LEMMA NothingYet ==
  PlacedBy(0) = {} /\ EmittedBy(0) = {} /\ ErrorsOf(0) = {}
  <1>1. 1 .. 0 = {}
    OBVIOUS
  <1>2. PlacedBy(0) = {}
    BY <1>1 DEF PlacedBy, Collected, NamedBy
  <1>3. EmittedBy(0) = {}
    BY <1>1 DEF EmittedBy
  <1>4. ErrorsOf(0) = {}
    <2>1. ProblemsOf(0) = {}
      BY <1>1, ProblemsAre
    <2>2. AgainBy(0) = {}
      BY <1>1 DEF AgainBy
    <2>3. QED
      BY <2>1, <2>2 DEF ErrorsOf
  <1>5. QED
    BY <1>2, <1>3, <1>4

\* One more piece.
LEMMA OneMore ==
  ASSUME Legible, NEW k \in Nat, k + 1 \in DOMAIN Read
  PROVE  /\ EmittedBy(k + 1) = EmittedBy(k) \cup PutBy(k + 1)
         /\ ErrorsOf(k + 1) = ErrorsOf(k) \cup ErrorOf(k + 1)
                                \cup {Error("PlacedTwice", n) : n \in PutBy(k + 1) \cap EmittedBy(k)}
  <1>1. 1 .. k + 1 = (1 .. k) \cup {k + 1} /\ \A p \in 1 .. k : p < k + 1
    OBVIOUS
  <1>2. PutBy(k + 1) \subseteq Names
    BY PutNames
  <1>3. EmittedBy(k + 1) = EmittedBy(k) \cup PutBy(k + 1)
    BY <1>1, <1>2 DEF EmittedBy
  <1>4. ASSUME NEW m
        PROVE  m \in AgainBy(k + 1) <=> m \in AgainBy(k) \/ m \in PutBy(k + 1) \cap EmittedBy(k)
    <2>1. ASSUME m \in AgainBy(k + 1)
          PROVE  m \in AgainBy(k) \/ m \in PutBy(k + 1) \cap EmittedBy(k)
      <3>1. PICK p \in 1 .. k + 1, q \in 1 .. k + 1 : p < q /\ m \in PutBy(p) /\ m \in PutBy(q)
        BY <2>1 DEF AgainBy
      <3>2. m \in Names
        BY <2>1 DEF AgainBy
      <3>3. p \in 1 .. k
        BY <3>1
      <3>4. CASE q \in 1 .. k
        BY <3>1, <3>2, <3>3, <3>4 DEF AgainBy
      <3>5. CASE q = k + 1
        BY <3>1, <3>2, <3>3, <3>5 DEF EmittedBy
      <3>6. QED
        BY <1>1, <3>4, <3>5
    <2>2. ASSUME m \in AgainBy(k)
          PROVE  m \in AgainBy(k + 1)
      BY <1>1, <2>2 DEF AgainBy
    <2>3. ASSUME m \in PutBy(k + 1), m \in EmittedBy(k)
          PROVE  m \in AgainBy(k + 1)
      <3>1. PICK p \in 1 .. k : m \in PutBy(p)
        BY <2>3 DEF EmittedBy
      <3>2. m \in Names
        BY <2>3 DEF EmittedBy
      <3>3. p < k + 1 /\ p \in 1 .. k + 1 /\ k + 1 \in 1 .. k + 1
        BY <1>1
      <3>4. QED
        BY <2>3, <3>1, <3>2, <3>3 DEF AgainBy
    <2>4. QED
      BY <2>1, <2>2, <2>3
  <1>5. ASSUME NEW e
        PROVE  e \in ProblemsOf(k + 1) <=> e \in ProblemsOf(k) \/ e \in ErrorOf(k + 1)
    <2>1. e \in ProblemsOf(k + 1) <=> \E p \in 1 .. k + 1 : e \in ErrorOf(p)
      BY ProblemsAre
    <2>2. e \in ProblemsOf(k) <=> \E p \in 1 .. k : e \in ErrorOf(p)
      BY ProblemsAre
    <2>3. QED
      BY <1>1, <2>1, <2>2
  <1>6. {Error("PlacedTwice", n) : n \in AgainBy(k + 1)} =
          {Error("PlacedTwice", n) : n \in AgainBy(k)} \cup {Error("PlacedTwice", n) : n \in PutBy(k + 1) \cap EmittedBy(k)}
    <2>1. AgainBy(k + 1) = AgainBy(k) \cup (PutBy(k + 1) \cap EmittedBy(k))
      BY <1>4
    <2>2. QED
      BY <2>1
  <1>7. ProblemsOf(k + 1) = ProblemsOf(k) \cup ErrorOf(k + 1)
    BY <1>5
  <1>8. QED
    BY <1>3, <1>6, <1>7 DEF ErrorsOf

\* The state after the first k pieces, all of them read.
Good(k, state, out, ds, fs) ==
  /\ state = Open(out, PlacedBy(k), EmittedBy(k), ErrorsOf(k))
  /\ Says(out, ds, fs)
  /\ \A x : x \in Range(ds) <=> \E p \in 1 .. k : \E d \in DeclaredBy(p) : x = Plain(d)
  /\ \A x : x \in NamesOf(fs) <=> \E p \in 1 .. k : x \in ForwardsOf(p)

LEMMA GoodNext ==
  ASSUME Legible, NEW k \in Nat, k + 1 \in DOMAIN Read, NEW state, NEW out, NEW ds, NEW fs, Good(k, state, out, ds, fs)
  PROVE  \E out2, ds2, fs2 : Good(k + 1, RenderPiece(state, Read[k + 1]), out2, ds2, fs2)
  <1> DEFINE p == k + 1
  <1>1. /\ Says(out, ds, fs) /\ out \in Texts /\ ds \in Seq(Readings) /\ fs \in Seq(Readings)
        /\ state = Open(out, PlacedBy(k), EmittedBy(k), ErrorsOf(k))
    BY SaysTypes DEF Good
  <1>2. p - 1 = k /\ p \in DOMAIN Read
    OBVIOUS
  <1> HIDE DEF p
  <1>3. PICK text, dt, ft : Reads(p, out, EmittedBy(k), ErrorsOf(k), text, dt, ft)
    BY <1>1, <1>2, PieceIsRead
  <1>4. Says(out ++ (text ++ One("\n")), ds \o dt, fs \o ft)
    BY <1>1, <1>3, SaysBoth DEF Reads
  <1>5. dt \in Seq(Readings) /\ ft \in Seq(Readings)
    BY <1>3, SaysTypes DEF Reads
  <1>6. 1 .. p = (1 .. k) \cup {p}
    BY DEF p
  <1>7. ASSUME NEW x
        PROVE  x \in Range(ds \o dt) <=> \E q \in 1 .. p : \E d \in DeclaredBy(q) : x = Plain(d)
    <2>1. x \in Range(ds \o dt) <=> x \in Range(ds) \/ x \in Range(dt)
      BY <1>1, <1>5, RangeCat
    <2>2. x \in Range(ds) <=> \E q \in 1 .. k : \E d \in DeclaredBy(q) : x = Plain(d)
      BY DEF Good
    <2>3. x \in Range(dt) <=> \E d \in DeclaredBy(p) : x = Plain(d)
      BY <1>3 DEF Reads
    <2>4. QED
      BY <1>6, <2>1, <2>2, <2>3
  <1>8. ASSUME NEW x
        PROVE  x \in NamesOf(fs \o ft) <=> \E q \in 1 .. p : x \in ForwardsOf(q)
    <2>1. x \in NamesOf(fs \o ft) <=> x \in NamesOf(fs) \/ x \in NamesOf(ft)
      BY <1>1, <1>5, RangeCat
    <2>2. x \in NamesOf(fs) <=> \E q \in 1 .. k : x \in ForwardsOf(q)
      BY DEF Good
    <2>3. x \in NamesOf(ft) <=> x \in ForwardsOf(p)
      BY <1>3 DEF Reads
    <2>4. QED
      BY <1>6, <2>1, <2>2, <2>3
  <1>9. /\ EmittedBy(p) = EmittedBy(k) \cup PutBy(p)
        /\ ErrorsOf(p) = ErrorsOf(k) \cup ErrorOf(p) \cup {Error("PlacedTwice", n) : n \in PutBy(p) \cap EmittedBy(k)}
    BY <1>2, OneMore DEF p
  <1>10. RenderPiece(state, Read[p]) = Open(out ++ (text ++ One("\n")), PlacedBy(p), EmittedBy(p), ErrorsOf(p))
    <2>1. CASE IsPlaceholder(Read[p])
      <3>1. NamesOf(dt) = PutBy(p)
        <4>1. \A d : Plain(d).name = d.name
          BY DEF Plain
        <4>2. \A x : x \in Range(dt) <=> \E d \in DeclaredBy(p) : x = Plain(d)
          BY <1>3 DEF Reads
        <4>3. ASSUME NEW x
              PROVE  x \in NamesOf(dt) <=> \E d \in DeclaredBy(p) : x = d.name
          <5>1. x \in NamesOf(dt) <=> \E y \in Range(dt) : x = y.name
            BY DEF NamesOf
          <5>2. QED
            BY <4>1, <4>2, <5>1
        <4>4. \A x : x \in PutBy(p) <=> \E d \in DeclaredBy(p) : x = d.name
          BY <2>1 DEF PutBy
        <4>5. QED
          BY <4>3, <4>4
      <3>2. RenderPiece(Open(out, PlacedBy(p - 1), EmittedBy(k), ErrorsOf(k)), Read[p]) =
              Open(out ++ (text ++ One("\n")), PlacedBy(p), EmittedBy(k) \cup NamesOf(dt),
                   ErrorsOf(k) \cup ErrorOf(p) \cup Twice(dt, EmittedBy(k)))
        BY <1>3, <2>1 DEF Reads
      <3>3. Twice(dt, EmittedBy(k)) = {Error("PlacedTwice", n) : n \in PutBy(p) \cap EmittedBy(k)}
        BY <3>1 DEF Twice
      <3>4. QED
        BY <1>1, <1>2, <1>9, <3>1, <3>2, <3>3
    <2>2. CASE ~IsPlaceholder(Read[p])
      <3>1. PutBy(p) = {} /\ ErrorOf(p) = {}
        BY <2>2 DEF PutBy, ErrorOf, OneIf, IsPlaceholder, OpenKinds
      <3>2. EmittedBy(p) = EmittedBy(k) /\ ErrorsOf(p) = ErrorsOf(k)
        BY <1>9, <3>1
      <3>3. RenderPiece(Open(out, PlacedBy(p - 1), EmittedBy(k), ErrorsOf(k)), Read[p]) =
              Open(out ++ (text ++ One("\n")), PlacedBy(p), EmittedBy(k), ErrorsOf(k))
        BY <1>3, <2>2 DEF Reads
      <3>4. QED
        BY <1>1, <1>2, <3>2, <3>3
    <2>3. QED
      BY <2>1, <2>2
  <1>11. Good(p, RenderPiece(state, Read[p]), out ++ (text ++ One("\n")), ds \o dt, fs \o ft)
    BY <1>4, <1>7, <1>8, <1>10 DEF Good
  <1>12. QED
    BY <1>11 DEF p

\* The state at the end, and what render makes of it.
LEMMA RenderedIs ==
  ASSUME Legible
  PROVE  \E out, ds, fs, rendered :
           /\ Good(Len(Read), rendered, out, ds, fs)
           /\ render(source) = Rendered(rendered)
           /\ render(source).errors =
                ErrorsOf(Len(Read))
                  \cup {Error("NativeNotPlaced", natives[i].name) : i \in DOMAIN natives \ PlacedBy(Len(Read))}
  <1> DEFINE N == Len(Read)
  <1>1. N \in Nat /\ DOMAIN Read = 1 .. N
    BY ReadIs
  <1>2. PICK g : /\ g[0] = Open(<<>>, {}, {}, {})
                 /\ \A p \in 1 .. N : g[p] = RenderPiece(g[p - 1], Read[p])
                 /\ render(source) = Rendered(g[N])
    BY <1>1, RenderSteps
  <1> HIDE DEF N
  <1> DEFINE P == [k \in 0 .. N |-> \E out, ds, fs : Good(k, g[k], out, ds, fs)]
  <1>4. P \in [0 .. N -> BOOLEAN] /\ 0 \in 0 .. N /\ N \in 0 .. N
    BY <1>1
  <1>5. P[0]
    <2>1. 1 .. 0 = {}
      OBVIOUS
    <2>2. Good(0, g[0], <<>>, <<>>, <<>>)
      BY <1>2, <2>1, NothingYet, EmptySays, RangeNone DEF Good
    <2>3. P[0] = \E out, ds, fs : Good(0, g[0], out, ds, fs)
      BY <1>4
    <2>4. QED
      BY <2>2, <2>3
  <1>6. ASSUME NEW k \in 0 .. N, k < N, P[k]
        PROVE  P[k + 1]
    <2>1. PICK out, ds, fs : Good(k, g[k], out, ds, fs)
      BY <1>6
    <2>2. k \in Nat /\ k + 1 \in 1 .. N /\ (k + 1) - 1 = k /\ k + 1 \in 0 .. N
      BY <1>1, <1>6
    <2>3. g[k + 1] = RenderPiece(g[k], Read[k + 1])
      BY <1>2, <2>2
    <2>4. \E out2, ds2, fs2 : Good(k + 1, RenderPiece(g[k], Read[k + 1]), out2, ds2, fs2)
      BY <1>1, <2>1, <2>2, GoodNext
    <2>5. P[k + 1] = \E out2, ds2, fs2 : Good(k + 1, g[k + 1], out2, ds2, fs2)
      BY <2>2
    <2>6. QED
      BY <2>3, <2>4, <2>5
  <1>7. \E out, ds, fs : Good(N, g[N], out, ds, fs)
    <2>1. P[N]
      <3> HIDE DEF P
      <3>1. \A k \in 0 .. N : P[k]
        BY <1>1, <1>4, <1>5, <1>6, UpTo
      <3>2. QED
        BY <1>4, <3>1
    <2>2. QED
      BY <1>4, <2>1
  <1>8. PICK out, ds, fs : Good(N, g[N], out, ds, fs)
    BY <1>7
  <1>9. g[N].placed = PlacedBy(N) /\ g[N].errors = ErrorsOf(N)
    BY <1>8 DEF Good, Open
  <1>10. render(source).errors = g[N].errors \cup {Error("NativeNotPlaced", natives[i].name) : i \in DOMAIN natives \ g[N].placed}
    BY <1>2 DEF Rendered
  <1>11. render(source).errors =
           ErrorsOf(N) \cup {Error("NativeNotPlaced", natives[i].name) : i \in DOMAIN natives \ PlacedBy(N)}
    BY <1>9, <1>10
  <1>12. QED
    BY <1>2, <1>8, <1>11 DEF N

(***************************************************************************)
(* Why a template is refused.                                              *)
(***************************************************************************)

\* The whole, as a sequence.
LEMMA AllOfRead ==
  ASSUME Readable
  PROVE  /\ Collects(Read) <=> Collected(Len(Read))
         /\ Named(Read) = NamedBy(Len(Read))
<1>1. Read \in Seq(PiecesRead)
  BY ReadTypes
<1>2. Len(Read) \in 0 .. Len(Read) /\ SubSeq(Read, 1, Len(Read)) = Read
  BY <1>1
<1> QED
  BY <1>1, <1>2, PrefixIs

\* What is wrong with each piece, found over the whole.
LEMMA ProblemsFound ==
  ASSUME NEW M, DOMAIN Read = 1 .. M, Named(Read) = NamedBy(M)
  PROVE  LET kinds == {Read[p].kind : p \in DOMAIN Read}
         IN OneIf("UNCLOSED" \in kinds, Error("UnclosedPlaceholder", None))
              \cup OneIf("VAR" \in kinds, Error("UnknownPlaceholder", None))
              \cup {Error("UnknownNative", n) : n \in Named(Read) \ NativeNames}
              = ProblemsOf(M)
<1> DEFINE kinds == {Read[p].kind : p \in DOMAIN Read}
           open == OneIf("UNCLOSED" \in kinds, Error("UnclosedPlaceholder", None))
           var == OneIf("VAR" \in kinds, Error("UnknownPlaceholder", None))
           unknown == {Error("UnknownNative", n) : n \in NamedBy(M) \ NativeNames}
<1>0. \A kind : kind \in kinds <=> \E p \in 1 .. M : Read[p].kind = kind
  OBVIOUS
<1> HIDE DEF kinds
<1>1. \A e : e \in var <=> e = Error("UnknownPlaceholder", None) /\ \E p \in 1 .. M : Read[p].kind = "VAR"
  BY <1>0 DEF OneIf
<1>2. \A e : e \in open <=> e = Error("UnclosedPlaceholder", None) /\ \E p \in 1 .. M : Read[p].kind = "UNCLOSED"
  BY <1>0 DEF OneIf
<1>3. \A e : e \in unknown <=> \E p \in 1 .. M : /\ Read[p].kind = "NATIVE" /\ Read[p].name \notin NativeNames
                                                /\ e = Error("UnknownNative", Read[p].name)
  BY DEF NamedBy
<1>4. \A e, p : e \in ErrorOf(p) <=>
        \/ Read[p].kind = "UNCLOSED" /\ e = Error("UnclosedPlaceholder", None)
        \/ Read[p].kind = "VAR" /\ e = Error("UnknownPlaceholder", None)
        \/ /\ Read[p].kind = "NATIVE" /\ Read[p].name \notin NativeNames
           /\ e = Error("UnknownNative", Read[p].name)
  BY DEF ErrorOf, OneIf
<1>5. \A e : e \in ProblemsOf(M) <=> \E p \in 1 .. M : e \in ErrorOf(p)
  BY ProblemsAre
<1> HIDE DEF var, unknown, open
<1>6. \A e : e \in open \cup var \cup unknown <=> e \in ProblemsOf(M)
  BY <1>1, <1>2, <1>3, <1>4, <1>5
<1>7. open \cup var \cup unknown = ProblemsOf(M)
  BY <1>6
<1> QED
  BY <1>7 DEF var, unknown, open, kinds

\* The natives nobody places.
LEMMA NotPlacedFound ==
  ASSUME TypeOK, NEW M, Collects(Read) <=> Collected(M), Named(Read) = NamedBy(M)
  PROVE  {Error("NativeNotPlaced", n) : n \in IF Collects(Read) THEN {} ELSE NativeNames \ Named(Read)}
           = {Error("NativeNotPlaced", natives[i].name) : i \in DOMAIN natives \ PlacedBy(M)}
<1>1. \A n : n \in NativeNames <=> \E i \in DOMAIN natives : n = natives[i].name
  BY DEF NativeNames, TypeOK, Range
<1>2. \A i \in DOMAIN natives : i \in PlacedBy(M) <=> Collected(M) \/ natives[i].name \in NamedBy(M)
  BY DEF PlacedBy
<1> DEFINE left == IF Collects(Read) THEN {} ELSE NativeNames \ Named(Read)
<1>3. \A n : n \in left <=> ~Collected(M) /\ n \in NativeNames /\ n \notin NamedBy(M)
  OBVIOUS
<1> HIDE DEF left
<1>4. \A n : n \in left <=> \E i \in DOMAIN natives \ PlacedBy(M) : n = natives[i].name
  BY <1>1, <1>2, <1>3
<1>5. {Error("NativeNotPlaced", n) : n \in left}
        = {Error("NativeNotPlaced", natives[i].name) : i \in DOMAIN natives \ PlacedBy(M)}
  BY <1>4
<1> QED
  BY <1>5 DEF left

\* What the check should refuse is what rendering refuses.
LEMMA CausesAre ==
  ASSUME Legible
  PROVE  Causes = ErrorsOf(Len(Read))
                    \cup {Error("NativeNotPlaced", natives[i].name) : i \in DOMAIN natives \ PlacedBy(Len(Read))}
<1> DEFINE N == Len(Read)
           kinds == {Read[p].kind : p \in DOMAIN Read}
           declares(p) == IF IsPlaceholder(Read[p]) THEN {d.name : d \in DeclaredBy(p)} ELSE {}
           open == OneIf("UNCLOSED" \in kinds, Error("UnclosedPlaceholder", None))
           var == OneIf("VAR" \in kinds, Error("UnknownPlaceholder", None))
           unknown == {Error("UnknownNative", n) : n \in Named(Read) \ NativeNames}
           unplaced == {Error("NativeNotPlaced", n) : n \in IF Collects(Read) THEN {} ELSE NativeNames \ Named(Read)}
           again == {m \in Names : \E p, q \in DOMAIN Read : p < q /\ m \in declares(p) /\ m \in declares(q)}
           left == {Error("NativeNotPlaced", natives[i].name) : i \in DOMAIN natives \ PlacedBy(N)}
           twice == {Error("PlacedTwice", n) : n \in again}
<1>1. Causes = open \cup var \cup unknown \cup unplaced \cup twice
  <2>1. "UNCLOSED" \in kinds \/ AliasRunsOn <=> "UNCLOSED" \in kinds
    BY DEF Legible
  <2> QED
    BY <2>1 DEF Causes, NativeNames
<1>2. TypeOK /\ Readable
  BY DEF Legible, Readable
<1>3. /\ DOMAIN Read = 1 .. N
      /\ Collects(Read) <=> Collected(N)
      /\ Named(Read) = NamedBy(N)
  BY <1>2, ReadIs, AllOfRead
<1>4. \A p : declares(p) = PutBy(p)
  BY DEF PutBy
<1> HIDE DEF declares, N
<1>5. open \cup var \cup unknown = ProblemsOf(N)
  BY <1>3, ProblemsFound
<1>6. unplaced = left
  BY <1>2, <1>3, NotPlacedFound
<1>7. again = AgainBy(N)
  BY <1>3, <1>4 DEF AgainBy
<1>8. ErrorsOf(N) = ProblemsOf(N) \cup twice
  BY <1>7 DEF ErrorsOf
<1> HIDE DEF open, var, unknown, unplaced, again, left, twice
<1>9. Causes = ErrorsOf(N) \cup left
  BY <1>1, <1>5, <1>6, <1>8
<1> QED
  BY <1>9 DEF left, N

LEMMA RefusedIs ==
  ASSUME Readable
  PROVE  RefusedForCause
<1>1. ~AliasRunsOn => render(source).errors = Causes
  BY RenderedIs, CausesAre DEF Legible
<1> QED
  BY <1>1 DEF RefusedForCause

(***************************************************************************)
(* The text that is compared.                                              *)
(***************************************************************************)

\* A text from which the whole is read.
Whole(text, ds, fs) ==
  /\ Says(text, ds, fs)
  /\ \A x : x \in Range(ds) <=> \E p \in DOMAIN Read : \E d \in DeclaredBy(p) : x = Plain(d)
  /\ \A x : x \in NamesOf(fs) <=> \E p \in DOMAIN Read : x \in ForwardsOf(p)

\* An include that is kept by hand.
LEMMA HandRead ==
  ASSUME Readable, ~IsTemplate(source)
  PROVE  \E ds, fs : Whole(Text(source), ds, fs)
<1> DEFINE N == Len(Read)
           texts == [p \in DOMAIN Read |-> Append(Written(Read[p]), "\n")]
           D == [p \in DOMAIN Read |-> HandSpoken(Read[p], "native")]
           F == [p \in DOMAIN Read |-> HandSpoken(Read[p], "forward")]
<1>0. Read = source /\ Legible
  <2>1. Read = source
    BY HandReadIs
  <2>2. ~AliasRunsOn
    BY <2>1 DEF AliasRunsOn, IsTemplate, IsPlaceholder
  <2> QED
    BY <2>1, <2>2 DEF Legible
<1>1. N \in Nat /\ DOMAIN Read = 1 .. N
  BY <1>0, ReadIs
<1>2. \A p \in 1 .. N : Read[p] \in HandPiece
  <2>1. \A p \in 1 .. N : Read[p] \in HandPiece \cup Placeholders
    BY <1>0, <1>1 DEF Readable, TypeOK
  <2>2. \A p \in 1 .. N : ~IsPlaceholder(Read[p])
    BY <1>0, <1>1 DEF IsTemplate
  <2> QED
    BY <2>1, <2>2, PieceKinds
<1>3. \A p \in 1 .. N :
        /\ Written(Read[p]) \in Texts
        /\ Says(Written(Read[p]) ++ One("\n"), HandSpoken(Read[p], "native"), HandSpoken(Read[p], "forward"))
        /\ \A x : x \in Range(HandSpoken(Read[p], "native")) <=> \E d \in DeclaredBy(p) : x = Plain(d)
        /\ NamesOf(HandSpoken(Read[p], "forward")) = ForwardsOf(p)
  BY <1>0, <1>1, <1>2, HandIs
<1>4. \A p \in 1 .. N : texts[p] = Written(Read[p]) ++ One("\n") /\ texts[p] \in Texts
  <2> TAKE p \in 1 .. N
  <2>1. Written(Read[p]) \in Texts
    BY <1>3
  <2>2. One("\n") \in Texts
    BY Marks, OneIs
  <2>3. texts[p] = Append(Written(Read[p]), "\n")
    BY <1>1
  <2>4. Append(Written(Read[p]), "\n") = Written(Read[p]) \o <<"\n">>
    BY <2>1 DEF Texts
  <2>5. texts[p] = Written(Read[p]) ++ One("\n")
    BY <2>3, <2>4 DEF ++, One
  <2> HIDE DEF texts
  <2> QED
    BY <2>1, <2>2, <2>5, CatIs
<1>5. texts \in Lists /\ Len(texts) = N
  <2>1. DOMAIN texts = 1 .. N
    BY <1>1
  <2>2. texts = [p \in 1 .. N |-> texts[p]]
    BY <1>1
  <2> HIDE DEF texts
  <2>3. texts \in [1 .. N -> Texts]
    BY <1>4, <2>2
  <2> QED
    BY <1>1, <2>3 DEF Lists
<1>6. \A p \in 1 .. N : /\ D[p] = HandSpoken(Read[p], "native") /\ F[p] = HandSpoken(Read[p], "forward")
                        /\ Says(texts[p], D[p], F[p])
  <2>1. \A p \in 1 .. N : D[p] = HandSpoken(Read[p], "native") /\ F[p] = HandSpoken(Read[p], "forward")
    BY <1>1
  <2> HIDE DEF texts, D, F
  <2> QED
    BY <1>3, <1>4, <2>1
<1>7. Text(source) = FlattenSeq(texts)
  BY <1>0 DEF Text
<1> HIDE DEF texts, D, F
<1>8. PICK ds, fs : Says(FlattenSeq(texts), ds, fs) /\ Range(ds) = AllOf(D, N) /\ Range(fs) = AllOf(F, N)
  <2>1. \A p \in 1 .. Len(texts) : Says(texts[p], D[p], F[p])
    BY <1>5, <1>6
  <2>2. \E ds, fs : Flattened(texts, D, F, ds, fs)
    BY <1>5, <2>1, FlattenSays
  <2> QED
    BY <1>5, <2>2 DEF Flattened
<1>9. \A x : x \in Range(ds) <=> \E p \in DOMAIN Read : \E d \in DeclaredBy(p) : x = Plain(d)
  <2>1. \A x : x \in Range(ds) <=> \E p \in 1 .. N : x \in Range(D[p])
    BY <1>8, AllOfIs
  <2>2. \A p \in 1 .. N : \A x : x \in Range(D[p]) <=> \E d \in DeclaredBy(p) : x = Plain(d)
    BY <1>3, <1>6
  <2> HIDE DEF N
  <2>3. ASSUME NEW x
        PROVE  x \in Range(ds) <=> \E p \in DOMAIN Read : \E d \in DeclaredBy(p) : x = Plain(d)
    <3>1. x \in Range(ds) <=> \E p \in 1 .. N : x \in Range(D[p])
      BY <2>1
    <3>2. \A p \in 1 .. N : x \in Range(D[p]) <=> \E d \in DeclaredBy(p) : x = Plain(d)
      BY <2>2
    <3> QED
      BY <1>1, <3>1, <3>2, Zenon
  <2> QED
    BY <2>3
<1>10. \A x : x \in NamesOf(fs) <=> \E p \in DOMAIN Read : x \in ForwardsOf(p)
  <2>1. \A f : f \in Range(fs) <=> \E p \in 1 .. N : f \in Range(F[p])
    BY <1>8, AllOfIs
  <2>2. \A x : x \in NamesOf(fs) <=> \E f \in Range(fs) : x = f.name
    BY DEF NamesOf
  <2>3. \A p \in 1 .. N : \A x : x \in ForwardsOf(p) <=> \E f \in Range(F[p]) : x = f.name
    <3>1. \A p \in 1 .. N : NamesOf(F[p]) = ForwardsOf(p)
      BY <1>3, <1>6
    <3> QED
      BY <3>1 DEF NamesOf
  <2> HIDE DEF N
  <2> QED
    BY <1>1, <2>1, <2>2, <2>3
<1> QED
  BY <1>7, <1>8, <1>9, <1>10 DEF Whole

\* What a template renders to.
LEMMA TemplateRead ==
  ASSUME Readable, Causes = {}
  PROVE  render(source).errors = {} /\ \E ds, fs : Whole(render(source).out, ds, fs)
<1>1. Legible
  <2>1. AliasRunsOn => Error("UnclosedPlaceholder", None) \in Causes
    BY DEF Causes, OneIf
  <2> QED
    BY <2>1 DEF Legible
<1>2. PICK out, ds, fs, rendered :
        Good(Len(Read), rendered, out, ds, fs) /\ render(source) = Rendered(rendered)
  BY <1>1, RenderedIs
<1>3. render(source).errors = {}
  BY <1>1, RenderedIs, CausesAre
<1>4. render(source).out = out
  <2>1. render(source).out = rendered.out
    BY <1>2 DEF Rendered
  <2>2. rendered.out = out
    BY <1>2 DEF Good, Open
  <2> QED
    BY <2>1, <2>2
<1>5. DOMAIN Read = 1 .. Len(Read)
  BY <1>1, ReadIs
<1>6. Whole(out, ds, fs)
  BY <1>2, <1>5 DEF Good, Whole
<1> QED
  BY <1>3, <1>4, <1>6

\* What the check compares.
LEMMA ComparedIs ==
  ASSUME Readable, ~IsTemplate(source) \/ Causes = {}
  PROVE  \E text, ds, fs : Whole(text, ds, fs) /\ compare_with(source) = CompareText(text)
<1>1. CASE ~IsTemplate(source)
  <2>1. compare_with(source) = CompareText(Text(source))
    BY <1>1 DEF compare_with, Compare
  <2> QED
    BY <1>1, <2>1, HandRead
<1>2. CASE IsTemplate(source) /\ Causes = {}
  <2>1. render(source).errors = {} /\ \E ds, fs : Whole(render(source).out, ds, fs)
    BY <1>2, TemplateRead
  <2>2. compare_with(source) = CompareText(render(source).out)
    BY <1>2, <2>1 DEF compare_with, Compare
  <2> QED
    BY <2>1, <2>2
<1> QED
  BY <1>1, <1>2

\* The callbacks that are not forwarded.
LEMMA NotForwardedIs ==
  NotForwarded = {c \in Callbacks : \A p \in DOMAIN Read : c \notin ForwardsOf(p)}
<1>1. \A p : \A x : x \in ForwardsOf(p) <=>
        /\ \/ Read[p].kind = "CALLBACKS"
           \/ Read[p].kind = "forward" /\ Read[p].comment = "none"
        /\ x \in IF Read[p].kind = "CALLBACKS" THEN Callbacks ELSE {Read[p].decl.name}
  BY DEF ForwardsOf
<1> QED
  BY <1>1 DEF NotForwarded

LEMMA ForwardsMissing ==
  ASSUME NEW text, NEW ds, NEW fs, Whole(text, ds, fs)
  PROVE  /\ parse(text) = ds
         /\ missing_forwards(text) = {Finding("CallbackNotForwarded", c, 0) : c \in NotForwarded}
<1>1. parse(text) = ds /\ parse_forwards(text) = fs
  BY ParseIs DEF Whole
<1>2. {f.name : f \in Range(parse_forwards(text))} = NamesOf(fs)
  BY <1>1 DEF NamesOf
<1>3. Callbacks \ NamesOf(fs) = NotForwarded
  BY NotForwardedIs DEF Whole
<1> QED
  BY <1>1, <1>2, <1>3 DEF missing_forwards

(***************************************************************************)
(* Comparing.                                                              *)
(***************************************************************************)
\* What is declared is a declaration.
LEMMA DeclaredIs ==
  ASSUME Legible, NEW d \in Declared
  PROVE  d \in Decl
<1>1. PICK p \in DOMAIN Read : d \in DeclaredBy(p)
  BY DEF Declared
<1>2. PieceRead(Read[p])
  BY ReadIs
<1>3. \A n \in Range(natives) : n \in Native /\ Derived(n) \in Decl /\ Derived(n).name \in Names
  <2>1. \A n \in Range(natives) : n \in Native
    BY DEF Legible, Readable, TypeOK, Range
  <2> QED
    BY <2>1, DerivedIs, NativeIs
<1>4. CASE Read[p] \in HandPiece
  <2>1. Read[p].kind \in {"native", "forward"} /\ Read[p].decl \in Decl
    BY <1>4 DEF HandPiece
  <2> QED
    BY <1>1, <2>1 DEF DeclaredBy, OneIf
<1>5. CASE Read[p].kind = "NATIVES" \/ (Read[p].kind = "NATIVE" /\ Read[p].alias = <<>>)
  <2>1. \E n \in Range(natives) : d = Derived(n)
    BY <1>1, <1>5 DEF DeclaredBy
  <2> QED
    BY <1>3, <2>1
<1>6. CASE Read[p].kind = "NATIVE" /\ Read[p].alias # <<>>
  <2>1. PICK n \in Range(natives) : d = Aliased(Derived(n), Read[p].alias[1]) /\ n.name = Read[p].name
    BY <1>1, <1>6 DEF DeclaredBy
  <2>2. Read[p].name \in NativeNames /\ ~(Read[p] \in HandPiece)
    BY <1>6, <2>1, PieceKinds DEF NativeNames, IsPlaceholder
  <2>3. PICK a \in Names : Read[p].alias = One(a)
    BY <1>2, <1>6, <2>2 DEF PieceRead
  <2>4. Read[p].alias[1] = a
    BY <2>3 DEF One
  <2>5. Aliased(Derived(n), a) \in Decl
    BY <1>3, AliasedIs
  <2> QED
    BY <2>1, <2>4, <2>5
<1>7. CASE Read[p].kind \in {"CALLBACKS", "VAR", "UNCLOSED"}
  BY <1>1, <1>7 DEF DeclaredBy
<1>8. \/ Read[p] \in HandPiece
      \/ Read[p].kind \in {"NATIVES", "CALLBACKS", "VAR", "UNCLOSED"} \/ Read[p].kind = "NATIVE"
  BY <1>2 DEF PieceRead
<1> QED
  BY <1>4, <1>5, <1>6, <1>7, <1>8

\* What there is to find of declaration d and the native n behind it.
Differs(d, n, f) ==
  \/ d.tag # tag_of(n.returns) /\ f = Finding("ReturnTag", d.name, 0)
  \/ ~d.variadic /\ Len(d.arguments) # Len(n.args) /\ f = Finding("Arity", d.name, 0)
  \/ \E j \in DOMAIN d.arguments \cap DOMAIN n.args :
       /\ Shape(d.arguments[j]) # Shape(arg_decl(n.args[j]))
       /\ f = Finding("ArgumentShape", d.name, j)

LEMMA MismatchesAre ==
  ASSUME NEW d \in Decl, NEW n \in Native, NEW f
  PROVE  f \in Mismatches(Plain(d), Plain(Derived(n))) <=> Differs(d, n, f)
<1> DEFINE x == Plain(d)
           y == Plain(Derived(n))
<1>1. /\ x.name = d.name /\ x.tag = d.tag /\ x.variadic = d.variadic
      /\ DOMAIN x.arguments = DOMAIN d.arguments
      /\ \A j \in DOMAIN d.arguments : x.arguments[j] = Shape(d.arguments[j])
  BY DEF Plain
<1>2. /\ y.tag = tag_of(n.returns)
      /\ DOMAIN y.arguments = DOMAIN n.args
      /\ \A j \in DOMAIN n.args : y.arguments[j] = Shape(arg_decl(n.args[j]))
  BY DerivedIs DEF Plain
<1>3. Len(x.arguments) = Len(d.arguments) /\ Len(y.arguments) = Len(n.args)
  <2>1. d.arguments \in Seq(Argument) /\ n.args \in Seq(ArgumentSpec)
    BY NativeIs DEF Decl
  <2>2. x.arguments = [j \in 1 .. Len(d.arguments) |-> Shape(d.arguments[j])]
    BY <2>1 DEF Plain
  <2>3. Len(Derived(n).arguments) = Len(n.args) /\ DOMAIN Derived(n).arguments = DOMAIN n.args
    BY DerivedIs
  <2>4. y.arguments = [j \in 1 .. Len(n.args) |-> Shape(Derived(n).arguments[j])]
    BY <2>1, <2>3 DEF Plain
  <2>5. Len(d.arguments) \in Nat /\ Len(n.args) \in Nat
    BY <2>1
  <2> HIDE DEF x, y
  <2> QED
    BY <2>2, <2>4, <2>5
<1> HIDE DEF x, y
<1> DEFINE tag == OneIf(x.tag # y.tag, Finding("ReturnTag", x.name, 0))
           arity == OneIf(~x.variadic /\ Len(x.arguments) # Len(y.arguments), Finding("Arity", x.name, 0))
           shape == {Finding("ArgumentShape", x.name, j) :
                       j \in {k \in DOMAIN x.arguments \cap DOMAIN y.arguments : x.arguments[k] # y.arguments[k]}}
<1>4. Mismatches(x, y) = tag \cup arity \cup shape
  BY DEF Mismatches
<1>5. f \in tag <=> d.tag # tag_of(n.returns) /\ f = Finding("ReturnTag", d.name, 0)
  BY <1>1, <1>2 DEF OneIf
<1>6. f \in arity <=> ~d.variadic /\ Len(d.arguments) # Len(n.args) /\ f = Finding("Arity", d.name, 0)
  BY <1>1, <1>3 DEF OneIf
<1>7. f \in shape <=> \E j \in DOMAIN d.arguments \cap DOMAIN n.args :
                        /\ Shape(d.arguments[j]) # Shape(arg_decl(n.args[j]))
                        /\ f = Finding("ArgumentShape", d.name, j)
  BY <1>1, <1>2
<1> HIDE DEF tag, arity, shape
<1>8. f \in Mismatches(x, y) <=> Differs(d, n, f)
  BY <1>4, <1>5, <1>6, <1>7 DEF Differs
<1> QED
  BY <1>8 DEF x, y

\* Findings on both sides, by what they are about.
Lacking(f) == \E n \in Range(natives) : /\ \A d \in Declared : n.name # implementing(d)
                                        /\ f = Finding("MissingFromInclude", n.name, 0)
Unknown(f) == \E d \in Declared : /\ \A n \in Range(natives) : n.name # implementing(d)
                                  /\ f = Finding("NotRegistered", d.name, 0)
Different(f) == \E d \in Declared : \E n \in Range(natives) :
                  n.name = implementing(d) /\ ~n.raw /\ Differs(d, n, f)

LEMMA DriftIs ==
  ASSUME Readable, NEW f
  PROVE  f \in Drift <=> Lacking(f) \/ Unknown(f) \/ Different(f)
<1> DEFINE stands(d, n) == n.name = IF d.implemented_by = None THEN d.name ELSE d.implemented_by
           behind(d) == {n \in Range(natives) : stands(d, n)}
           known == {k \in Declared \X Range(natives) : stands(k[1], k[2]) /\ ~k[2].raw}
           differs(d, n, i) == /\ i \in DOMAIN d.arguments /\ i \in DOMAIN n.args
                               /\ Shapes(d.arguments)[i] # Shapes(Derived(n).arguments)[i]
           missing == {Finding("MissingFromInclude", n.name, 0) :
                         n \in {m \in Range(natives) : \A d \in Declared : m \notin behind(d)}}
           extra == {Finding("NotRegistered", d.name, 0) : d \in {e \in Declared : behind(e) = {}}}
           tag == {Finding("ReturnTag", k[1].name, 0) : k \in {l \in known : l[1].tag # tag_of(l[2].returns)}}
           arity == {Finding("Arity", k[1].name, 0) :
                       k \in {l \in known : ~l[1].variadic /\ Len(l[1].arguments) # Len(l[2].args)}}
           shape == {Finding("ArgumentShape", k[1][1].name, k[2]) :
                       k \in {l \in known \X (1 .. MaxArgs) : differs(l[1][1], l[1][2], l[2])}}
<1>1. Drift = missing \cup extra \cup tag \cup arity \cup shape
  BY DEF Drift
<1>2. \A d, n : stands(d, n) <=> n.name = implementing(d)
  BY DEF implementing
<1> HIDE DEF stands
<1>3. f \in missing <=> Lacking(f)
  BY <1>2 DEF Lacking
<1>4. f \in extra <=> Unknown(f)
  BY <1>2 DEF Unknown
<1>5. /\ \A k \in known : /\ k[1] \in Declared /\ k[2] \in Range(natives)
                          /\ k[2].name = implementing(k[1]) /\ ~k[2].raw
      /\ \A d \in Declared : \A n \in Range(natives) :
           n.name = implementing(d) /\ ~n.raw => \E k \in known : k[1] = d /\ k[2] = n
  <2>1. \A k \in known : /\ k[1] \in Declared /\ k[2] \in Range(natives)
                        /\ k[2].name = implementing(k[1]) /\ ~k[2].raw
    BY <1>2
  <2>2. ASSUME NEW d \in Declared, NEW n \in Range(natives), n.name = implementing(d), ~n.raw
        PROVE  \E k \in known : k[1] = d /\ k[2] = n
    <3> DEFINE k == <<d, n>>
    <3>1. k[1] = d /\ k[2] = n /\ k \in Declared \X Range(natives)
      OBVIOUS
    <3> HIDE DEF k
    <3>2. k \in known
      BY <1>2, <2>2, <3>1
    <3> QED
      BY <3>1, <3>2
  <2> QED
    BY <2>1, <2>2
<1>6. f \in tag <=> \E d \in Declared : \E n \in Range(natives) :
                      /\ n.name = implementing(d) /\ ~n.raw
                      /\ d.tag # tag_of(n.returns) /\ f = Finding("ReturnTag", d.name, 0)
  <2> HIDE DEF known
  <2> QED BY <1>5
<1>7. f \in arity <=> \E d \in Declared : \E n \in Range(natives) :
                      /\ n.name = implementing(d) /\ ~n.raw
                      /\ ~d.variadic /\ Len(d.arguments) # Len(n.args) /\ f = Finding("Arity", d.name, 0)
  <2> HIDE DEF known
  <2> QED BY <1>5
<1>8. f \in shape <=> \E d \in Declared : \E n \in Range(natives) :
                      /\ n.name = implementing(d) /\ ~n.raw
                      /\ \E j \in 1 .. MaxArgs : differs(d, n, j) /\ f = Finding("ArgumentShape", d.name, j)
  <2> HIDE DEF known, differs
  <2>0. /\ \A l \in known \X (1 .. MaxArgs) : l[1] \in known /\ l[2] \in 1 .. MaxArgs
        /\ \A k \in known : \A j \in 1 .. MaxArgs : \E l \in known \X (1 .. MaxArgs) : l[1] = k /\ l[2] = j
    <3>1. ASSUME NEW k \in known, NEW j \in 1 .. MaxArgs
          PROVE  \E l \in known \X (1 .. MaxArgs) : l[1] = k /\ l[2] = j
      <4>1. <<k, j>> \in known \X (1 .. MaxArgs) /\ <<k, j>>[1] = k /\ <<k, j>>[2] = j
        OBVIOUS
      <4> QED BY <4>1
    <3> QED BY <3>1
  <2> DEFINE pairs == known \X (1 .. MaxArgs)
  <2>00. shape = {Finding("ArgumentShape", l[1][1].name, l[2]) : l \in {m \in pairs : differs(m[1][1], m[1][2], m[2])}}
    OBVIOUS
  <2> HIDE DEF pairs
  <2>1. f \in shape <=> \E k \in known : \E j \in 1 .. MaxArgs :
                          differs(k[1], k[2], j) /\ f = Finding("ArgumentShape", k[1].name, j)
    <3>1. f \in shape <=> \E l \in pairs : /\ differs(l[1][1], l[1][2], l[2])
                                         /\ f = Finding("ArgumentShape", l[1][1].name, l[2])
      BY <2>00
    <3> HIDE DEF shape
    <3> QED
      BY <2>0, <3>1 DEF pairs
  <2> HIDE DEF shape
  <2> QED BY <1>5, <2>1
<1>9. \A d \in Declared : \A n \in Range(natives) :
        (\E j \in 1 .. MaxArgs : differs(d, n, j) /\ f = Finding("ArgumentShape", d.name, j))
          <=> \E j \in DOMAIN d.arguments \cap DOMAIN n.args :
                 /\ Shape(d.arguments[j]) # Shape(arg_decl(n.args[j]))
                 /\ f = Finding("ArgumentShape", d.name, j)
  <2> TAKE d \in Declared
  <2> TAKE n \in Range(natives)
  <2>1. n \in Native /\ Len(n.args) <= MaxArgs
    BY DEF Readable, TypeOK, Range
  <2>2. n.args \in Seq(ArgumentSpec) /\ MaxArgs \in Nat
    BY <2>1, NativeIs, PawnIncludeAssumption
  <2>3. \A j \in DOMAIN n.args : j \in 1 .. MaxArgs
    BY <2>1, <2>2
  <2>4. \A j : differs(d, n, j) <=> /\ j \in DOMAIN d.arguments \cap DOMAIN n.args
                                    /\ Shape(d.arguments[j]) # Shape(arg_decl(n.args[j]))
    <3>1. \A j \in DOMAIN n.args : j \in DOMAIN Derived(n).arguments /\ Derived(n).arguments[j] = arg_decl(n.args[j])
      BY <2>1, DerivedIs
    <3>2. \A a, b : Shape(a) = Shape(b) <=> <<a.tag, a.by_reference, a.array>> = <<b.tag, b.by_reference, b.array>>
      BY DEF Shape
    <3>3. \A arguments : \A j \in DOMAIN arguments : Shapes(arguments)[j] = <<arguments[j].tag, arguments[j].by_reference, arguments[j].array>>
      BY DEF Shapes
    <3>4. ASSUME NEW j, j \in DOMAIN d.arguments, j \in DOMAIN n.args
          PROVE  Shapes(d.arguments)[j] = Shapes(Derived(n).arguments)[j]
                   <=> Shape(d.arguments[j]) = Shape(arg_decl(n.args[j]))
      <4>1. Shapes(d.arguments)[j] = <<d.arguments[j].tag, d.arguments[j].by_reference, d.arguments[j].array>>
        BY <3>4, <3>3
      <4>2. Shapes(Derived(n).arguments)[j] = <<arg_decl(n.args[j]).tag, arg_decl(n.args[j]).by_reference, arg_decl(n.args[j]).array>>
        BY <3>4, <3>1, <3>3
      <4> QED
        BY <4>1, <4>2, <3>2
    <3> QED
      BY <3>4
  <2> HIDE DEF differs
  <2> QED
    BY <2>3, <2>4
<1> HIDE DEF missing, extra, tag, arity, shape, known, differs
<1>10. f \in tag \cup arity \cup shape <=> Different(f)
  BY <1>6, <1>7, <1>8, <1>9 DEF Different, Differs
<1> QED
  BY <1>1, <1>3, <1>4, <1>10

\* The native behind a declaration, among those that are registered.
LEMMA BehindIs ==
  ASSUME Readable, NEW d \in Declared
  PROVE  LET plugin == registered(native_decls)
             i == WithName(plugin, implementing(Plain(d)))
         IN /\ i = 0 <=> \A n \in Range(natives) : n.name # implementing(d)
            /\ i # 0 => /\ i \in DOMAIN natives /\ natives[i].name = implementing(d)
                        /\ \A n \in Range(natives) : n.name = implementing(d) => n = natives[i]
                        /\ plugin[i].shape_known = ~natives[i].raw
                        /\ ~natives[i].raw => plugin[i] = Plain(Derived(natives[i]))
<1> DEFINE plugin == registered(native_decls)
           name == implementing(Plain(d))
           i == WithName(plugin, name)
<1>1. /\ Len(plugin) = Len(natives)
      /\ \A j \in DOMAIN natives :
           /\ plugin[j].name = natives[j].name
           /\ plugin[j].shape_known = ~natives[j].raw
           /\ ~natives[j].raw => plugin[j] = Plain(Derived(natives[j]))
  BY RegisteredIs DEF Readable
<1>2. name = implementing(d)
  BY DEF implementing, Plain
<1>3. /\ Len(natives) \in Nat /\ DOMAIN natives = 1 .. Len(natives)
      /\ \A n \in Range(natives) : \E j \in DOMAIN natives : n = natives[j]
      /\ \A j \in DOMAIN natives : natives[j] \in Range(natives)
      /\ \A j, k \in DOMAIN natives : natives[j].name = natives[k].name => j = k
  BY DEF Readable, TypeOK, Range
<1> HIDE DEF plugin, name
<1>4. /\ i \in 0 .. Len(plugin)
      /\ i # 0 => plugin[i].name = name
      /\ i = 0 => \A j \in 1 .. Len(plugin) : plugin[j].name # name
  BY <1>1, <1>3, WithNameIs
<1> HIDE DEF i
<1>5. i # 0 => i \in DOMAIN natives /\ natives[i].name = implementing(d)
  BY <1>1, <1>2, <1>3, <1>4
<1>6. i = 0 <=> \A n \in Range(natives) : n.name # implementing(d)
  <2>1. i = 0 => \A j \in DOMAIN natives : natives[j].name # implementing(d)
    BY <1>1, <1>2, <1>3, <1>4
  <2> QED
    BY <1>3, <1>5, <2>1
<1>7. i # 0 => \A n \in Range(natives) : n.name = implementing(d) => n = natives[i]
  BY <1>3, <1>5
<1>8. i # 0 => /\ plugin[i].shape_known = ~natives[i].raw
               /\ ~natives[i].raw => plugin[i] = Plain(Derived(natives[i]))
  BY <1>1, <1>5
<1> QED
  BY <1>5, <1>6, <1>7, <1>8 DEF i, plugin, name

\* The check on what was read finds what both sides differ in.
LEMMA CompareIs ==
  ASSUME Legible, NEW ds, \A x : x \in Range(ds) <=> \E d \in Declared : x = Plain(d), NEW f
  PROVE  f \in compare_declarations(ds, registered(native_decls)) <=> Lacking(f) \/ Unknown(f) \/ Different(f)
<1> DEFINE plugin == registered(native_decls)
           behind(d) == WithName(plugin, implementing(d))
           missing == {r \in Range(plugin) : \A d \in Range(ds) : implementing(d) # r.name}
           extra == {d \in Range(ds) : behind(d) = 0}
           shared == {d \in Range(ds) \ extra : plugin[behind(d)].shape_known}
           lacking == {Finding("MissingFromInclude", r.name, 0) : r \in missing}
           unknown == {Finding("NotRegistered", d.name, 0) : d \in extra}
           different == UNION {Mismatches(d, plugin[behind(d)]) : d \in shared}
<1>0. Readable
  BY DEF Legible
<1>1. compare_declarations(ds, plugin) = lacking \cup unknown \cup different
  BY DEF compare_declarations
<1>2. \A d : implementing(Plain(d)) = implementing(d) /\ Plain(d).name = d.name
  BY DEF implementing, Plain
<1>3. f \in lacking <=> Lacking(f)
  <2>1. /\ DOMAIN plugin = DOMAIN natives
        /\ \A j \in DOMAIN natives : plugin[j].name = natives[j].name
    BY <1>0, RegisteredIs DEF Readable
  <2>2. f \in lacking <=> \E j \in DOMAIN natives :
                            /\ \A d \in Range(ds) : implementing(d) # plugin[j].name
                            /\ f = Finding("MissingFromInclude", plugin[j].name, 0)
    BY <2>1 DEF Range
  <2>3. Lacking(f) <=> \E j \in DOMAIN natives :
                            /\ \A d \in Declared : natives[j].name # implementing(d)
                            /\ f = Finding("MissingFromInclude", natives[j].name, 0)
    BY DEF Range, Lacking
  <2>4. \A name : (\A d \in Range(ds) : implementing(d) # name) <=> \A d \in Declared : name # implementing(d)
    BY <1>2
  <2> HIDE DEF lacking, plugin
  <2> QED
    BY <2>1, <2>2, <2>3, <2>4
<1> HIDE DEF lacking, missing
<1>4. ASSUME NEW d \in Declared
      PROVE  /\ behind(Plain(d)) = 0 <=> \A n \in Range(natives) : n.name # implementing(d)
             /\ behind(Plain(d)) # 0 =>
                  /\ natives[behind(Plain(d))] \in Range(natives)
                  /\ natives[behind(Plain(d))].name = implementing(d)
                  /\ \A n \in Range(natives) : n.name = implementing(d) => n = natives[behind(Plain(d))]
                  /\ plugin[behind(Plain(d))].shape_known = ~natives[behind(Plain(d))].raw
                  /\ ~natives[behind(Plain(d))].raw => plugin[behind(Plain(d))] = Plain(Derived(natives[behind(Plain(d))]))
  BY <1>0, BehindIs DEF Range
<1> HIDE DEF plugin, behind
<1>5. f \in unknown <=> Unknown(f)
  <2>1. f \in unknown <=> \E x \in Range(ds) : behind(x) = 0 /\ f = Finding("NotRegistered", x.name, 0)
    OBVIOUS
  <2>2. f \in unknown <=> \E d \in Declared : behind(Plain(d)) = 0 /\ f = Finding("NotRegistered", d.name, 0)
    BY <1>2, <2>1
  <2> QED
    BY <1>4, <2>2 DEF Unknown
<1>6. f \in different <=> Different(f)
  <2>1. f \in different <=> \E x \in Range(ds) : /\ behind(x) # 0 /\ plugin[behind(x)].shape_known
                                                 /\ f \in Mismatches(x, plugin[behind(x)])
    OBVIOUS
  <2>2. f \in different <=> \E d \in Declared : /\ behind(Plain(d)) # 0 /\ plugin[behind(Plain(d))].shape_known
                                                /\ f \in Mismatches(Plain(d), plugin[behind(Plain(d))])
    BY <2>1
  <2> HIDE DEF different
  <2>3. ASSUME NEW d \in Declared
        PROVE  /\ behind(Plain(d)) # 0 /\ plugin[behind(Plain(d))].shape_known
               /\ f \in Mismatches(Plain(d), plugin[behind(Plain(d))])
               <=> \E n \in Range(natives) : n.name = implementing(d) /\ ~n.raw /\ Differs(d, n, f)
    <3>1. CASE behind(Plain(d)) = 0
      BY <1>4, <3>1
    <3>2. CASE behind(Plain(d)) # 0
      <4> DEFINE n == natives[behind(Plain(d))]
      <4>1. /\ n \in Range(natives) /\ n.name = implementing(d)
            /\ \A m \in Range(natives) : m.name = implementing(d) => m = n
            /\ plugin[behind(Plain(d))].shape_known <=> ~n.raw
            /\ ~n.raw => plugin[behind(Plain(d))] = Plain(Derived(n))
        BY <1>4, <3>2
      <4>2. n \in Native
        BY <1>0, <4>1 DEF Readable, TypeOK, Range
      <4>3. d \in Decl
        BY DeclaredIs
      <4> HIDE DEF n
      <4>4. f \in Mismatches(Plain(d), Plain(Derived(n))) <=> Differs(d, n, f)
        BY <4>2, <4>3, MismatchesAre
      <4> QED
        BY <3>2, <4>1, <4>4
    <3> QED
      BY <3>1, <3>2
  <2> QED
    BY <2>2, <2>3 DEF Different
<1> HIDE DEF unknown, different
<1>7. f \in compare_declarations(ds, plugin) <=> Lacking(f) \/ Unknown(f) \/ Different(f)
  BY <1>1, <1>3, <1>5, <1>6
<1> QED
  BY <1>7 DEF plugin

LEMMA FindingsIs ==
  ASSUME Readable
  PROVE  FindingsAreTheDrift
<1> SUFFICES ASSUME ~IsTemplate(source) \/ Causes = {}
             PROVE  compare_with(source) = Drift \cup {Finding("CallbackNotForwarded", c, 0) : c \in NotForwarded}
  BY DEF FindingsAreTheDrift
<1>1. PICK text, ds, fs : Whole(text, ds, fs) /\ compare_with(source) = CompareText(text)
  BY ComparedIs
<1>2. parse(text) = ds /\ missing_forwards(text) = {Finding("CallbackNotForwarded", c, 0) : c \in NotForwarded}
  BY <1>1, ForwardsMissing
<1>3. \A x : x \in Range(ds) <=> \E d \in Declared : x = Plain(d)
  BY <1>1 DEF Whole, Declared
<1>0. Legible
  <2>1. ~IsTemplate(source) => ~AliasRunsOn
    BY HandReadIs DEF AliasRunsOn, IsTemplate, IsPlaceholder
  <2>2. AliasRunsOn => Error("UnclosedPlaceholder", None) \in Causes
    BY DEF Causes, OneIf
  <2> QED
    BY <2>1, <2>2 DEF Legible
<1>4. \A f : f \in compare_declarations(ds, registered(native_decls)) <=> f \in Drift
  BY <1>0, <1>3, CompareIs, DriftIs
<1>5. compare_declarations(ds, registered(native_decls)) = Drift
  <2> DEFINE found == compare_declarations(ds, registered(native_decls))
  <2>1. \E A, B, C : found = A \cup B \cup C
    BY DEF compare_declarations
  <2>2. \E A, B, C, D, E : Drift = A \cup B \cup C \cup D \cup E
    BY DEF Drift
  <2> QED
    BY <1>4, <2>1, <2>2
<1> QED
  BY <1>1, <1>2, <1>5 DEF CompareText

(***************************************************************************)
(* The theorems.                                                           *)
(***************************************************************************)

\* Whatever the author and the plugin's code became, and in whatever order they
\* were edited, the check finds all that a script that includes the file would be
\* told otherwise than the plugin does, and nothing else: what #[native] derives
\* for each native, what a template renders to and what a file kept by hand says
\* are read back as what they were written from, defaults, varargs, aliases and
\* comments included.  Where a size expression is written in the middle of a list
\* this is not so, see PawnIncludeSizes.
THEOREM FindingsHold == SizeEndsList => (Spec => []FindingsAreTheDrift)
<1> SUFFICES ASSUME SizeEndsList
             PROVE  Spec => []FindingsAreTheDrift
  OBVIOUS
<1>1. IInv => FindingsAreTheDrift
  BY ReadableIs, FindingsIs
<1> QED
  BY <1>1, TypesHold, PTL

\* Rendering refuses a template for each native its placeholders do not place, do
\* not know or declare twice under one name, for each unknown placeholder, those
\* that another's }} closes included, for a {{ with no }} behind it, and for nothing
\* else: what is declared by hand beside them is not looked at.  The exception is a
\* known native whose alias runs on to another's }}, see PawnIncludeOpen.
THEOREM RefusalsHold == SizeEndsList => (Spec => []RefusedForCause)
<1> SUFFICES ASSUME SizeEndsList
             PROVE  Spec => []RefusedForCause
  OBVIOUS
<1>1. IInv => RefusedForCause
  BY ReadableIs, RefusedIs
<1> QED
  BY <1>1, TypesHold, PTL
=============================================================================
