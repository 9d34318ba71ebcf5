---------------------------- MODULE LogFile_proofs ----------------------------
(***************************************************************************)
(* Theorems about LogFile, for any number of lines, restarts and archives, *)
(* any settings and any failures: what is missing from the file is         *)
(* reported, an archive's index tells its age (between plain and           *)
(* compressed archives while no shift was cut short), a rotation that      *)
(* keeps everything loses nothing, and one that keeps N archives gives up  *)
(* a line only for N newer files.                                          *)
(***************************************************************************)
EXTENDS LogFile, FiniteSetTheorems, WellFoundedInduction, TLAPS

(***************************************************************************)
(* Lemmas on numbers: what the model defines by recursion (SizeOf) and by  *)
(* CHOOSE (IndexAfter) exists.                                             *)
(***************************************************************************)

LessThan == {pair \in Nat \X Nat : pair[1] < pair[2]}

\* A set of numbers has a least one.
LEMMA LeastNumber ==
  ASSUME NEW S \in SUBSET Nat, S # {}
  PROVE  \E i \in S : \A j \in S : i <= j
  <1>1. OpToRel(<, Nat) = LessThan
    BY DEF OpToRel, LessThan
  <1>2. IsWellFoundedOn(LessThan, Nat)
    BY <1>1, NatLessThanWellFounded
  <1>3. PICK i \in S : \A j \in S : ~(<<j, i>> \in LessThan)
    BY <1>2, WFMin
  <1>4. ASSUME NEW j \in S
        PROVE  i <= j
    <2>1. <<j, i>> \notin LessThan /\ <<j, i>> \in Nat \X Nat /\ i \in Nat /\ j \in Nat
      BY <1>3
    <2>2. ~(j < i)
      BY <2>1 DEF LessThan
    <2>3. QED
      BY <2>1, <2>2
  <1>5. QED
    BY <1>4

\* Induction, for sets.
LEMMA EveryNumber ==
  ASSUME NEW S \in SUBSET Nat, 0 \in S, \A n \in S : n + 1 \in S
  PROVE  S = Nat
  <1>1. ASSUME Nat \ S # {}
        PROVE  FALSE
    <2>1. PICK i \in Nat \ S : \A j \in Nat \ S : i <= j
      BY <1>1, LeastNumber
    <2>2. i # 0 /\ i - 1 \in Nat /\ (i - 1) + 1 = i /\ ~(i <= i - 1)
      BY <2>1
    <2>3. i - 1 \in S
      BY <2>1, <2>2
    <2>4. QED
      BY <2>1, <2>2, <2>3
  <1>2. QED
    BY <1>1

\* The sums of the first weights, up to n of them.
Sums(w, n, g) == g \in [0 .. n -> Nat] /\ g[0] = 0 /\ \A i \in 1 .. n : g[i] = g[i - 1] + w[i]

LEMMA SumsExist ==
  ASSUME NEW w \in [Nat -> Nat], NEW n \in Nat
  PROVE  \E g : Sums(w, n, g)
  <1> DEFINE S == {k \in Nat : \E g : Sums(w, k, g)}
  <1>1. 0 \in S
    <2>1. Sums(w, 0, [i \in 0 .. 0 |-> 0])
      BY DEF Sums
    <2>2. QED
      BY <2>1
  <1>2. ASSUME NEW k \in S
        PROVE  k + 1 \in S
    <2>1. PICK g : Sums(w, k, g)
      OBVIOUS
    <2>0. k \in Nat /\ k + 1 \in Nat /\ k \in 0 .. k
      OBVIOUS
    <2> DEFINE h == [i \in 0 .. k + 1 |-> IF i = k + 1 THEN g[k] + w[k + 1] ELSE g[i]]
    <2>2. w[k + 1] \in Nat /\ g[k] \in Nat /\ g[k] + w[k + 1] \in Nat
      <3>1. w[k + 1] \in Nat
        BY <2>0
      <3>2. g[k] \in Nat
        BY <2>0, <2>1 DEF Sums
      <3>3. QED
        BY <3>1, <3>2
    <2>3. h \in [0 .. k + 1 -> Nat]
      <3>1. \A i \in 0 .. k + 1 : i = k + 1 \/ i \in 0 .. k
        BY <2>0
      <3>2. \A i \in 0 .. k + 1 : h[i] \in Nat
        BY <2>0, <2>1, <2>2, <3>1 DEF Sums
      <3>3. QED
        BY <3>2
    <2>4. h[0] = 0
      BY <2>1, <2>2 DEF Sums
    <2>5. ASSUME NEW i \in 1 .. k + 1
          PROVE  h[i] = h[i - 1] + w[i]
      <3>1. /\ i \in 0 .. k + 1 /\ i - 1 \in 0 .. k + 1 /\ i - 1 # k + 1
            /\ i = k + 1 => i - 1 = k
            /\ i # k + 1 => i \in 1 .. k
        BY <2>0
      <3>2. h[i - 1] = g[i - 1]
        BY <3>1
      <3>3. CASE i = k + 1
        BY <3>1, <3>2, <3>3
      <3>4. CASE i # k + 1
        BY <2>1, <3>1, <3>2, <3>4 DEF Sums
      <3>5. QED
        BY <3>3, <3>4
    <2>6. Sums(w, k + 1, h)
      BY <2>3, <2>4, <2>5 DEF Sums
    <2> HIDE DEF h
    <2>7. QED
      BY <2>2, <2>6
  <1>3. S = Nat
    <2> HIDE DEF S
    <2>1. S \in SUBSET Nat
      BY DEF S
    <2>2. QED
      BY <1>1, <1>2, <2>1, EveryNumber
  <1>4. QED
    BY <1>3

LEMMA SumsAgree ==
  ASSUME NEW w \in [Nat -> Nat], NEW n \in Nat, NEW m \in Nat, NEW g, NEW h,
         Sums(w, n, g), Sums(w, m, h), NEW i \in Nat, i <= n, i <= m
  PROVE  g[i] = h[i]
  <1> DEFINE S == {k \in Nat : k <= n /\ k <= m => g[k] = h[k]}
  <1>1. 0 \in S
    BY DEF Sums
  <1>2. ASSUME NEW k \in S
        PROVE  k + 1 \in S
    <2>1. CASE k + 1 <= n /\ k + 1 <= m
      <3>1. k \in Nat /\ g[k] = h[k] /\ k + 1 \in 1 .. n /\ k + 1 \in 1 .. m /\ (k + 1) - 1 = k
        BY <2>1
      <3>2. g[k + 1] = g[k] + w[k + 1] /\ h[k + 1] = h[k] + w[k + 1]
        BY <3>1 DEF Sums
      <3>3. QED
        BY <3>1, <3>2
    <2>2. CASE ~(k + 1 <= n /\ k + 1 <= m)
      BY <2>2
    <2>3. QED
      BY <2>1, <2>2
  <1>3. S = Nat
    <2> HIDE DEF S
    <2>1. S \in SUBSET Nat
      BY DEF S
    <2>2. QED
      BY <1>1, <1>2, <2>1, EveryNumber
  <1>4. QED
    BY <1>3

\* The equation of SizeOf's total has a solution, and its values are numbers.
LEMMA SumsSolve ==
  ASSUME NEW w \in [Nat -> Nat]
  PROVE  \E f : f = [n \in Nat |-> IF n = 0 THEN 0 ELSE f[n - 1] + w[n]]
  <1> DEFINE G(n) == CHOOSE g : Sums(w, n, g)
             f == [n \in Nat |-> G(n)[n]]
  <1>1. \A n \in Nat : Sums(w, n, G(n))
    BY SumsExist
  <1> HIDE DEF G
  <1>2. f[0] = 0
    BY <1>1 DEF Sums
  <1>3. ASSUME NEW n \in Nat, n # 0
        PROVE  f[n] = f[n - 1] + w[n]
    <2>1. n - 1 \in Nat /\ n - 1 <= n /\ n \in 1 .. n
      BY <1>3
    <2>2. G(n)[n] = G(n)[n - 1] + w[n]
      BY <1>1, <2>1 DEF Sums
    <2>3. G(n)[n - 1] = G(n - 1)[n - 1]
      BY <1>1, <2>1, SumsAgree
    <2>4. QED
      BY <2>1, <2>2, <2>3
  <1>4. f = [n \in Nat |-> IF n = 0 THEN 0 ELSE f[n - 1] + w[n]]
    BY <1>2, <1>3
  <1>5. QED
    BY <1>4

LEMMA SumsAreNumbers ==
  ASSUME NEW w \in [Nat -> Nat], NEW f,
         f = [n \in Nat |-> IF n = 0 THEN 0 ELSE f[n - 1] + w[n]], NEW n \in Nat
  PROVE  f[n] \in Nat /\ ((\A k \in Nat : w[k] = 0) => f[n] = 0)
  <1> DEFINE P(k) == f[k] \in Nat /\ ((\A m \in Nat : w[m] = 0) => f[k] = 0)
             S == {k \in Nat : P(k)}
  <1>1. \A k \in Nat : f[k] = IF k = 0 THEN 0 ELSE f[k - 1] + w[k]
    OBVIOUS
  <1>2. 0 \in S
    BY <1>1
  <1>3. ASSUME NEW k \in S
        PROVE  k + 1 \in S
    <2>1. k + 1 \in Nat /\ k + 1 # 0 /\ (k + 1) - 1 = k /\ P(k) /\ w[k + 1] \in Nat
      OBVIOUS
    <2>2. f[k + 1] = f[k] + w[k + 1]
      BY <1>1, <2>1
    <2>3. QED
      BY <2>1, <2>2
  <1>4. S = Nat
    <2> HIDE DEF S
    <2>1. S \in SUBSET Nat
      BY DEF S
    <2>2. QED
      BY <1>2, <1>3, <2>1, EveryNumber
  <1>5. QED
    BY <1>4

\* What SizeOf sums up is a number, and 0 for a file without lines.
LEMMA SizeIsNumber ==
  ASSUME NEW lines \in SUBSET Line
  PROVE  SizeOf(lines) \in Nat /\ (lines = {} => SizeOf(lines) = 0)
  <1> DEFINE w == [n \in Nat |-> IF n \in lines THEN LineBytes[n] ELSE 0]
             Total(f) == f = [n \in Nat |-> IF n = 0 THEN 0
                              ELSE f[n - 1] + (IF n \in lines THEN LineBytes[n] ELSE 0)]
             total == CHOOSE f : Total(f)
  <1>1. w \in [Nat -> Nat] /\ MaxLines \in Nat
    BY LogFileAssumption DEF Line
  <1>2. \A f : Total(f) <=> f = [n \in Nat |-> IF n = 0 THEN 0 ELSE f[n - 1] + w[n]]
    OBVIOUS
  <1>3. Total(total)
    <2>1. \E f : Total(f)
      <3> HIDE DEF w, Total
      <3>1. QED
        BY <1>1, <1>2, SumsSolve
    <2> HIDE DEF Total
    <2>2. QED
      BY <2>1
  <1>4. SizeOf(lines) = total[MaxLines]
    BY DEF SizeOf
  <1>5. lines = {} => \A n \in Nat : w[n] = 0
    OBVIOUS
  <1> HIDE DEF w, total, Total
  <1>6. QED
    BY <1>1, <1>2, <1>3, <1>4, <1>5, SumsAreNumbers

\* find_next_archive_index returns the index after the last.
LEMMA IndexAfterLast ==
  ASSUME NEW n \in Nat, n <= MaxLines, NEW S \in SUBSET (1 .. n)
  PROVE  IndexAfter(S) \in 1 .. n + 1 /\ \A i \in S : i < IndexAfter(S)
  <1> DEFINE P(k) == (\A i \in S : i < k) /\ (k = 1 \/ k - 1 \in S)
  <1>1. \E k \in 1 .. n + 1 : P(k)
    <2>1. CASE S = {}
      BY <2>1
    <2>2. CASE S # {}
      <3> DEFINE T == {k \in Nat : \A i \in S : i < k}
      <3>1. n + 1 \in T
        OBVIOUS
      <3>2. PICK k \in T : \A j \in T : k <= j
        <4>1. T \in SUBSET Nat /\ T # {}
          BY <3>1
        <4> HIDE DEF T
        <4>2. QED
          BY <4>1, LeastNumber
      <3>3. k \in Nat /\ k <= n + 1 /\ k # 0
        <4>1. k \in Nat /\ k <= n + 1 /\ \A i \in S : i < k
          BY <3>1, <3>2
        <4>2. PICK i : i \in S
          BY <2>2
        <4>3. i \in 1 .. n /\ i < k
          BY <4>1, <4>2
        <4>4. QED
          BY <4>1, <4>3
      <3>4. k - 1 \in Nat /\ ~(k <= k - 1)
        BY <3>3
      <3>5. k - 1 \notin T
        BY <3>2, <3>4
      <3>6. PICK i \in S : ~(i < k - 1)
        BY <3>4, <3>5
      <3>7. i \in Nat /\ i < k
        BY <3>2
      <3>8. i = k - 1
        BY <3>3, <3>6, <3>7
      <3>9. QED
        BY <3>2, <3>3, <3>8
    <2>3. QED
      BY <2>1, <2>2
  <1>2. \A k \in 1 .. n + 1 : k \in 1 .. MaxLines + 1
    BY LogFileAssumption
  <1>3. PICK k \in 1 .. MaxLines + 1 : P(k)
    BY <1>1, <1>2
  <1>4. P(IndexAfter(S)) /\ IndexAfter(S) \in 1 .. MaxLines + 1
    BY <1>3 DEF IndexAfter
  <1>5. IndexAfter(S) <= n + 1
    BY <1>4, LogFileAssumption
  <1>6. QED
    BY <1>4, <1>5, LogFileAssumption

(***************************************************************************)
(* Lemmas on the files of a directory.                                     *)
(***************************************************************************)

LEMMA WithIs ==
  ASSUME NEW f, NEW i, NEW x
  PROVE  /\ DOMAIN With(f, i, x) = DOMAIN f \cup {i}
         /\ With(f, i, x)[i] = x
         /\ \A k \in DOMAIN f : k # i => With(f, i, x)[k] = f[k]
  BY DEF With

LEMMA WithoutIs ==
  ASSUME NEW f, NEW i
  PROVE  /\ DOMAIN Without(f, i) = DOMAIN f \ {i}
         /\ \A k \in DOMAIN f : k # i => Without(f, i)[k] = f[k]
  BY DEF Without

LEMMA OpenedIs ==
  /\ DOMAIN Opened = DOMAIN plain \cup {0}
  /\ Opened[0] = IF 0 \in DOMAIN plain THEN plain[0] ELSE {}
  /\ \A k \in DOMAIN plain : Opened[k] = plain[k]
  <1>1. CASE 0 \in DOMAIN plain
    BY <1>1 DEF Opened
  <1>2. CASE 0 \notin DOMAIN plain
    BY <1>2 DEF Opened, With
  <1>3. QED
    BY <1>1, <1>2

(***************************************************************************)
(* The invariant.                                                          *)
(***************************************************************************)

Files(f) == DOMAIN f \subseteq Nat /\ \A i \in DOMAIN f : f[i] \subseteq Line

\* The settings a rotation goes by, and the archive it has made.
Underway ==
  /\ rotation.keep > 0 => rotation.on
  /\ at \in {"drop", "shift"} => rotation.keep > 0
  /\ at \in {"create", "copy", "unlink"} =>
       /\ Style \in styles
       /\ index \in DOMAIN plain /\ index > 0
       /\ Style = "shift" => index = 1
       /\ Style = "append" => index + 1 = next_archive_index
  /\ at = "create" /\ Style = "append" => index \notin DOMAIN gz
  /\ at = "copy" => index \in DOMAIN gz /\ gz[index] = {}
  /\ at = "unlink" => index \in DOMAIN gz /\ gz[index] = plain[index]

\* Indices are no more than the lines there were to rotate for, and an archive
\* that is appended comes after all there are.
Numbered ==
  /\ at \notin {"setup", "idle"} => line > 0
  /\ \A i \in DOMAIN plain \cup DOMAIN gz :
       /\ i <= line
       /\ at \in {"mkdir", "drop"} => i < line
       /\ at = "shift" /\ i <= index => i < line
  /\ at # "setup" =>
       /\ next_archive_index > 0 /\ next_archive_index <= line + 1
       /\ at \in {"mkdir", "drop", "shift", "archive"} => next_archive_index <= line
       /\ rotation.keep = 0 => \A i \in DOMAIN plain \cup DOMAIN gz : i < next_archive_index

\* Lines are written in turn, the active file is the newest, and so is the
\* archive that is about to be compressed.
Ages ==
  /\ \A f \in {plain, gz} : \A i \in DOMAIN f : \A l \in f[i] :
       l <= line /\ (at \notin {"setup", "idle"} => l < line)
  /\ 0 \in DOMAIN plain =>
       /\ \A j \in DOMAIN plain : j # 0 => Before(plain, j, plain, 0)
       /\ \A j \in DOMAIN gz : Before(gz, j, plain, 0)
  /\ at \in {"create", "copy"} => \A j \in DOMAIN gz : Before(gz, j, plain, index)

Falling(f) == \A i, j \in DOMAIN f : i < j => Before(f, j, f, i)
Rising(f) == \A i, j \in DOMAIN f : 0 < i /\ i < j => Before(f, i, f, j)

Ordered ==
  /\ styles \subseteq {"shift"} => Falling(plain) /\ Falling(gz)
  /\ styles \subseteq {"append"} => Rising(plain) /\ Rising(gz)

Reported ==
  /\ missed # {} => file_write_reported
  /\ at \notin {"setup", "idle", "write"} => ~file
  /\ at \in {"idle", "write"} /\ ~file => file_write_reported

LogInv == TypeOK /\ Underway /\ Numbered /\ Ages /\ Ordered /\ Reported

LEMMA LogInit == Init => LogInv
  <1> SUFFICES ASSUME Init
               PROVE  LogInv
    OBVIOUS
  <1>1. DOMAIN plain = {} /\ DOMAIN gz = {}
    BY DEF Init
  <1>2. TypeOK
    <2>1. rotation \in [on : BOOLEAN, max_bytes : Nat, keep : Nat]
      BY LogFileAssumption DEF Init, NewConfig
    <2>2. line \in 0 .. MaxLines /\ restarts \in 0 .. MaxRestarts
      BY LogFileAssumption DEF Init
    <2>3. QED
      BY <1>1, <2>1, <2>2 DEF Init, TypeOK, Places
  <1>3. Underway /\ Numbered /\ Ages /\ Ordered /\ Reported
    BY <1>1 DEF Init, Underway, Numbered, Ages, Ordered, Falling, Rising, Reported, NewConfig
  <1>4. QED
    BY <1>2, <1>3 DEF LogInv

\* The builder's settings and the environment's.
LEMMA ConfigureKeeps ==
  ASSUME LogInv, Configure
  PROVE  LogInv'
  <1> DEFINE Config(r) == r \in [on : BOOLEAN, max_bytes : Nat, keep : Nat] /\ (r.keep > 0 => r.on)
  <1>1. rotation' \in [on : BOOLEAN, max_bytes : Nat, keep : Nat] /\ (rotation'.keep > 0 => rotation'.on)
    <2>1. Config(rotation) /\ Config(NoRotation)
      BY LogFileAssumption DEF LogInv, TypeOK, Underway, NoRotation
    <2>2. \A r, b : Config(r) /\ b \in Nat => Config(RotationSize(r, b))
      BY <2>1 DEF RotationSize
    <2>3. \A r, k : Config(r) /\ k \in Nat => Config(RotationKeep(r, k))
      BY DEF RotationKeep
    <2>4. Sizes \subseteq Nat /\ Keeps \subseteq Nat
      BY LogFileAssumption
    <2> HIDE DEF Config
    <2>5. \A b \in Sizes \cup {Unset}, k \in Keeps \cup {Unset}, off \in BOOLEAN :
            Config(FromEnv(rotation, b, k, off))
      BY <2>1, <2>2, <2>3, <2>4 DEF FromEnv
    <2>6. Config(rotation')
      BY <2>1, <2>2, <2>3, <2>4, <2>5 DEF Configure
    <2>7. QED
      BY <2>6 DEF Config
  <1>2. /\ at = "setup" /\ UNCHANGED <<disk, compress, at, line, index, state, history>>
    BY DEF Configure
  <1>3. TypeOK'
    BY <1>1, <1>2 DEF LogInv, Configure, TypeOK, Line, Places, disk, config, state, history
  <1>4. Underway'
    BY <1>1, <1>2 DEF LogInv, Configure, TypeOK, Underway, Style, disk, config, state, history
  <1>5. Numbered'
    BY <1>1, <1>2 DEF LogInv, Configure, TypeOK, Numbered, disk, config, state, history
  <1>6. Ages'
    BY <1>1, <1>2 DEF LogInv, Configure, TypeOK, Ages, Before, disk, config, state, history
  <1>7. Ordered'
    BY <1>1, <1>2 DEF LogInv, Configure, TypeOK, Ordered, Falling, Rising, Before, disk, config, state, history
  <1>8. Reported'
    BY <1>1, <1>2 DEF LogInv, Configure, TypeOK, Reported, disk, config, state, history
  <1>9. QED
    BY <1>3, <1>4, <1>5, <1>6, <1>7, <1>8 DEF LogInv

\* compress_archives.
LEMMA CompressKeeps ==
  ASSUME LogInv, CompressArchives
  PROVE  LogInv'
  <1>1. TypeOK'
    BY DEF LogInv, CompressArchives, TypeOK, Line, Places, disk, config, state, history
  <1>2. Underway'
    BY DEF LogInv, CompressArchives, TypeOK, Underway, Style, disk, config, state, history
  <1>3. Numbered'
    BY DEF LogInv, CompressArchives, TypeOK, Numbered, disk, config, state, history
  <1>4. Ages'
    BY DEF LogInv, CompressArchives, TypeOK, Ages, Before, disk, config, state, history
  <1>5. Ordered'
    BY DEF LogInv, CompressArchives, TypeOK, Ordered, Falling, Rising, Before, disk, config, state, history
  <1>6. Reported'
    BY DEF LogInv, CompressArchives, TypeOK, Reported, disk, config, state, history
  <1>7. QED
    BY <1>1, <1>2, <1>3, <1>4, <1>5, <1>6 DEF LogInv

\* Files hold lines, which are numbers.
LEMMA LinesAreNumbers ==
  ASSUME LogInv
  PROVE  /\ line \in Nat
         /\ DOMAIN plain \subseteq Nat /\ DOMAIN gz \subseteq Nat
         /\ \A i \in DOMAIN plain : plain[i] \subseteq Line /\ \A l \in plain[i] : l \in Nat /\ l <= line
         /\ \A i \in DOMAIN gz : gz[i] \subseteq Line /\ \A l \in gz[i] : l \in Nat /\ l <= line
  BY LogFileAssumption DEF LogInv, TypeOK, Ages, Line

\* A line is taken up, and a rotation begun if the file has no room.
LEMMA LogKeeps ==
  ASSUME LogInv, Log
  PROVE  LogInv'
  <1>1. line \in Nat /\ line + 1 \in Line /\ line + 1 > 0 /\ MaxLines \in Nat
    BY LogFileAssumption DEF LogInv, TypeOK, Log, Line
  <1>2. TypeOK'
    <2>1. (at' = "mkdir" /\ file' = FALSE) \/ (at' = "write" /\ file' = file)
      BY DEF Log
    <2>2. file \in BOOLEAN
      BY DEF LogInv, TypeOK
    <2>3. file' \in BOOLEAN /\ (file' => file)
      <3>1. CASE file' = FALSE
        BY <3>1
      <3>2. CASE file' = file
        BY <2>2, <3>2, Zenon
      <3>3. QED
        BY <2>1, <3>1, <3>2
    <2>4. line' \in 0 .. MaxLines /\ at' \in Places
      BY <1>1, <2>1 DEF Log, Line, Places
    <2>5. UNCHANGED <<disk, config, index, current_size, next_archive_index,
                     file_write_reported, history>>
      BY DEF Log
    <2>6. QED
      BY <2>3, <2>4, <2>5 DEF LogInv, TypeOK, disk, config, history
  <1>3. Underway'
    BY <1>1 DEF LogInv, Log, TypeOK, Underway, Style, disk, config, state, history
  <1>4. Numbered'
    BY <1>1 DEF LogInv, Log, TypeOK, Numbered, disk, config, state, history
  <1>5. Ages'
    BY <1>1, LinesAreNumbers DEF LogInv, Log, Ages, Before, disk, config, state, history
  <1>6. Ordered'
    BY <1>1 DEF LogInv, Log, TypeOK, Ordered, Falling, Rising, Before, disk, config, state, history
  <1>7. Reported'
    BY <1>1 DEF LogInv, Log, TypeOK, Reported, disk, config, state, history
  <1>8. QED
    BY <1>2, <1>3, <1>4, <1>5, <1>6, <1>7 DEF LogInv

\* The directory of the archives.
LEMMA DirectoryKeeps ==
  ASSUME LogInv, CreateDirectory
  PROVE  LogInv'
  <1>1. TypeOK'
    BY DEF LogInv, CreateDirectory, TypeOK, Line, Places, disk, config, state, history
  <1>2. Underway'
    BY DEF LogInv, CreateDirectory, TypeOK, Underway, Style, disk, config, state, history
  <1>3. Numbered'
    BY DEF LogInv, CreateDirectory, TypeOK, Numbered, disk, config, state, history
  <1>4. Ages'
    BY DEF LogInv, CreateDirectory, TypeOK, Ages, Before, disk, config, state, history
  <1>5. Ordered'
    BY DEF LogInv, CreateDirectory, TypeOK, Ordered, Falling, Rising, Before, disk, config, state, history
  <1>6. Reported'
    BY DEF LogInv, CreateDirectory, TypeOK, Reported, disk, config, state, history
  <1>7. QED
    BY <1>1, <1>2, <1>3, <1>4, <1>5, <1>6 DEF LogInv

\* The last archive is moved.
LEMMA ShiftEndsKeeps ==
  ASSUME LogInv, ShiftEnds
  PROVE  LogInv'
  <1>1. TypeOK'
    BY DEF LogInv, ShiftEnds, TypeOK, Line, Places, disk, config, state, history
  <1>2. Underway'
    BY DEF LogInv, ShiftEnds, TypeOK, Underway, Style, disk, config, state, history
  <1>3. Numbered'
    BY DEF LogInv, ShiftEnds, TypeOK, Numbered, disk, config, state, history
  <1>4. Ages'
    BY DEF LogInv, ShiftEnds, TypeOK, Ages, Before, disk, config, state, history
  <1>5. Ordered'
    BY DEF LogInv, ShiftEnds, TypeOK, Ordered, Falling, Rising, Before, disk, config, state, history
  <1>6. Reported'
    BY DEF LogInv, ShiftEnds, TypeOK, Reported, disk, config, state, history
  <1>7. QED
    BY <1>1, <1>2, <1>3, <1>4, <1>5, <1>6 DEF LogInv

\* The server is started again.
LEMMA RestartKeeps ==
  ASSUME LogInv, Restart
  PROVE  LogInv'
  <1>1. restarts' \in 0 .. MaxRestarts
    BY LogFileAssumption DEF LogInv, TypeOK, Restart
  <1>2. rotation' = NewConfig /\ NewConfig \in [on : BOOLEAN, max_bytes : Nat, keep : Nat] /\ NewConfig.on
    BY LogFileAssumption DEF Restart, NewConfig
  <1>3. TypeOK'
    BY <1>1, <1>2 DEF LogInv, Restart, TypeOK, Line, Places, disk, config, state, history
  <1>4. Underway'
    BY <1>1, <1>2 DEF LogInv, Restart, TypeOK, Underway, Style, disk, config, state, history
  <1>5. Numbered'
    BY <1>1, <1>2 DEF LogInv, Restart, TypeOK, Numbered, disk, config, state, history
  <1>6. Ages'
    BY <1>1, <1>2 DEF LogInv, Restart, TypeOK, Ages, Before, disk, config, state, history
  <1>7. Ordered'
    BY <1>1, <1>2 DEF LogInv, Restart, TypeOK, Ordered, Falling, Rising, Before, disk, config, state, history
  <1>8. Reported'
    BY <1>1, <1>2 DEF LogInv, Restart, TypeOK, Reported, disk, config, state, history
  <1>9. QED
    BY <1>3, <1>4, <1>5, <1>6, <1>7, <1>8 DEF LogInv

(***************************************************************************)
(* What a step leaves of a directory.                                      *)
(***************************************************************************)

\* Some files are gone.
Fewer(f, g) == DOMAIN g \subseteq DOMAIN f /\ \A k \in DOMAIN g : g[k] = f[k]

\* The file i, if there is one, has become j.
Moved(f, g, i, j) ==
  \/ g = f
  \/ /\ i \in DOMAIN f
     /\ DOMAIN g = (DOMAIN f \ {i}) \cup {j}
     /\ g[j] = f[i]
     /\ \A k \in DOMAIN f : k # i /\ k # j => g[k] = f[k]

\* If there is one, it has.
MovedAll(f, g, i, j) ==
  /\ i \notin DOMAIN f => g = f
  /\ i \in DOMAIN f =>
       /\ DOMAIN g = (DOMAIN f \ {i}) \cup {j}
       /\ g[j] = f[i]
       /\ \A k \in DOMAIN f : k # i /\ k # j => g[k] = f[k]

LEMMA FewerInOrder ==
  ASSUME NEW f, NEW g, Fewer(f, g)
  PROVE  /\ Falling(f) => Falling(g)
         /\ Rising(f) => Rising(g)
  BY DEF Fewer, Falling, Rising, Before

LEMMA MovedInOrder ==
  ASSUME NEW f, NEW g, DOMAIN f \subseteq Nat, NEW i \in Nat, Moved(f, g, i, i + 1)
  PROVE  /\ DOMAIN g \subseteq Nat
         /\ Falling(f) => Falling(g)
         /\ i > 0 /\ Rising(f) => Rising(g)
  <1>1. CASE g = f
    BY <1>1
  <1>2. CASE g # f
    <2>1. /\ i \in DOMAIN f
          /\ DOMAIN g = (DOMAIN f \ {i}) \cup {i + 1}
          /\ g[i + 1] = f[i]
          /\ \A k \in DOMAIN f : k # i /\ k # i + 1 => g[k] = f[k]
      BY <1>2 DEF Moved
    <2> DEFINE was(k) == IF k = i + 1 THEN i ELSE k
    <2>2. /\ \A k \in DOMAIN g : was(k) \in DOMAIN f /\ g[k] = f[was(k)]
          /\ \A k, m \in DOMAIN g : k < m => was(k) < was(m)
          /\ \A k \in DOMAIN g : i > 0 /\ k > 0 => was(k) > 0
      <3>1. DOMAIN g \subseteq Nat /\ \A k \in DOMAIN g : k # i
        BY <2>1
      <3>2. \A k \in DOMAIN g : was(k) \in DOMAIN f /\ g[k] = f[was(k)]
        BY <2>1
      <3>3. ASSUME NEW k \in DOMAIN g, NEW m \in DOMAIN g, k < m
            PROVE  was(k) < was(m)
        <4>1. k \in Nat /\ m \in Nat /\ k # i /\ m # i
          BY <3>1
        <4>2. i \in Int /\ k \in Int /\ m \in Int
          BY <4>1
        <4>3. CASE k = i + 1
          <5>1. was(k) = i /\ was(m) = m
            BY <3>3, <4>2, <4>3
          <5>2. QED
            BY <3>3, <4>2, <4>3, <5>1
        <4>4. CASE k # i + 1
          <5>1. was(k) = k
            BY <4>4
          <5>2. k < i \/ i + 1 < k
            BY <4>1, <4>2, <4>4
          <5>3. was(m) = m \/ (m = i + 1 /\ was(m) = i)
            OBVIOUS
          <5> HIDE DEF was
          <5>4. QED
            BY <3>3, <4>2, <5>1, <5>2, <5>3
        <4>5. QED
          BY <4>3, <4>4
      <3>4. \A k \in DOMAIN g : i > 0 /\ k > 0 => was(k) > 0
        BY <3>1
      <3>5. QED
        BY <3>2, <3>3, <3>4
    <2>3. DOMAIN g \subseteq Nat
      BY <2>1
    <2> HIDE DEF was
    <2>4. ASSUME Falling(f)
          PROVE  Falling(g)
      BY <2>2, <2>4 DEF Falling, Before
    <2>5. ASSUME i > 0, Rising(f)
          PROVE  Rising(g)
      <3>1. \A k, m \in DOMAIN g : 0 < k => was(k) > 0
        BY <2>2, <2>3, <2>5
      <3>2. \A k \in DOMAIN g : was(k) \in Nat
        BY <2>2
      <3>3. QED
        BY <2>2, <2>3, <2>5, <3>1, <3>2 DEF Rising, Before
    <2>6. QED
      BY <2>3, <2>4, <2>5
  <1>3. QED
    BY <1>1, <1>2

LEMMA RenamedExactly ==
  ASSUME NEW f, NEW i, NEW j, i # j
  PROVE  MovedAll(f, Renamed(f, i, j), i, j)
  <1>1. CASE i \in DOMAIN f
    <2> DEFINE g == With(f, j, f[i])
               h == Without(g, i)
    <2>1. /\ DOMAIN g = DOMAIN f \cup {j}
          /\ g[j] = f[i]
          /\ \A k \in DOMAIN f : k # j => g[k] = f[k]
      BY DEF With
    <2>2. Renamed(f, i, j) = h
      BY <1>1 DEF Renamed
    <2> HIDE DEF g
    <2>3. /\ DOMAIN h = DOMAIN g \ {i}
          /\ \A k \in DOMAIN g : k # i => h[k] = g[k]
      BY DEF Without
    <2> HIDE DEF h
    <2>4. MovedAll(f, h, i, j)
      BY <1>1, <2>1, <2>3 DEF MovedAll
    <2>5. QED
      BY <2>2, <2>4
  <1>2. CASE i \notin DOMAIN f
    BY <1>2 DEF MovedAll, Renamed
  <1>3. QED
    BY <1>1, <1>2

LEMMA RenamedMoves ==
  ASSUME NEW f, NEW i, NEW j, i # j
  PROVE  Moved(f, Renamed(f, i, j), i, j)
  <1>1. MovedAll(f, Renamed(f, i, j), i, j)
    BY RenamedExactly
  <1>2. QED
    BY <1>1 DEF Moved, MovedAll

LEMMA WithoutIsFewer ==
  ASSUME NEW f, NEW i
  PROVE  Fewer(f, Without(f, i)) /\ Fewer(f, f)
  BY WithoutIs DEF Fewer

(***************************************************************************)
(* The steps of a rotation.                                                *)
(***************************************************************************)

\* rotate_shift removes the oldest archive.
LEMMA DropKeeps ==
  ASSUME LogInv, DropOldest
  PROVE  LogInv'
  <1>1. Fewer(plain, plain') /\ Fewer(gz, gz') /\ (0 \in DOMAIN plain => 0 \in DOMAIN plain')
    <2>1. rotation.keep # 0
      BY DEF LogInv, TypeOK, Underway, DropOldest
    <2>2. \A k \in DOMAIN plain : k # rotation.keep => k \in DOMAIN Without(plain, rotation.keep)
      BY DEF Without
    <2>3. QED
      BY <2>1, <2>2, WithoutIsFewer DEF DropOldest
  <1>2. /\ at = "drop" /\ at' = "shift" /\ index' = rotation.keep - 1
        /\ UNCHANGED <<config, line, state, history>>
        /\ rotation.keep \in Nat /\ rotation.keep > 0
    BY DEF DropOldest, LogInv, TypeOK, Underway
  <1>3. TypeOK'
    BY <1>1, <1>2 DEF LogInv, TypeOK, Places, Fewer, config, state, history
  <1>4. Underway'
    BY <1>2 DEF LogInv, Underway, Style, config, state, history
  <1>5. Numbered'
    BY <1>1, <1>2 DEF LogInv, Numbered, Fewer, config, state, history
  <1>6. Ages'
    BY <1>1, <1>2 DEF LogInv, Ages, Before, Fewer, config, state, history
  <1>7. Ordered'
    BY <1>1, <1>2, FewerInOrder DEF LogInv, Ordered, history
  <1>8. Reported'
    BY <1>2 DEF LogInv, Reported, config, state, history
  <1>9. QED
    BY <1>3, <1>4, <1>5, <1>6, <1>7, <1>8 DEF LogInv

\* An archive and its compressed form move up by one.
LEMMA ShiftKeeps ==
  ASSUME LogInv, Shift
  PROVE  LogInv'
  <1>1. /\ at = "shift" /\ at' = at /\ index \in Nat /\ index > 0 /\ index' = index - 1
        /\ UNCHANGED <<config, line, state, restarts, styles, missed, written>>
        /\ rotation.keep \in Nat /\ rotation.keep > 0
    BY DEF Shift, LogInv, TypeOK, Underway
  <1>2. Moved(plain, plain', index, index + 1) /\ Moved(gz, gz', index, index + 1)
    <2>1. index # index + 1
      BY <1>1
    <2>2. /\ plain' = plain \/ plain' = Renamed(plain, index, index + 1)
          /\ gz' = gz \/ gz' = Renamed(gz, index, index + 1)
      BY DEF Shift
    <2>3. \A f : Moved(f, f, index, index + 1) /\ Moved(f, Renamed(f, index, index + 1), index, index + 1)
      <3>1. \A f : Moved(f, f, index, index + 1)
        BY DEF Moved
      <3>2. \A f : Moved(f, Renamed(f, index, index + 1), index, index + 1)
        BY <2>1, RenamedMoves, Zenon
      <3>3. QED
        BY <3>1, <3>2
    <2>4. QED
      BY <2>2, <2>3
  <1>3. holed' \in BOOLEAN
    BY DEF Shift, LogInv, TypeOK
  <1>4. /\ DOMAIN plain \subseteq Nat /\ DOMAIN gz \subseteq Nat
        /\ DOMAIN plain' \subseteq Nat /\ DOMAIN gz' \subseteq Nat
    BY <1>1, <1>2, LinesAreNumbers, MovedInOrder
  <1>5. /\ \A k \in DOMAIN plain' : \E m \in DOMAIN plain : plain'[k] = plain[m] /\ (k = 0 <=> m = 0)
        /\ \A k \in DOMAIN gz' : \E m \in DOMAIN gz : gz'[k] = gz[m] /\ (k = 0 <=> m = 0)
        /\ 0 \in DOMAIN plain <=> 0 \in DOMAIN plain'
        /\ 0 \in DOMAIN plain => plain'[0] = plain[0]
    BY <1>1, <1>2, <1>4 DEF Moved
  <1>6. TypeOK'
    BY <1>1, <1>3, <1>4, <1>5 DEF LogInv, TypeOK, config, state
  <1>7. Underway'
    BY <1>1 DEF LogInv, Underway, Style, config, state
  <1>8. Numbered'
    <2>1. \A k \in DOMAIN plain' \cup DOMAIN gz' :
            \/ k \in DOMAIN plain \cup DOMAIN gz /\ k # index
            \/ k = index + 1 /\ index \in DOMAIN plain \cup DOMAIN gz
            \/ k \in DOMAIN plain \cup DOMAIN gz
      BY <1>2 DEF Moved
    <2>2. QED
      BY <1>1, <1>4, <2>1, LinesAreNumbers DEF LogInv, Numbered, config, state
  <1>9. Ages'
    BY <1>1, <1>5 DEF LogInv, Ages, Before
  <1>10. Ordered'
    BY <1>1, <1>2, <1>4, MovedInOrder DEF LogInv, Ordered
  <1>11. Reported'
    BY <1>1 DEF LogInv, Reported, config, state
  <1>12. QED
    BY <1>6, <1>7, <1>8, <1>9, <1>10, <1>11 DEF LogInv

\* install opens the active file and finds the index for the next archive.
LEMMA InstallKeeps ==
  ASSUME LogInv, Install
  PROVE  LogInv'
  <1>1. /\ at = "setup" /\ at' = "idle" /\ plain' = Opened /\ file' = TRUE
        /\ current_size' = SizeOf(Opened[0]) /\ next_archive_index' = NextIndex
        /\ UNCHANGED <<gz, config, line, index, file_write_reported, history>>
    BY DEF Install
  <1>2. /\ line \in Nat /\ DOMAIN plain \subseteq Nat /\ DOMAIN gz \subseteq Nat
        /\ \A k \in DOMAIN plain \cup DOMAIN gz : k <= line
        /\ line <= MaxLines
    BY LinesAreNumbers, LogFileAssumption DEF LogInv, Numbered, TypeOK
  <1>3. /\ DOMAIN plain' = DOMAIN plain \cup {0}
        /\ plain'[0] = IF 0 \in DOMAIN plain THEN plain[0] ELSE {}
        /\ \A k \in DOMAIN plain : plain'[k] = plain[k]
    BY <1>1, OpenedIs
  <1>4. current_size' \in Nat
    <2>1. plain'[0] \in SUBSET Line
      BY <1>3, LinesAreNumbers
    <2>2. QED
      BY <1>1, <2>1, SizeIsNumber
  <1>5. /\ next_archive_index' \in 1 .. line + 1
        /\ \A k \in (DOMAIN plain \cup DOMAIN gz) \ {0} : k < next_archive_index'
    <2>1. (DOMAIN plain \cup DOMAIN gz) \ {0} \in SUBSET (1 .. line)
      BY <1>2
    <2>2. QED
      BY <1>1, <1>2, <2>1, IndexAfterLast DEF NextIndex
  <1>6. TypeOK'
    BY <1>1, <1>3, <1>4, <1>5 DEF LogInv, TypeOK, Places, config, history
  <1>7. Underway'
    BY <1>1 DEF LogInv, Underway, config
  <1>8. Numbered'
    BY <1>1, <1>2, <1>3, <1>5 DEF Numbered
  <1>9. Ages'
    BY <1>1, <1>3 DEF LogInv, Ages, Before
  <1>10. Ordered'
    <2>1. Falling(plain) => Falling(plain')
      BY <1>2, <1>3 DEF Falling, Before, LogInv, Ages
    <2>2. Rising(plain) => Rising(plain')
      BY <1>3 DEF Rising, Before
    <2>3. QED
      BY <1>1, <2>1, <2>2 DEF LogInv, Ordered, history
  <1>11. Reported'
    BY <1>1 DEF LogInv, Reported, history
  <1>12. QED
    BY <1>6, <1>7, <1>8, <1>9, <1>10, <1>11 DEF LogInv

\* A line is written to the active file, or missed.
LEMMA WriteKeeps ==
  ASSUME LogInv, Write
  PROVE  LogInv'
  <1>1. /\ at = "write" /\ at' = "idle"
        /\ UNCHANGED <<gz, config, line, index, file, next_archive_index, restarts, styles, holed>>
    BY DEF Write
  <1>2. line \in Line /\ line > 0 /\ line \in Nat
    BY <1>1 DEF LogInv, TypeOK, Numbered, Line
  <1>3. CASE /\ file /\ plain' = [plain EXCEPT ![0] = @ \cup {line}]
             /\ current_size' = current_size + LineBytes[line]
             /\ written' = written \cup {line}
             /\ UNCHANGED <<file_write_reported, missed>>
    <2>1. 0 \in DOMAIN plain
      BY <1>3 DEF LogInv, TypeOK
    <2>2. /\ DOMAIN plain' = DOMAIN plain /\ plain'[0] = plain[0] \cup {line}
          /\ \A k \in DOMAIN plain : k # 0 => plain'[k] = plain[k]
      BY <1>3, <2>1
    <2>3. current_size' \in Nat
      BY <1>2, <1>3, LogFileAssumption DEF LogInv, TypeOK, Line
    <2>4. TypeOK'
      BY <1>1, <1>2, <1>3, <2>2, <2>3 DEF LogInv, TypeOK, Places, config
    <2>5. Underway' /\ Numbered' /\ Reported'
      BY <1>1, <1>3, <2>2 DEF LogInv, Underway, Style, Numbered, Reported, config
    <2>6. Ages'
      <3>1. /\ \A j \in DOMAIN plain : \A l \in plain[j] : l < line
            /\ \A j \in DOMAIN gz : \A l \in gz[j] : l < line
        BY <1>1 DEF LogInv, Ages
      <3>2. \A f \in {plain, gz}' : \A k \in DOMAIN f : \A l \in f[k] : l <= line'
        BY <1>1, <1>2, <2>2, <3>1, LinesAreNumbers
      <3>3. /\ \A j \in DOMAIN plain : j # 0 => Before(plain, j, plain', 0)
            /\ \A j \in DOMAIN gz : Before(gz, j, plain', 0)
        BY <2>1, <2>2, <3>1 DEF LogInv, Ages, Before
      <3>4. QED
        BY <1>1, <2>2, <3>2, <3>3 DEF Ages, Before
    <2>7. Ordered'
      <3>1. \A j \in DOMAIN plain : \A l \in plain[j] : l < line
        BY <1>1 DEF LogInv, Ages
      <3>2. DOMAIN plain \subseteq Nat
        BY LinesAreNumbers
      <3>3. Falling(plain) => Falling(plain')
        BY <2>1, <2>2, <3>1, <3>2 DEF Falling, Before
      <3>4. Rising(plain) => Rising(plain')
        BY <2>2, <3>2 DEF Rising, Before
      <3>5. QED
        BY <1>1, <3>3, <3>4 DEF LogInv, Ordered
    <2>8. QED
      BY <2>4, <2>5, <2>6, <2>7 DEF LogInv
  <1>4. CASE /\ missed' = missed \cup {line}
             /\ file_write_reported' = (file_write_reported \/ file)
             /\ UNCHANGED <<plain, current_size, written>>
    <2>1. TypeOK'
      BY <1>1, <1>2, <1>4 DEF LogInv, TypeOK, Places, config
    <2>2. Underway' /\ Numbered'
      BY <1>1, <1>4 DEF LogInv, Underway, Style, Numbered, config
    <2>3. Ages'
      BY <1>1, <1>4 DEF LogInv, Ages
    <2>4. Ordered'
      BY <1>1, <1>4 DEF LogInv, Ordered
    <2>5. Reported'
      BY <1>1, <1>4 DEF LogInv, Reported
    <2>6. QED
      BY <2>1, <2>2, <2>3, <2>4, <2>5 DEF LogInv
  <1>5. QED
    BY <1>3, <1>4 DEF Write

\* The active file becomes an archive: `.1`, or the one after the last.
LEMMA ArchiveKeeps ==
  ASSUME LogInv, Archive
  PROVE  LogInv'
  <1> DEFINE target == IF Style = "shift" THEN 1 ELSE next_archive_index
  <1>1. /\ at = "archive" /\ index' = target
        /\ next_archive_index' = next_archive_index + (IF Style = "append" THEN 1 ELSE 0)
        /\ UNCHANGED <<gz, config, line, file, current_size, file_write_reported, restarts, missed, written>>
    BY DEF Archive
  <1>2. /\ line \in Nat /\ line > 0 /\ line <= MaxLines /\ MaxLines \in Nat
        /\ next_archive_index \in Nat /\ next_archive_index > 0 /\ next_archive_index <= line
        /\ rotation.keep \in Nat
        /\ Style = IF rotation.keep > 0 THEN "shift" ELSE "append"
        /\ DOMAIN plain \subseteq Nat /\ DOMAIN gz \subseteq Nat
    BY <1>1, LinesAreNumbers, LogFileAssumption DEF LogInv, TypeOK, Numbered, Style
  <1>3. /\ target \in Nat /\ target > 0 /\ target <= line
        /\ Style = "append" =>
             \A k \in DOMAIN plain \cup DOMAIN gz : k < target
        /\ Style = "append" => target + 1 = next_archive_index'
        /\ next_archive_index' \in Nat /\ next_archive_index' > 0
        /\ next_archive_index' <= line + 1 /\ next_archive_index <= next_archive_index'
    BY <1>1, <1>2 DEF LogInv, Numbered
  <1>4. Style' = Style
    BY <1>1 DEF Style, config
  <1>5. (Style = "shift" => target = 1) /\ Style \in {"shift", "append"}
    BY <1>2
  <1>6. CASE /\ 0 \in DOMAIN plain
             /\ plain' = Renamed(plain, 0, target)
             /\ styles' = styles \cup {Style}
             /\ at' = IF compress THEN "create" ELSE "reopen"
             /\ UNCHANGED holed
    <2> HIDE DEF target
    <2>1. Moved(plain, plain', 0, target)
      BY <1>3, <1>6, RenamedMoves
    <2>2. /\ DOMAIN plain' = (DOMAIN plain \ {0}) \cup {target}
          /\ plain'[target] = plain[0]
          /\ \A k \in DOMAIN plain : k # 0 /\ k # target => plain'[k] = plain[k]
      <3>1. 0 \notin DOMAIN plain'
        BY <1>3, <1>6, WithoutIs DEF Renamed
      <3>2. QED
        BY <1>6, <2>1, <3>1 DEF Moved
    <2>3. ~file /\ styles' \subseteq {"shift", "append"} /\ at' \in {"create", "reopen"}
      BY <1>1, <1>5, <1>6 DEF LogInv, TypeOK, Reported
    <2>4. TypeOK' /\ Reported'
      BY <1>1, <1>3, <1>6, <2>2, <2>3 DEF LogInv, TypeOK, Reported, Places, config
    <2>5. Underway'
      BY <1>1, <1>2, <1>3, <1>4, <1>5, <1>6, <2>2 DEF LogInv, Underway, Numbered, config
    <2>6. Numbered'
      BY <1>1, <1>2, <1>3, <1>5, <1>6, <2>2 DEF LogInv, Numbered, config
    <2>7. Ages'
      BY <1>1, <1>3, <1>6, <2>2 DEF LogInv, Ages, Before
    <2>8. Ordered'
      <3>1. ASSUME Style = "shift", Falling(plain)
            PROVE  Falling(plain')
        <4>1. Moved(plain, plain', 0, 0 + 1)
          BY <1>5, <2>1, <3>1
        <4>2. QED
          BY <1>2, <3>1, <4>1, MovedInOrder
      <3>2. ASSUME Style = "append", Rising(plain)
            PROVE  Rising(plain')
        <4>1. \A k \in DOMAIN plain : k < target /\ (k # 0 => Before(plain, k, plain, 0))
          BY <1>3, <1>6, <3>2 DEF LogInv, Ages
        <4>2. ASSUME NEW j \in DOMAIN plain', NEW k \in DOMAIN plain', 0 < j, j < k
              PROVE  Before(plain', j, plain', k)
          <5>1. j \in DOMAIN plain /\ j # target /\ plain'[j] = plain[j]
            BY <1>2, <1>3, <2>2, <4>1, <4>2
          <5>2. CASE k = target
            BY <1>2, <2>2, <4>1, <4>2, <5>1, <5>2 DEF Before
          <5>3. CASE k # target
            BY <2>2, <3>2, <4>2, <5>1, <5>3 DEF Rising, Before
          <5>4. QED
            BY <5>2, <5>3
        <4>3. QED
          BY <4>2 DEF Rising
      <3>3. QED
        BY <1>1, <1>5, <1>6, <3>1, <3>2 DEF LogInv, Ordered
    <2>9. QED
      BY <2>4, <2>5, <2>6, <2>7, <2>8 DEF LogInv
  <1>7. CASE /\ at' = "reopen"
             /\ holed' = (holed \/ Style = "shift")
             /\ UNCHANGED <<plain, styles>>
    <2> HIDE DEF target
    <2>1. TypeOK'
      BY <1>1, <1>3, <1>7 DEF LogInv, TypeOK, Places, config
    <2>2. Underway' /\ Reported'
      BY <1>1, <1>7 DEF LogInv, Underway, Reported, config
    <2>3. Numbered'
      BY <1>1, <1>2, <1>3, <1>7 DEF LogInv, Numbered, config
    <2>4. Ages' /\ Ordered'
      BY <1>1, <1>7 DEF LogInv, Ages, Ordered
    <2>5. QED
      BY <2>1, <2>2, <2>3, <2>4 DEF LogInv
  <1>8. QED
    BY <1>6, <1>7 DEF Archive

\* compress_archive creates the `.gz`, empty.
LEMMA CreateGzKeeps ==
  ASSUME LogInv, CreateGz
  PROVE  LogInv'
  <1>1. /\ at = "create" /\ UNCHANGED <<plain, config, line, index, state, history>>
    BY DEF CreateGz
  <1>2. index \in Nat /\ index > 0 /\ index \in DOMAIN plain
    BY <1>1 DEF LogInv, TypeOK, Underway
  <1>3. CASE gz' = With(gz, index, {}) /\ at' = "copy"
    <2>1. /\ DOMAIN gz' = DOMAIN gz \cup {index}
          /\ gz'[index] = {}
          /\ \A k \in DOMAIN gz : k # index => gz'[k] = gz[k]
      BY <1>3 DEF With
    <2>2. TypeOK'
      BY <1>1, <1>2, <1>3, <2>1 DEF LogInv, TypeOK, Places, config, state, history
    <2>3. Underway' /\ Reported'
      BY <1>1, <1>3, <2>1 DEF LogInv, Underway, Reported, Style, config, state, history
    <2>4. Numbered'
      BY <1>1, <1>2, <1>3, <2>1 DEF LogInv, Numbered, config, state
    <2>5. Ages'
      BY <1>1, <1>2, <1>3, <2>1 DEF LogInv, Ages, Before
    <2>6. Ordered'
      BY <1>1, <2>1 DEF LogInv, Ordered, Falling, Rising, Before, history
    <2>7. QED
      BY <2>2, <2>3, <2>4, <2>5, <2>6 DEF LogInv
  <1>4. CASE at' = "reopen" /\ UNCHANGED gz
    <2>1. TypeOK' /\ Underway' /\ Reported'
      BY <1>1, <1>4 DEF LogInv, TypeOK, Underway, Reported, Places, Style, config, state, history
    <2>2. Numbered' /\ Ages' /\ Ordered'
      BY <1>1, <1>4 DEF LogInv, Numbered, Ages, Ordered, config, state, history
    <2>3. QED
      BY <2>1, <2>2 DEF LogInv
  <1>5. QED
    BY <1>3, <1>4 DEF CreateGz

\* The lines are copied, or what was copied is removed.
LEMMA CopyGzKeeps ==
  ASSUME LogInv, CopyGz
  PROVE  LogInv'
  <1>1. /\ at = "copy" /\ UNCHANGED <<plain, config, line, index, state, history>>
    BY DEF CopyGz
  <1>2. /\ index \in Nat /\ index > 0 /\ index \in DOMAIN plain /\ index \in DOMAIN gz
        /\ Style \in styles /\ (Style = "shift" => index = 1)
        /\ Style = "append" => index + 1 = next_archive_index
        /\ \A j \in DOMAIN gz : j # index => Before(gz, j, plain, index)
        /\ DOMAIN gz \subseteq Nat
    BY <1>1, LinesAreNumbers DEF LogInv, TypeOK, Underway, Ages
  <1>3. CASE gz' = With(gz, index, plain[index]) /\ at' = "unlink"
    <2>1. /\ DOMAIN gz' = DOMAIN gz
          /\ gz'[index] = plain[index]
          /\ \A k \in DOMAIN gz : k # index => gz'[k] = gz[k]
      BY <1>2, <1>3 DEF With
    <2>2. TypeOK'
      BY <1>1, <1>2, <1>3, <2>1 DEF LogInv, TypeOK, Places, config, state, history
    <2>3. Underway' /\ Reported'
      BY <1>1, <1>2, <1>3, <2>1 DEF LogInv, Underway, Reported, Style, config, state, history
    <2>4. Numbered'
      BY <1>1, <1>3, <2>1 DEF LogInv, Numbered, config, state
    <2>5. Ages'
      <3>1. \A l \in plain[index] : l < line
        BY <1>1, <1>2 DEF LogInv, Ages
      <3>2. 0 \in DOMAIN plain => Before(plain, index, plain, 0)
        BY <1>2 DEF LogInv, Ages
      <3>3. \A k \in DOMAIN gz : \A l \in gz'[k] : l < line
        BY <1>1, <2>1, <3>1 DEF LogInv, Ages
      <3>4. 0 \in DOMAIN plain => \A k \in DOMAIN gz : Before(gz', k, plain, 0)
        BY <2>1, <3>2 DEF LogInv, Ages, Before
      <3>5. \A l \in Line : l < line => l <= line
        BY LinesAreNumbers, LogFileAssumption DEF Line
      <3>6. \A k \in DOMAIN gz : gz'[k] \subseteq Line
        BY <1>2, <2>1, LinesAreNumbers
      <3>7. QED
        BY <1>1, <1>3, <2>1, <3>3, <3>4, <3>5, <3>6 DEF LogInv, Ages, Before
    <2>6. Ordered'
      <3>1. ASSUME styles \subseteq {"shift"}, Falling(gz)
            PROVE  Falling(gz')
        <4>1. index = 1 /\ \A k \in DOMAIN gz : k >= 1
          <5>1. Style = "shift" /\ 0 \notin DOMAIN gz
            BY <1>2, <3>1 DEF LogInv, TypeOK
          <5>2. QED
            BY <1>2, <5>1
        <4>2. QED
          BY <1>2, <2>1, <3>1, <4>1 DEF Falling, Before
      <3>2. ASSUME styles \subseteq {"append"}, Rising(gz)
            PROVE  Rising(gz')
        <4>1. Style = "append"
          BY <1>2, <3>2
        <4>2. rotation.keep = 0
          BY <4>1 DEF Style, LogInv, TypeOK
        <4>3. \A k \in DOMAIN gz : k < next_archive_index
          BY <1>1, <4>2 DEF LogInv, Numbered
        <4>4. \A k \in DOMAIN gz : k <= index
          BY <1>2, <4>1, <4>3
        <4>5. QED
          BY <1>2, <2>1, <3>2, <4>4 DEF Rising, Before
      <3>3. QED
        BY <1>1, <3>1, <3>2 DEF LogInv, Ordered, history
    <2>7. QED
      BY <2>2, <2>3, <2>4, <2>5, <2>6 DEF LogInv
  <1>4. CASE at' = "reopen" /\ (gz' = gz \/ gz' = Without(gz, index))
    <2>1. Fewer(gz, gz')
      BY <1>4, WithoutIsFewer
    <2>2. TypeOK' /\ Underway' /\ Reported'
      BY <1>1, <1>4, <2>1 DEF LogInv, TypeOK, Underway, Reported, Fewer, Places, Style, config, state, history
    <2>3. Numbered' /\ Ages'
      BY <1>1, <1>4, <2>1 DEF LogInv, Numbered, Ages, Before, Fewer, config, state
    <2>4. Ordered'
      BY <1>1, <2>1, FewerInOrder DEF LogInv, Ordered, history
    <2>5. QED
      BY <2>2, <2>3, <2>4 DEF LogInv
  <1>5. QED
    BY <1>3, <1>4 DEF CopyGz

\* The archive that has been compressed is removed.
LEMMA UnlinkKeeps ==
  ASSUME LogInv, UnlinkPlain
  PROVE  LogInv'
  <1>1. /\ at = "unlink" /\ at' = "reopen" /\ UNCHANGED <<gz, config, line, index, state, history>>
        /\ plain' = plain \/ plain' = Without(plain, index)
    BY DEF UnlinkPlain
  <1>2. Fewer(plain, plain') /\ (0 \in DOMAIN plain => 0 \in DOMAIN plain')
    <2>1. index # 0
      BY <1>1 DEF LogInv, TypeOK, Underway
    <2>2. 0 \in DOMAIN plain => 0 \in DOMAIN Without(plain, index)
      BY <2>1 DEF Without
    <2>3. QED
      BY <1>1, <2>2, WithoutIsFewer
  <1>3. TypeOK' /\ Underway' /\ Reported'
    BY <1>1, <1>2 DEF LogInv, TypeOK, Underway, Reported, Fewer, Places, Style, config, state, history
  <1>4. Numbered' /\ Ages'
    BY <1>1, <1>2 DEF LogInv, Numbered, Ages, Before, Fewer, config, state
  <1>5. Ordered'
    BY <1>1, <1>2, FewerInOrder DEF LogInv, Ordered, history
  <1>6. QED
    BY <1>3, <1>4, <1>5 DEF LogInv

\* The active file is opened again, or that fails.
LEMMA ReopenKeeps ==
  ASSUME LogInv, Reopen
  PROVE  LogInv'
  <1>1. /\ at = "reopen" /\ at' = "write"
        /\ UNCHANGED <<gz, config, line, index, next_archive_index, restarts, styles, missed, written>>
    BY DEF Reopen
  <1>2. DOMAIN plain \subseteq Nat /\ DOMAIN gz \subseteq Nat /\ line \in Nat
    BY LinesAreNumbers
  <1>3. CASE /\ plain' = Opened /\ file' = TRUE /\ current_size' = 0
             /\ UNCHANGED <<file_write_reported, holed>>
    <2>1. /\ DOMAIN plain' = DOMAIN plain \cup {0}
          /\ plain'[0] = IF 0 \in DOMAIN plain THEN plain[0] ELSE {}
          /\ \A k \in DOMAIN plain : plain'[k] = plain[k]
      BY <1>3, OpenedIs
    <2>2. TypeOK' /\ Underway' /\ Reported'
      BY <1>1, <1>3, <2>1 DEF LogInv, TypeOK, Underway, Reported, Places, Style, config
    <2>3. Numbered'
      BY <1>1, <1>2, <1>3, <2>1 DEF LogInv, Numbered, config
    <2>4. Ages'
      BY <1>1, <1>3, <2>1 DEF LogInv, Ages, Before
    <2>5. Ordered'
      <3>1. Falling(plain) => Falling(plain')
        BY <1>2, <2>1 DEF Falling, Before, LogInv, Ages
      <3>2. Rising(plain) => Rising(plain')
        BY <2>1 DEF Rising, Before
      <3>3. QED
        BY <1>1, <3>1, <3>2 DEF LogInv, Ordered
    <2>6. QED
      BY <2>2, <2>3, <2>4, <2>5 DEF LogInv
  <1>4. CASE /\ file_write_reported' = TRUE
             /\ holed' = (holed \/ Style = "shift")
             /\ UNCHANGED <<plain, file, current_size>>
    <2>1. TypeOK' /\ Underway' /\ Reported'
      BY <1>1, <1>4 DEF LogInv, TypeOK, Underway, Reported, Places, Style, config
    <2>2. Numbered' /\ Ages' /\ Ordered'
      BY <1>1, <1>4 DEF LogInv, Numbered, Ages, Ordered, config
    <2>3. QED
      BY <2>1, <2>2 DEF LogInv
  <1>5. QED
    BY <1>3, <1>4 DEF Reopen

LEMMA LogNext == LogInv /\ [Next]_vars => LogInv'
  <1> SUFFICES ASSUME LogInv, [Next]_vars
               PROVE  LogInv'
    OBVIOUS
  <1>1. CASE UNCHANGED vars
    BY <1>1 DEF vars, disk, config, state, history, LogInv, TypeOK, Underway, Style, Numbered,
       Ages, Before, Ordered, Falling, Rising, Reported
  <1>2. CASE Next
    BY <1>2, ConfigureKeeps, CompressKeeps, InstallKeeps, LogKeeps, WriteKeeps, DirectoryKeeps,
       DropKeeps, ShiftKeeps, ShiftEndsKeeps, ArchiveKeeps, CreateGzKeeps, CopyGzKeeps,
       UnlinkKeeps, ReopenKeeps, RestartKeeps DEF Next
  <1>3. QED
    BY <1>1, <1>2

LEMMA LogInvHolds == Spec => []LogInv
  BY LogInit, LogNext, PTL DEF Spec

(***************************************************************************)
(* The two forms of an archive.  As long as no shift was cut short, plain  *)
(* archives and compressed ones are in one order.                          *)
(***************************************************************************)

Crossing ==
  \A i \in DOMAIN plain, j \in DOMAIN gz :
    (i < j => Before(gz, j, plain, i)) /\ (j < i => Before(plain, i, gz, j))

Climbing ==
  \A i \in DOMAIN plain, j \in DOMAIN gz :
    (0 < i /\ i < j => Before(plain, i, gz, j)) /\ (0 < j /\ j < i => Before(gz, j, plain, i))

Crossed ==
  ~holed => /\ styles \subseteq {"shift"} => Crossing
            /\ styles \subseteq {"append"} => Climbing

LEMMA CrossedInit == Init => Crossed
  BY DEF Init, Crossed, Crossing, Climbing

\* Files that are taken away, and an active file that is opened or written to.
LEMMA CrossedFewer ==
  ASSUME LogInv, LogInv', Fewer(gz, gz'), DOMAIN plain' \subseteq DOMAIN plain \cup {0},
         \A k \in DOMAIN plain' : k # 0 => plain'[k] = plain[k]
  PROVE  (Crossing => Crossing') /\ (Climbing => Climbing')
  <1>1. /\ DOMAIN plain \subseteq Nat /\ DOMAIN gz \subseteq Nat /\ 0 \notin DOMAIN gz
        /\ DOMAIN gz' \subseteq DOMAIN gz /\ \A k \in DOMAIN gz' : gz'[k] = gz[k]
    BY LinesAreNumbers DEF LogInv, TypeOK, Fewer
  <1>2. \A j \in DOMAIN gz' : 0 \in DOMAIN plain' => Before(gz', j, plain', 0)
    BY DEF LogInv, Ages
  <1>3. \A i \in DOMAIN plain' : i = 0 \/ (i \in DOMAIN plain /\ i > 0 /\ plain'[i] = plain[i])
    BY <1>1
  <1>4. \A j \in DOMAIN gz' : j \in Nat /\ ~(j < 0)
    BY <1>1
  <1>5. ASSUME Crossing
        PROVE  Crossing'
    BY <1>1, <1>2, <1>3, <1>4, <1>5 DEF Crossing, Before
  <1>6. ASSUME Climbing
        PROVE  Climbing'
    BY <1>1, <1>3, <1>4, <1>6 DEF Climbing, Before
  <1>7. QED
    BY <1>5, <1>6

\* Both forms move up together.
LEMMA CrossedShift ==
  ASSUME LogInv, Shift, ~holed'
  PROVE  (Crossing => Crossing') /\ (Climbing => Climbing')
  <1>1. /\ index \in Nat /\ index > 0 /\ index # index + 1
        /\ DOMAIN plain \subseteq Nat /\ DOMAIN gz \subseteq Nat
    BY LinesAreNumbers DEF LogInv, TypeOK, Shift
  <1>2. MovedAll(plain, plain', index, index + 1) /\ MovedAll(gz, gz', index, index + 1)
    <2>1. plain' = Renamed(plain, index, index + 1) /\ gz' = Renamed(gz, index, index + 1)
      BY DEF Shift
    <2>2. /\ MovedAll(plain, Renamed(plain, index, index + 1), index, index + 1)
          /\ MovedAll(gz, Renamed(gz, index, index + 1), index, index + 1)
      BY <1>1, RenamedExactly, Zenon
    <2>3. QED
      BY <2>1, <2>2
  <1>3. /\ index \notin DOMAIN plain' \cup DOMAIN gz'
        /\ DOMAIN plain' \subseteq Nat /\ DOMAIN gz' \subseteq Nat
    BY <1>1, <1>2 DEF MovedAll
  <1> DEFINE was(f, k) == IF k = index + 1 /\ index \in DOMAIN f THEN index ELSE k
  <1>4. ASSUME NEW f \in {plain, gz}, NEW g, MovedAll(f, g, index, index + 1), NEW k \in DOMAIN g
        PROVE  was(f, k) \in DOMAIN f /\ g[k] = f[was(f, k)]
    BY <1>4 DEF MovedAll
  <1>5. /\ \A k \in DOMAIN plain' : was(plain, k) \in DOMAIN plain /\ plain'[k] = plain[was(plain, k)]
        /\ \A k \in DOMAIN gz' : was(gz, k) \in DOMAIN gz /\ gz'[k] = gz[was(gz, k)]
    BY <1>2, <1>4
  <1>6. /\ \A i, j \in Nat \ {index} : i < j => was(plain, i) < was(gz, j) /\ was(gz, i) < was(plain, j)
        /\ \A i \in Nat : i > 0 => 0 < was(plain, i) /\ 0 < was(gz, i)
    BY <1>1
  <1>7. \A i \in DOMAIN plain', j \in DOMAIN gz' : i \in Nat \ {index} /\ j \in Nat \ {index}
    BY <1>3
  <1>8. \A i \in Nat : 0 < i <=> i > 0
    OBVIOUS
  <1> HIDE DEF was
  <1>9. ASSUME Crossing
        PROVE  Crossing'
    BY <1>5, <1>6, <1>7, <1>9 DEF Crossing, Before
  <1>10. ASSUME Climbing
         PROVE  Climbing'
    BY <1>5, <1>6, <1>7, <1>8, <1>10 DEF Climbing, Before
  <1>11. QED
    BY <1>9, <1>10

\* The active file is newer than all it is put before or behind.
LEMMA CrossedArchive ==
  ASSUME LogInv, Crossed, Archive
  PROVE  Crossed'
  <1> SUFFICES ASSUME ~holed'
               PROVE  /\ styles' \subseteq {"shift"} => Crossing'
                      /\ styles' \subseteq {"append"} => Climbing'
    BY DEF Crossed
  <1> DEFINE target == IF Style = "shift" THEN 1 ELSE next_archive_index
  <1>1. /\ gz' = gz /\ (holed => holed')
        /\ DOMAIN plain \subseteq Nat /\ DOMAIN gz \subseteq Nat /\ 0 \notin DOMAIN gz
        /\ rotation.keep \in Nat /\ next_archive_index \in Nat /\ next_archive_index > 0
        /\ at = "archive" /\ Style \in {"shift", "append"}
    BY LinesAreNumbers DEF Archive, LogInv, TypeOK, Numbered, Style
  <1>2. Style = "append" => \A k \in DOMAIN plain \cup DOMAIN gz : k < next_archive_index
    BY <1>1 DEF LogInv, Numbered, Style
  <1>3. target \in Nat /\ target > 0
    BY <1>1
  <1>4. CASE 0 \in DOMAIN plain /\ plain' = Renamed(plain, 0, target) /\ styles' = styles \cup {Style}
    <2> HIDE DEF target
    <2>1. MovedAll(plain, plain', 0, target)
      BY <1>3, <1>4, RenamedExactly
    <2>2. \A i \in DOMAIN plain' :
            \/ i = target /\ plain'[i] = plain[0]
            \/ i # target /\ i \in Nat /\ i > 0 /\ i \in DOMAIN plain /\ plain'[i] = plain[i]
      BY <1>1, <1>4, <2>1 DEF MovedAll
    <2>3. \A j \in DOMAIN gz : j \in Nat /\ Before(gz, j, plain, 0)
      BY <1>1, <1>4 DEF LogInv, Ages
    <2>4. ASSUME styles' \subseteq {"shift"}
          PROVE  Crossing'
      <3>1. Crossing /\ target = 1
        BY <1>1, <1>4, <2>4 DEF Crossed, target
      <3>2. \A j \in DOMAIN gz : ~(j < 1)
        BY <1>1
      <3>3. QED
        BY <1>1, <2>2, <2>3, <3>1, <3>2 DEF Crossing, Before
    <2>5. ASSUME styles' \subseteq {"append"}
          PROVE  Climbing'
      <3>1. Climbing /\ target = next_archive_index /\ Style = "append"
        BY <1>1, <1>4, <2>5 DEF Crossed, target
      <3>2. \A j \in DOMAIN gz : ~(target < j)
        BY <1>1, <1>2, <3>1
      <3>3. \A i \in Nat : 0 < i <=> i > 0
        OBVIOUS
      <3>4. QED
        BY <1>1, <2>2, <2>3, <3>1, <3>2, <3>3 DEF Climbing, Before
    <2>6. QED
      BY <2>4, <2>5
  <1>5. CASE UNCHANGED <<plain, styles>>
    BY <1>1, <1>5 DEF Crossed, Crossing, Climbing, Before
  <1>6. QED
    BY <1>4, <1>5 DEF Archive

\* A `.gz` takes the place of the archive it holds.
LEMMA CrossedCompress ==
  ASSUME LogInv, Crossed, CreateGz \/ CopyGz
  PROVE  Crossed'
  <1> SUFFICES ASSUME ~holed
               PROVE  /\ styles \subseteq {"shift"} => Crossing'
                      /\ styles \subseteq {"append"} => Climbing'
    BY DEF Crossed, CreateGz, CopyGz, history
  <1>1. /\ at \in {"create", "copy"} /\ plain' = plain
        /\ \/ gz' = gz \/ gz' = With(gz, index, {})
           \/ gz' = With(gz, index, plain[index]) \/ gz' = Without(gz, index)
    BY DEF CreateGz, CopyGz
  <1>2. /\ Style \in styles /\ index \in DOMAIN plain /\ index \in Nat /\ index > 0
        /\ Style = "append" => index + 1 = next_archive_index
        /\ DOMAIN plain \subseteq Nat /\ DOMAIN gz \subseteq Nat
        /\ rotation.keep \in Nat /\ next_archive_index \in Nat
    BY <1>1, LinesAreNumbers DEF LogInv, TypeOK, Underway
  <1>3. \A j \in DOMAIN gz' : \/ j \in DOMAIN gz /\ gz'[j] = gz[j]
                              \/ j = index /\ gz'[j] = {}
                              \/ j = index /\ gz'[j] = plain[index]
    <2>1. CASE gz' = With(gz, index, {})
      BY <2>1 DEF With
    <2>2. CASE gz' = With(gz, index, plain[index])
      BY <2>2 DEF With
    <2>3. CASE gz' = Without(gz, index)
      BY <2>3 DEF Without
    <2>4. QED
      BY <1>1, <2>1, <2>2, <2>3
  <1>4. ASSUME styles \subseteq {"shift"}
        PROVE  Crossing'
    <2>1. Crossing /\ Falling(plain)
      BY <1>4 DEF Crossed, LogInv, Ordered
    <2>2. QED
      BY <1>1, <1>2, <1>3, <2>1 DEF Crossing, Falling, Before
  <1>5. ASSUME styles \subseteq {"append"}
        PROVE  Climbing'
    <2>1. Climbing /\ Rising(plain) /\ Style = "append"
      BY <1>2, <1>5 DEF Crossed, LogInv, Ordered
    <2>2. rotation.keep = 0 /\ at # "setup"
      BY <1>1, <1>2, <2>1 DEF Style
    <2>3. \A i \in DOMAIN plain : i \in Nat /\ i < index + 1 /\ ~(index < i)
      BY <1>1, <1>2, <2>1, <2>2 DEF LogInv, Numbered
    <2>4. QED
      BY <1>1, <1>2, <1>3, <2>1, <2>3 DEF Climbing, Rising, Before
  <1>6. QED
    BY <1>4, <1>5

LEMMA CrossedNext ==
  ASSUME LogInv, LogInv', Crossed, [Next]_vars
  PROVE  Crossed'
  <1>1. CASE \/ Configure \/ CompressArchives \/ Log \/ CreateDirectory \/ ShiftEnds \/ Restart
             \/ UNCHANGED vars
    <2>1. plain' = plain /\ gz' = gz /\ styles' = styles /\ (holed => holed')
      <3>1. CASE Configure \/ CompressArchives
        BY <3>1 DEF Configure, CompressArchives, disk, history
      <3>2. CASE Log \/ CreateDirectory
        BY <3>2 DEF Log, CreateDirectory, disk, history
      <3>3. CASE ShiftEnds \/ UNCHANGED vars
        BY <3>3 DEF ShiftEnds, vars, disk, history
      <3>4. CASE Restart
        BY <3>4 DEF Restart, disk
      <3>5. QED
        BY <1>1, <3>1, <3>2, <3>3, <3>4
    <2>2. QED
      BY <2>1 DEF Crossed, Crossing, Climbing, Before
  <1>2. CASE Install \/ Write \/ Reopen \/ DropOldest \/ UnlinkPlain
    <2>1. styles' = styles /\ (holed => holed')
      <3>1. CASE Install \/ DropOldest \/ UnlinkPlain
        BY <3>1 DEF Install, DropOldest, UnlinkPlain, history
      <3>2. CASE Write
        BY <3>2 DEF Write
      <3>3. CASE Reopen
        BY <3>3 DEF Reopen
      <3>4. QED
        BY <1>2, <3>1, <3>2, <3>3
    <2>2. /\ DOMAIN plain' \subseteq DOMAIN plain \cup {0}
          /\ \A k \in DOMAIN plain' : k # 0 => plain'[k] = plain[k]
      <3>1. CASE plain' = Opened
        BY <3>1, OpenedIs
      <3>2. CASE plain' = plain
        BY <3>2
      <3>3. CASE plain' = [plain EXCEPT ![0] = @ \cup {line}]
        BY <3>3
      <3>4. CASE plain' = Without(plain, rotation.keep) \/ plain' = Without(plain, index)
        BY <3>4 DEF Without
      <3>5. QED
        BY <1>2, <3>1, <3>2, <3>3, <3>4 DEF Install, Write, Reopen, DropOldest, UnlinkPlain
    <2>3. Fewer(gz, gz')
      <3>1. gz' = gz \/ gz' = Without(gz, rotation.keep)
        BY <1>2 DEF Install, Write, Reopen, DropOldest, UnlinkPlain
      <3>2. QED
        BY <3>1, WithoutIsFewer
    <2>4. (Crossing => Crossing') /\ (Climbing => Climbing')
      BY <2>2, <2>3, CrossedFewer
    <2>5. QED
      BY <2>1, <2>4 DEF Crossed
  <1>3. CASE Shift
    <2>1. styles' = styles /\ (holed => holed')
      BY <1>3 DEF Shift
    <2>2. QED
      BY <1>3, <2>1, CrossedShift DEF Crossed
  <1>4. QED
    BY <1>1, <1>2, <1>3, CrossedArchive, CrossedCompress DEF Next

LEMMA CrossedHolds == Spec => [](LogInv /\ Crossed)
  <1>1. Init => LogInv /\ Crossed
    BY LogInit, CrossedInit
  <1>2. LogInv /\ Crossed /\ [Next]_vars => LogInv' /\ Crossed'
    BY LogNext, CrossedNext
  <1>3. QED
    BY <1>1, <1>2, PTL DEF Spec

(***************************************************************************)
(* What rotate_shift removes.  As long as no shift was cut short and no    *)
(* archive was appended, the archives are `.1`, `.2` and so on with none   *)
(* left out, but for the one that is being moved.                          *)
(***************************************************************************)

\* No line is longer than a file may become, so that no rotation archives an
\* empty file.
Fits == \A l \in Line :
  LineBytes[l] <= DefaultBytes /\ \A bytes \in Sizes \ {0} : LineBytes[l] <= bytes

\* Something newer can be read from the archive, or will be.
Full(i) == i \in DOMAIN plain \/ (i \in DOMAIN gz /\ gz[i] # {})

\* The place that rotate_shift is about to fill.
Vacated ==
  IF at = "shift" THEN index + 1
  ELSE IF at = "archive" /\ Style = "shift" THEN 1 ELSE 0

Active ==
  /\ \A l \in Line : LineBytes[l] <= rotation.max_bytes
  /\ file /\ current_size > 0 => plain[0] # {}
  /\ rotation.keep > 0 /\ ~holed =>
       /\ at \in {"idle", "write"} => file
       /\ at \in {"mkdir", "drop", "shift", "archive"} => 0 \in DOMAIN plain /\ plain[0] # {}
       /\ at \in {"create", "copy", "unlink"} => plain[index] # {}

Contiguous ==
  \A j \in DOMAIN plain \cup DOMAIN gz : \A i \in 1 .. j - 1 :
    i # Vacated => Full(i)

Vacant ==
  /\ at = "shift" => index < rotation.keep
  /\ Vacated > 0 /\ Vacated < rotation.keep => Vacated \notin DOMAIN plain \cup DOMAIN gz
  /\ at = "create" /\ rotation.keep > 1 => 1 \notin DOMAIN gz

KeptInv ==
  /\ LogInv /\ Crossed /\ Active
  /\ ~holed /\ "append" \notin styles => Contiguous /\ Vacant

LEMMA ActiveInit ==
  ASSUME Fits
  PROVE  Init => Active
  <1> SUFFICES ASSUME Init
               PROVE  Active
    OBVIOUS
  <1>1. \A l \in Line : LineBytes[l] <= rotation.max_bytes
    BY DEF Init, NewConfig, Fits
  <1>2. QED
    BY <1>1 DEF Init, Active

\* Every size a rotation can be given has room for any line.
LEMMA RoomForLines ==
  ASSUME Fits, Active
  PROVE  /\ Configure => \A l \in Line : LineBytes[l] <= rotation'.max_bytes
         /\ \A l \in Line : LineBytes[l] <= NewConfig.max_bytes
  <1> DEFINE Config(r) == \A l \in Line : LineBytes[l] <= r.max_bytes
  <1>1. Config(rotation) /\ Config(NoRotation) /\ Config(NewConfig)
    BY DEF Active, Fits, NoRotation, NewConfig
  <1>2. \A r, b : Config(r) /\ b \in Sizes => Config(RotationSize(r, b))
    BY <1>1 DEF RotationSize, Fits
  <1>3. \A r, k : Config(r) => Config(RotationKeep(r, k))
    BY DEF RotationKeep
  <1> HIDE DEF Config
  <1>4. \A b \in Sizes \cup {Unset}, k \in Keeps \cup {Unset}, off \in BOOLEAN :
          Config(FromEnv(rotation, b, k, off))
    BY <1>1, <1>2, <1>3 DEF FromEnv
  <1>5. Configure => Config(rotation')
    BY <1>1, <1>2, <1>3, <1>4 DEF Configure
  <1>6. QED
    BY <1>1, <1>5 DEF Config

LEMMA ActiveNext ==
  ASSUME Fits, LogInv, Active, Next
  PROVE  Active'
  <1>1. CASE Configure
    BY <1>1, RoomForLines DEF Configure, Active, Style, LogInv, Reported, disk, state, history
  <1>2. CASE CompressArchives
    BY <1>2 DEF CompressArchives, Active, disk, state, history
  <1>3. CASE Install
    <2>1. /\ at' = "idle" /\ plain' = Opened /\ file' = TRUE
          /\ current_size' = SizeOf(Opened[0])
          /\ UNCHANGED <<config, history>>
      BY <1>3 DEF Install
    <2>2. Opened[0] \in SUBSET Line
      BY OpenedIs, LinesAreNumbers
    <2>3. current_size' > 0 => plain'[0] # {}
      BY <2>1, <2>2, SizeIsNumber
    <2>4. QED
      BY <2>1, <2>3 DEF Active, config, history
  <1>4. CASE Log
    <2>1. /\ at = "idle" /\ line + 1 \in Line
          /\ UNCHANGED <<disk, config, index, current_size, next_archive_index,
                        file_write_reported, history>>
          /\ \/ /\ current_size + LineBytes[line + 1] > rotation.max_bytes
                /\ at' = "mkdir" /\ file' = FALSE
             \/ at' = "write" /\ file' = file
      BY <1>4, LogFileAssumption DEF Log, LogInv, TypeOK, Line
    <2>2. rotation.max_bytes \in Nat /\ current_size \in Nat /\ LineBytes[line + 1] \in Nat
      BY <2>1, LogFileAssumption DEF LogInv, TypeOK, Line
    <2>3. LineBytes[line + 1] <= rotation.max_bytes
      BY <2>1 DEF Active
    <2>4. at' = "mkdir" => current_size > 0
      BY <2>1, <2>2, <2>3
    <2>5. file => 0 \in DOMAIN plain
      BY DEF LogInv, TypeOK
    <2>6. QED
      BY <2>1, <2>4, <2>5 DEF Active, disk, config, history
  <1>5. CASE Write
    <2>1. /\ at = "write" /\ at' = "idle"
          /\ UNCHANGED <<config, index, file, holed>>
          /\ \/ file /\ plain' = [plain EXCEPT ![0] = @ \cup {line}]
             \/ UNCHANGED <<plain, current_size>>
      BY <1>5 DEF Write
    <2>2. file' /\ current_size' > 0 => plain'[0] # {}
      BY <2>1 DEF Active, LogInv, TypeOK
    <2>3. QED
      BY <2>1, <2>2 DEF Active, config
  <1>6. CASE CreateDirectory
    BY <1>6 DEF CreateDirectory, LogInv, Reported, Active, Style, disk, config, history
  <1>7. CASE DropOldest
    <2>1. /\ at = "drop" /\ at' = "shift" /\ rotation.keep > 0
          /\ UNCHANGED <<config, line, state, history>> /\ ~file
          /\ plain' = plain \/ plain' = Without(plain, rotation.keep)
      BY <1>7 DEF DropOldest, LogInv, Underway, Reported
    <2>2. 0 \in DOMAIN plain => 0 \in DOMAIN plain' /\ plain'[0] = plain[0]
      BY <2>1 DEF Without, LogInv, TypeOK
    <2>3. QED
      BY <2>1, <2>2 DEF Active, config, state, history
  <1>8. CASE Shift
    <2>1. /\ at = "shift" /\ at' = at /\ index > 0 /\ index \in Nat /\ ~file
          /\ UNCHANGED <<config, line, state>> /\ (~holed' => ~holed)
          /\ plain' = plain \/ plain' = Renamed(plain, index, index + 1)
      BY <1>8 DEF Shift, LogInv, TypeOK, Reported
    <2>2. Moved(plain, Renamed(plain, index, index + 1), index, index + 1)
      BY <2>1, RenamedMoves
    <2>3. 0 \in DOMAIN plain => 0 \in DOMAIN plain' /\ plain'[0] = plain[0]
      BY <2>1, <2>2 DEF Moved
    <2>4. QED
      BY <2>1, <2>3 DEF Active, config, state
  <1>9. CASE ShiftEnds
    BY <1>9 DEF ShiftEnds, LogInv, Reported, Active, disk, config, state, history
  <1>10. CASE Archive
    <2>1. /\ at = "archive" /\ ~file /\ index' # 0
          /\ UNCHANGED <<config, file>>
          /\ index' = IF Style = "shift" THEN 1 ELSE next_archive_index
          /\ Style = IF rotation.keep > 0 THEN "shift" ELSE "append"
      BY <1>10 DEF Archive, LogInv, TypeOK, Numbered, Reported, Style
    <2>2. CASE /\ 0 \in DOMAIN plain /\ plain' = Renamed(plain, 0, index')
               /\ at' = IF compress THEN "create" ELSE "reopen"
               /\ UNCHANGED holed
      <3>1. Moved(plain, plain', 0, index') /\ 0 \notin DOMAIN plain'
        <4>1. Moved(plain, plain', 0, index')
          BY <2>1, <2>2, RenamedMoves
        <4>2. 0 \notin DOMAIN plain'
          <5>1. plain' = Without(With(plain, index', plain[0]), 0)
            BY <2>2 DEF Renamed
          <5>2. QED
            BY <5>1 DEF Without
        <4>3. QED
          BY <4>1, <4>2
      <3>2. plain'[index'] = plain[0]
        BY <2>2, <3>1 DEF Moved
      <3>3. QED
        BY <2>1, <2>2, <3>2 DEF Active, config
    <2>3. CASE at' = "reopen" /\ holed' = (holed \/ Style = "shift") /\ UNCHANGED <<plain, styles>>
      BY <2>1, <2>3 DEF Active, config
    <2>4. QED
      BY <1>10, <2>1, <2>2, <2>3 DEF Archive
  <1>11. CASE CreateGz
    BY <1>11 DEF CreateGz, LogInv, Reported, Active, config, state, history
  <1>12. CASE CopyGz
    BY <1>12 DEF CopyGz, LogInv, Reported, Active, config, state, history
  <1>13. CASE UnlinkPlain
    BY <1>13 DEF UnlinkPlain, LogInv, Reported, Active, config, state, history
  <1>14. CASE Reopen
    <2>1. at = "reopen" /\ at' = "write" /\ ~file /\ UNCHANGED <<config, index>>
      BY <1>14 DEF Reopen, LogInv, Reported
    <2>2. CASE plain' = Opened /\ file' = TRUE /\ current_size' = 0 /\ UNCHANGED holed
      BY <2>1, <2>2 DEF Active, config
    <2>3. CASE holed' = (holed \/ Style = "shift") /\ UNCHANGED <<plain, file, current_size>>
      BY <2>1, <2>3 DEF Active, Style, config
    <2>4. QED
      BY <1>14, <2>2, <2>3 DEF Reopen
  <1>15. CASE Restart
    BY <1>15, RoomForLines DEF Restart, Active
  <1>16. QED
    BY <1>1, <1>2, <1>3, <1>4, <1>5, <1>6, <1>7, <1>8, <1>9, <1>10, <1>11, <1>12, <1>13,
       <1>14, <1>15 DEF Next

\* What the invariant says while archives are without gaps.
Kept == ~holed /\ "append" \notin styles

LEMMA KeptFacts ==
  ASSUME KeptInv, Kept
  PROVE  /\ Contiguous /\ Vacant /\ Crossing /\ Falling(plain) /\ Falling(gz)
         /\ DOMAIN plain \subseteq Nat /\ DOMAIN gz \subseteq Nat /\ 0 \notin DOMAIN gz
         /\ rotation.keep \in Nat /\ index \in Nat
         /\ at \in {"create", "copy", "unlink"} => Style = "shift" /\ index = 1 /\ 1 \in DOMAIN plain
  BY LinesAreNumbers DEF KeptInv, Kept, Crossed, LogInv, TypeOK, Ordered, Underway

LEMMA KeptBefore ==
  ASSUME Next, Kept'
  PROVE  Kept
  BY DEF Next, Kept, Configure, CompressArchives, Install, Log, Write, CreateDirectory, DropOldest,
     Shift, ShiftEnds, Archive, CreateGz, CopyGz, UnlinkPlain, Reopen, Restart, state, history

\* Steps that leave the disk alone, and the place a shift is at.
LEMMA KeptDisk ==
  ASSUME KeptInv, Kept, UNCHANGED disk, Vacated' = Vacated,
         Vacated > 0 => rotation' = rotation,
         at' = "shift" => at = "shift" /\ index' = index,
         at' # "create"
  PROVE  Contiguous' /\ Vacant'
  <1>1. /\ Contiguous /\ Vacant /\ index \in Nat
        /\ plain' = plain /\ gz' = gz
    BY KeptFacts DEF disk
  <1>2. Contiguous'
    BY <1>1 DEF Contiguous, Full
  <1>3. at' = "shift" => rotation' = rotation
    BY <1>1 DEF Vacated
  <1>4. at' = "shift" => index' < rotation'.keep
    BY <1>1, <1>3 DEF Vacant
  <1>5. Vacated' > 0 /\ Vacated' < rotation'.keep => Vacated' \notin DOMAIN plain' \cup DOMAIN gz'
    BY <1>1 DEF Vacant
  <1>6. QED
    BY <1>2, <1>4, <1>5 DEF Vacant

LEMMA KeptIdle ==
  ASSUME KeptInv, Kept, Kept',
         Configure \/ CompressArchives \/ Log \/ CreateDirectory \/ ShiftEnds \/ Restart
  PROVE  Contiguous' /\ Vacant'
  <1>1. rotation.keep \in Nat /\ index \in Nat
    BY KeptFacts
  <1>2. CASE Configure \/ CompressArchives \/ Log
    <2>1. /\ at \in {"setup", "idle"} /\ at' \in {"setup", "idle", "mkdir", "write"}
          /\ UNCHANGED disk
      BY <1>2 DEF Configure, CompressArchives, Log
    <2>2. Vacated = 0 /\ Vacated' = 0
      BY <2>1 DEF Vacated
    <2>3. QED
      BY <2>1, <2>2, KeptDisk
  <1>3. CASE CreateDirectory
    <2>1. /\ at = "mkdir" /\ UNCHANGED disk /\ rotation' = rotation
          /\ at' \in {"drop", "archive", "reopen"}
          /\ (at' = "archive" => Style = "append")
      BY <1>3 DEF CreateDirectory, Style, config
    <2>2. Vacated = 0 /\ Vacated' = 0
      BY <2>1 DEF Vacated, Style
    <2>3. QED
      BY <2>1, <2>2, KeptDisk
  <1>4. CASE ShiftEnds
    <2>1. /\ at = "shift" /\ at' = "archive" /\ index = 0 /\ UNCHANGED <<disk, rotation>>
          /\ rotation.keep > 0
      BY <1>4 DEF ShiftEnds, KeptInv, LogInv, Underway, config
    <2>2. Vacated = 1 /\ Vacated' = 1
      BY <2>1 DEF Vacated, Style
    <2>3. QED
      BY <2>1, <2>2, KeptDisk
  <1>5. CASE Restart
    <2>1. /\ at' = "setup" /\ UNCHANGED disk
          /\ ~(at \in {"shift", "archive"} /\ Style = "shift")
      BY <1>5 DEF Restart, Kept
    <2>2. at = "shift" => Style = "shift"
      BY DEF KeptInv, LogInv, Underway, Style
    <2>3. Vacated = 0 /\ Vacated' = 0
      BY <2>1, <2>2 DEF Vacated
    <2>4. QED
      BY <2>1, <2>3, KeptDisk
  <1>6. QED
    BY <1>2, <1>3, <1>4, <1>5

\* The active file is opened, or written to.
LEMMA KeptActive ==
  ASSUME KeptInv, LogInv', Kept, Kept', Install \/ Reopen \/ Write
  PROVE  Contiguous' /\ Vacant'
  <1>1. /\ Contiguous /\ Vacant
        /\ DOMAIN plain \subseteq Nat /\ DOMAIN gz \subseteq Nat /\ 0 \notin DOMAIN gz
    BY KeptFacts
  <1>2. /\ at \in {"setup", "reopen", "write"} /\ at' \in {"idle", "write"}
        /\ gz' = gz
    BY DEF Install, Reopen, Write
  <1>3. Vacated = 0 /\ Vacated' = 0
    BY <1>2 DEF Vacated
  <1>4. /\ DOMAIN plain' \subseteq DOMAIN plain \cup {0} /\ DOMAIN plain \subseteq DOMAIN plain'
        /\ \A k \in DOMAIN plain : k # 0 => plain'[k] = plain[k]
    <2>1. CASE plain' = Opened
      BY <2>1, OpenedIs
    <2>2. CASE plain' = plain
      BY <2>2
    <2>3. CASE plain' = [plain EXCEPT ![0] = @ \cup {line}]
      BY <2>3
    <2>4. QED
      BY <2>1, <2>2, <2>3 DEF Install, Reopen, Write
  <1>5. Contiguous'
    BY <1>1, <1>2, <1>3, <1>4 DEF Contiguous, Full
  <1>6. Vacant'
    BY <1>2, <1>3 DEF Vacant
  <1>7. QED
    BY <1>5, <1>6

\* The place that is free moves to the end.
LEMMA KeptDrop ==
  ASSUME KeptInv, Kept, DropOldest
  PROVE  Contiguous' /\ Vacant'
  <1> DEFINE keep == rotation.keep
  <1>1. /\ Contiguous /\ keep \in Nat /\ keep > 0
        /\ DOMAIN plain \subseteq Nat /\ DOMAIN gz \subseteq Nat
    BY KeptFacts DEF DropOldest, KeptInv, LogInv, Underway
  <1>2. /\ at = "drop" /\ at' = "shift" /\ index' = keep - 1 /\ rotation' = rotation
        /\ Vacated = 0 /\ Vacated' = keep
    BY <1>1 DEF DropOldest, Vacated, config
  <1>3. /\ Fewer(plain, plain') /\ Fewer(gz, gz')
        /\ \A k \in DOMAIN plain : k # keep => k \in DOMAIN plain'
        /\ \A k \in DOMAIN gz : k # keep => k \in DOMAIN gz'
    BY DEF DropOldest, Without, Fewer
  <1> HIDE DEF keep
  <1>4. Contiguous'
    <2>1. \A i : i # keep /\ Full(i) => Full(i)'
      BY <1>3 DEF Full, Fewer
    <2>2. \A j \in DOMAIN plain \cup DOMAIN gz : \A i \in 1 .. j - 1 : Full(i)
      BY <1>1, <1>2 DEF Contiguous
    <2>3. QED
      BY <1>2, <1>3, <2>1, <2>2 DEF Contiguous, Fewer
  <1>5. Vacant'
    <2>1. index' < rotation'.keep
      BY <1>1, <1>2 DEF keep
    <2>2. ~(Vacated' < rotation'.keep)
      BY <1>1, <1>2 DEF keep
    <2>3. QED
      BY <1>2, <2>1, <2>2 DEF Vacant
  <1>6. QED
    BY <1>4, <1>5

\* The place that is free moves down.
LEMMA KeptShift ==
  ASSUME KeptInv, Kept, Kept', Shift
  PROVE  Contiguous' /\ Vacant'
  <1>1. /\ Contiguous /\ Vacant /\ index \in Nat /\ rotation.keep \in Nat
        /\ DOMAIN plain \subseteq Nat /\ DOMAIN gz \subseteq Nat
    BY KeptFacts
  <1>2. /\ at = "shift" /\ at' = "shift" /\ index > 0 /\ index' = index - 1 /\ rotation' = rotation
        /\ Vacated = index + 1
    BY DEF Shift, Vacated, config
  <1>3. Vacated' = index
    BY <1>1, <1>2 DEF Vacated
  <1>4. MovedAll(plain, plain', index, index + 1) /\ MovedAll(gz, gz', index, index + 1)
    <2>1. plain' = Renamed(plain, index, index + 1) /\ gz' = Renamed(gz, index, index + 1)
      BY DEF Shift, Kept
    <2>2. index # index + 1
      BY <1>1
    <2>3. /\ MovedAll(plain, Renamed(plain, index, index + 1), index, index + 1)
          /\ MovedAll(gz, Renamed(gz, index, index + 1), index, index + 1)
      BY <2>2, RenamedExactly, Zenon
    <2>4. QED
      BY <2>1, <2>3
  <1>5. /\ index \notin DOMAIN plain' \cup DOMAIN gz'
        /\ DOMAIN plain' \subseteq Nat /\ DOMAIN gz' \subseteq Nat
    BY <1>1, <1>4 DEF MovedAll
  <1>6. Vacant'
    BY <1>1, <1>2, <1>3, <1>5 DEF Vacant
  <1>7. Contiguous'
    <2> SUFFICES ASSUME NEW j \in (DOMAIN plain \cup DOMAIN gz)', NEW i \in 1 .. j - 1, i # index
                 PROVE  Full(i)'
      BY <1>3 DEF Contiguous
    <2>1. j \in Nat /\ j # index
      BY <1>5
    <2>2. CASE i = index + 1
      <3>1. j \in DOMAIN plain \cup DOMAIN gz /\ index \in 1 .. j - 1 /\ index # Vacated
        BY <1>1, <1>2, <1>4, <2>1, <2>2 DEF MovedAll
      <3>2. Full(index)
        BY <1>1, <3>1 DEF Contiguous
      <3>3. QED
        BY <1>4, <2>2, <3>2 DEF Full, MovedAll
    <2>3. CASE i # index + 1
      <3>1. \/ j \in DOMAIN plain \cup DOMAIN gz
            \/ j = index + 1 /\ index \in DOMAIN plain \cup DOMAIN gz /\ i \in 1 .. index - 1
        BY <1>1, <1>4, <2>1, <2>3 DEF MovedAll
      <3>2. Full(i)
        BY <1>1, <1>2, <2>3, <3>1 DEF Contiguous
      <3>3. QED
        BY <1>4, <2>3, <3>2 DEF Full, MovedAll
    <2>4. QED
      BY <2>2, <2>3
  <1>8. QED
    BY <1>6, <1>7

\* The place that is free is filled by the active file.
LEMMA KeptArchive ==
  ASSUME KeptInv, Kept, Kept', Archive
  PROVE  Contiguous' /\ Vacant'
  <1>1. /\ Contiguous /\ Vacant /\ index \in Nat /\ rotation.keep \in Nat
        /\ DOMAIN plain \subseteq Nat /\ DOMAIN gz \subseteq Nat /\ 0 \notin DOMAIN gz
    BY KeptFacts
  <1>2. /\ at = "archive" /\ rotation' = rotation /\ gz' = gz
        /\ Vacated = IF Style = "shift" THEN 1 ELSE 0
    BY DEF Archive, Vacated, config
  <1>3. CASE /\ 0 \in DOMAIN plain
             /\ plain' = Renamed(plain, 0, IF Style = "shift" THEN 1 ELSE next_archive_index)
             /\ styles' = styles \cup {Style}
             /\ at' = IF compress THEN "create" ELSE "reopen"
    <2>1. Style = "shift"
      BY <1>3 DEF Kept, Style
    <2>2. Vacated = 1 /\ Vacated' = 0 /\ plain' = Renamed(plain, 0, 1)
      BY <1>2, <1>3, <2>1 DEF Vacated
    <2>3. MovedAll(plain, plain', 0, 1)
      BY <2>2, RenamedExactly
    <2>4. Contiguous'
      BY <1>1, <1>2, <1>3, <2>2, <2>3 DEF Contiguous, Full, MovedAll
    <2>5. Vacant'
      BY <1>1, <1>2, <1>3, <2>2 DEF Vacant
    <2>6. QED
      BY <2>4, <2>5
  <1>4. CASE /\ at' = "reopen" /\ holed' = (holed \/ Style = "shift")
             /\ UNCHANGED <<plain, styles>>
    <2>1. Style # "shift"
      BY <1>4 DEF Kept
    <2>2. Vacated = 0 /\ Vacated' = 0 /\ UNCHANGED disk
      BY <1>2, <1>4, <2>1 DEF Vacated, disk
    <2>3. QED
      BY <1>4, <2>2, KeptDisk
  <1>5. QED
    BY <1>3, <1>4 DEF Archive

\* The archive is compressed.
LEMMA KeptCompress ==
  ASSUME KeptInv, Kept, CreateGz \/ CopyGz
  PROVE  Contiguous' /\ Vacant'
  <1>1. /\ at \in {"create", "copy"} /\ at' \in {"copy", "unlink", "reopen"}
        /\ plain' = plain /\ rotation' = rotation /\ index' = index
    BY DEF CreateGz, CopyGz, config
  <1>2. /\ Contiguous /\ Vacant /\ index = 1 /\ 1 \in DOMAIN plain
        /\ DOMAIN plain \subseteq Nat /\ DOMAIN gz \subseteq Nat
    BY <1>1, KeptFacts
  <1>3. Vacated = 0 /\ Vacated' = 0
    BY <1>1 DEF Vacated
  <1>4. /\ DOMAIN gz \ {1} \subseteq DOMAIN gz' /\ DOMAIN gz' \subseteq DOMAIN gz \cup {1}
        /\ \A k \in DOMAIN gz : k # 1 => gz'[k] = gz[k]
        /\ 1 \in DOMAIN gz' => gz'[1] = {} \/ gz'[1] = plain[1] \/ (1 \in DOMAIN gz /\ gz'[1] = gz[1])
    <2>1. \/ gz' = gz \/ gz' = With(gz, 1, {})
          \/ gz' = With(gz, 1, plain[1]) \/ gz' = Without(gz, 1)
      BY <1>2 DEF CreateGz, CopyGz
    <2>2. CASE gz' = gz
      BY <2>2
    <2>3. CASE gz' = With(gz, 1, {})
      BY <2>3 DEF With
    <2>4. CASE gz' = With(gz, 1, plain[1])
      BY <2>4 DEF With
    <2>5. CASE gz' = Without(gz, 1)
      BY <2>5 DEF Without
    <2>6. QED
      BY <2>1, <2>2, <2>3, <2>4, <2>5
  <1>5. Contiguous'
    <2>1. \A i : Full(i) => Full(i)'
      BY <1>1, <1>2, <1>4 DEF Full
    <2>2. \A j \in (DOMAIN plain \cup DOMAIN gz)' : j = 1 \/ j \in DOMAIN plain \cup DOMAIN gz
      BY <1>1, <1>4
    <2>3. QED
      BY <1>2, <1>3, <2>1, <2>2 DEF Contiguous
  <1>6. Vacant'
    BY <1>1, <1>3 DEF Vacant
  <1>7. QED
    BY <1>5, <1>6

LEMMA KeptUnlink ==
  ASSUME KeptInv, Kept, UnlinkPlain
  PROVE  Contiguous' /\ Vacant'
  <1>1. /\ at = "unlink" /\ at' = "reopen" /\ gz' = gz
        /\ plain' = plain \/ plain' = Without(plain, index)
    BY DEF UnlinkPlain
  <1>2. /\ Contiguous /\ index = 1
        /\ 1 \in DOMAIN gz /\ gz[1] # {}
    <2>1. Contiguous /\ index = 1 /\ Style = "shift" /\ rotation.keep \in Nat
      BY <1>1, KeptFacts
    <2>2. rotation.keep > 0
      BY <2>1 DEF Style
    <2>3. QED
      BY <1>1, <2>1, <2>2 DEF KeptInv, Kept, LogInv, Underway, Active
  <1>3. Fewer(plain, plain') /\ \A k \in DOMAIN plain : k # 1 => k \in DOMAIN plain'
    BY <1>1, <1>2 DEF Without, Fewer
  <1>4. Vacated = 0 /\ Vacated' = 0
    BY <1>1 DEF Vacated
  <1>5. Contiguous'
    <2>1. \A i : Full(i) => Full(i)'
      BY <1>1, <1>2, <1>3 DEF Full
    <2>2. QED
      BY <1>1, <1>2, <1>3, <1>4, <2>1 DEF Contiguous, Fewer
  <1>6. Vacant'
    BY <1>1, <1>4 DEF Vacant
  <1>7. QED
    BY <1>5, <1>6

LEMMA KeptInit ==
  ASSUME Fits
  PROVE  Init => KeptInv
  <1> SUFFICES ASSUME Init
               PROVE  KeptInv
    OBVIOUS
  <1>1. DOMAIN plain = {} /\ DOMAIN gz = {} /\ at = "setup"
    BY DEF Init
  <1>2. Contiguous /\ Vacant
    BY <1>1 DEF Contiguous, Vacant, Vacated
  <1>3. QED
    BY <1>2, LogInit, CrossedInit, ActiveInit DEF KeptInv

LEMMA KeptNext ==
  ASSUME Fits
  PROVE  KeptInv /\ [Next]_vars => KeptInv'
  <1>1. ASSUME KeptInv, Next
        PROVE  KeptInv'
    <2>1. LogInv' /\ Crossed' /\ Active'
      BY <1>1, LogNext, CrossedNext, ActiveNext DEF KeptInv
    <2>2. ASSUME Kept'
          PROVE  Contiguous' /\ Vacant'
      <3>1. Kept
        BY <1>1, <2>2, KeptBefore
      <3>2. QED
        BY <1>1, <2>1, <2>2, <3>1, KeptIdle, KeptActive, KeptDrop, KeptShift, KeptArchive,
           KeptCompress, KeptUnlink DEF Next
    <2>3. QED
      BY <2>1, <2>2 DEF KeptInv, Kept
  <1>2. ASSUME KeptInv, UNCHANGED vars
        PROVE  KeptInv'
    <2>1. LogInv' /\ Crossed'
      BY <1>2, LogNext, CrossedNext DEF KeptInv
    <2>2. QED
      BY <1>2, <2>1 DEF KeptInv, Active, Contiguous, Full, Vacated, Vacant, Style,
         vars, disk, config, state, history
  <1>3. QED
    BY <1>1, <1>2

LEMMA KeptInvHolds ==
  ASSUME Fits
  PROVE  Spec => []KeptInv
  <1>1. Init => KeptInv
    BY KeptInit
  <1>2. KeptInv /\ [Next]_vars => KeptInv'
    BY KeptNext
  <1>3. QED
    BY <1>1, <1>2, PTL DEF Spec

(***************************************************************************)
(* What takes a line off the disk.                                         *)
(***************************************************************************)

\* Only four steps of a rotation can.
LEMMA FourStepsLose ==
  ASSUME LogInv, Next, ~(DropOldest \/ Shift \/ Archive \/ CreateGz)
  PROVE  Readable \subseteq Readable'
  <1> SUFFICES ASSUME NEW l \in Readable
               PROVE  \/ \E k \in DOMAIN plain' : l \in plain'[k]
                      \/ \E k \in DOMAIN gz' : l \in gz'[k]
    BY DEF Readable, LinesOf
  <1>1. \/ \E k \in DOMAIN plain : l \in plain[k]
        \/ \E k \in DOMAIN gz : l \in gz[k]
    BY DEF Readable, LinesOf
  <1>2. CASE UNCHANGED disk
    BY <1>1, <1>2 DEF disk
  <1>3. CASE Install \/ Reopen
    <2>1. gz' = gz /\ (plain' = plain \/ plain' = Opened)
      BY <1>3 DEF Install, Reopen
    <2>2. QED
      BY <1>1, <2>1, OpenedIs
  <1>4. CASE Write
    <2>1. CASE file /\ plain' = [plain EXCEPT ![0] = @ \cup {line}]
      BY <1>1, <1>4, <2>1 DEF Write, LogInv, TypeOK
    <2>2. QED
      BY <1>1, <1>4, <2>1 DEF Write
  <1>5. CASE CopyGz
    <2>1. /\ index \in DOMAIN gz /\ gz[index] = {} /\ plain' = plain
          /\ gz' = gz \/ gz' = Without(gz, index) \/ gz' = With(gz, index, plain[index])
      BY <1>5 DEF CopyGz, LogInv, Underway
    <2>2. \A k \in DOMAIN gz : k # index => k \in DOMAIN gz' /\ gz'[k] = gz[k]
      BY <2>1 DEF With, Without
    <2>3. QED
      BY <1>1, <2>1, <2>2
  <1>6. CASE UnlinkPlain
    <2>1. /\ index \in DOMAIN gz /\ gz[index] = plain[index] /\ gz' = gz
          /\ plain' = plain \/ plain' = Without(plain, index)
      BY <1>6 DEF UnlinkPlain, LogInv, Underway
    <2>2. \A k \in DOMAIN plain : k # index => k \in DOMAIN plain' /\ plain'[k] = plain[k]
      BY <2>1 DEF Without
    <2>3. QED
      BY <1>1, <2>1, <2>2
  <1>7. QED
    BY <1>2, <1>3, <1>4, <1>5, <1>6
       DEF Next, Configure, CompressArchives, Log, CreateDirectory, ShiftEnds, Restart

\* What has a smaller index is newer, in whichever form.
LEMMA NewerBelow ==
  ASSUME KeptInv, Kept, NEW k \in Nat, NEW l,
         (k \in DOMAIN plain /\ l \in plain[k]) \/ (k \in DOMAIN gz /\ l \in gz[k]),
         NEW i \in Nat, i < k, Full(i)
  PROVE  \/ i \in DOMAIN plain /\ \A m \in plain[i] : m > l
         \/ i \in DOMAIN gz /\ gz[i] # {} /\ \A m \in gz[i] : m > l
  <1>1. Crossing /\ Falling(plain) /\ Falling(gz)
    BY KeptFacts
  <1>2. /\ l \in Nat
        /\ \A j \in DOMAIN plain : \A m \in plain[j] : m \in Nat
        /\ \A j \in DOMAIN gz : \A m \in gz[j] : m \in Nat
    BY LinesAreNumbers DEF KeptInv
  <1>3. \A m \in Nat : l < m <=> m > l
    BY <1>2
  <1>4. /\ i \in DOMAIN plain => \A m \in plain[i] : l < m
        /\ i \in DOMAIN gz => \A m \in gz[i] : l < m
    BY <1>1 DEF Crossing, Falling, Before
  <1>5. QED
    BY <1>2, <1>3, <1>4 DEF Full

\* The files 0, 1 and so on, one fewer than keep, and one more of another index.
LEMMA AsManyAsKept ==
  ASSUME NEW S \in SUBSET Nat, NEW b \in Nat, \A s \in S : s <= b,
         NEW keep \in Nat, keep > 0, NEW n \in S, n > keep - 2,
         \A i \in 0 .. keep - 2 : i \in S
  PROVE  Cardinality(S) >= keep
  <1>1. IsFiniteSet(S)
    BY FS_BoundedSetOfNaturals
  <1>2. IsFiniteSet(0 .. keep - 2) /\ Cardinality(0 .. keep - 2) = keep - 1
    <2>1. 0 \in Int /\ keep - 2 \in Int
      OBVIOUS
    <2>2. /\ IsFiniteSet(0 .. keep - 2)
          /\ Cardinality(0 .. keep - 2) = IF 0 > keep - 2 THEN 0 ELSE (keep - 2) - 0 + 1
      BY <2>1, FS_Interval
    <2>3. QED
      BY <2>2
  <1>3. n \notin 0 .. keep - 2
    OBVIOUS
  <1>4. Cardinality((0 .. keep - 2) \cup {n}) = keep
    <2>1. Cardinality((0 .. keep - 2) \cup {n}) = Cardinality(0 .. keep - 2) + 1
      BY <1>2, <1>3, FS_AddElement
    <2>2. QED
      BY <1>2, <2>1
  <1>5. (0 .. keep - 2) \cup {n} \in SUBSET S
    OBVIOUS
  <1>6. Cardinality((0 .. keep - 2) \cup {n}) <= Cardinality(S) /\ Cardinality(S) \in Nat
    BY <1>1, <1>5, FS_Subset, FS_CardinalityType
  <1>7. QED
    BY <1>4, <1>6

LEMMA GoneForNewer ==
  ASSUME KeptInv, KeptInv', Kept, Kept', Next, Prunes, NEW l \in Readable \ Readable'
  PROVE  Cardinality(FilesNewer(l)') >= rotation.keep
  <1> DEFINE keep == rotation.keep
             In(f, k) == k \in DOMAIN f /\ l \in f[k]
             Newer(f, k) == k \in DOMAIN f /\ f[k] # {} /\ \A m \in f[k] : m > l
  <1>1. /\ keep \in Nat /\ keep > 0 /\ Style = "shift" /\ index \in Nat
        /\ Contiguous /\ Vacant
        /\ DOMAIN plain \subseteq Nat /\ DOMAIN gz \subseteq Nat /\ 0 \notin DOMAIN gz
    BY KeptFacts DEF Prunes, Style
  <1>2. /\ \E k : In(plain, k) \/ In(gz, k)
        /\ \A k : ~In(plain', k) /\ ~In(gz', k)
    BY DEF Readable, LinesOf
  <1>3. ASSUME NEW k \in Nat, In(plain, k) \/ In(gz, k), NEW i \in Nat, i < k, Full(i)
        PROVE  \/ i \in DOMAIN plain /\ \A m \in plain[i] : m > l
               \/ Newer(gz, i)
    BY <1>3, NewerBelow
  <1>4. \A i : \/ i \in DOMAIN plain' /\ \A m \in plain'[i] : m > l
               \/ Newer(gz', i)
               => i \in FilesNewer(l)'
    BY DEF FilesNewer
  <1>5. ASSUME NEW n \in FilesNewer(l)', n > keep - 2,
               \A i \in 0 .. keep - 2 : i \in FilesNewer(l)'
        PROVE  Cardinality(FilesNewer(l)') >= keep
    <2>1. FilesNewer(l)' \in SUBSET (DOMAIN plain \cup DOMAIN gz)'
      BY DEF FilesNewer
    <2>2. /\ line' \in Nat /\ (DOMAIN plain \cup DOMAIN gz)' \in SUBSET Nat
          /\ \A s \in (DOMAIN plain \cup DOMAIN gz)' : s <= line'
      BY LogFileAssumption DEF KeptInv, LogInv, TypeOK, Numbered
    <2>3. FilesNewer(l)' \in SUBSET Nat /\ \A s \in FilesNewer(l)' : s <= line'
      BY <2>1, <2>2
    <2>4. QED
      BY <1>1, <1>5, <2>2, <2>3, AsManyAsKept
  <1> HIDE DEF In, Newer
  <1>6. CASE DropOldest
    <2>1. /\ at = "drop" /\ 0 \in DOMAIN plain /\ Vacated = 0
          /\ plain' = plain \/ plain' = Without(plain, keep)
          /\ gz' = gz \/ gz' = Without(gz, keep)
      BY <1>1, <1>6 DEF DropOldest, KeptInv, Kept, Active, Vacated
    <2>2. /\ \A k \in DOMAIN plain : k # keep => k \in DOMAIN plain' /\ plain'[k] = plain[k]
          /\ \A k \in DOMAIN gz : k # keep => k \in DOMAIN gz' /\ gz'[k] = gz[k]
      BY <2>1 DEF Without
    <2>3. In(plain, keep) \/ In(gz, keep)
      BY <1>2, <2>2 DEF In
    <2>4. ASSUME NEW i \in 0 .. keep - 1
          PROVE  i \in FilesNewer(l)'
      <3>1. Full(i)
        BY <1>1, <2>1, <2>3 DEF Contiguous, Full, In
      <3>2. \/ i \in DOMAIN plain /\ \A m \in plain[i] : m > l
            \/ Newer(gz, i)
        BY <1>1, <1>3, <2>3, <3>1
      <3>3. i # keep
        BY <1>1
      <3>4. QED
        BY <1>4, <2>2, <3>2, <3>3 DEF Newer
    <2>5. keep - 1 \in 0 .. keep - 1 /\ keep - 1 > keep - 2 /\ \A i \in 0 .. keep - 2 : i \in 0 .. keep - 1
      BY <1>1
    <2>6. QED
      BY <1>5, <2>4, <2>5
  <1>7. CASE Shift
    <2>1. /\ at = "shift" /\ index > 0 /\ index + 1 \in Nat /\ index # index + 1
          /\ index < keep /\ Vacated = index + 1
      BY <1>1, <1>7 DEF Shift, Vacated, Vacant
    <2>2. MovedAll(plain, plain', index, index + 1) /\ MovedAll(gz, gz', index, index + 1)
      <3>1. plain' = Renamed(plain, index, index + 1) /\ gz' = Renamed(gz, index, index + 1)
        BY <1>7 DEF Shift, Kept
      <3>2. /\ MovedAll(plain, Renamed(plain, index, index + 1), index, index + 1)
            /\ MovedAll(gz, Renamed(gz, index, index + 1), index, index + 1)
        BY <2>1, RenamedExactly, Zenon
      <3>3. QED
        BY <3>1, <3>2
    <2>3. In(plain, index + 1) \/ In(gz, index + 1)
      BY <1>2, <2>1, <2>2 DEF MovedAll, In
    <2>4. index + 1 = keep
      BY <1>1, <2>1, <2>3 DEF Vacant, In
    <2>5. \A i \in 1 .. keep - 1 : Full(i)
      BY <1>1, <2>1, <2>3, <2>4 DEF Contiguous, In
    <2>6. 0 \in DOMAIN plain
      BY <1>1, <2>1 DEF KeptInv, Kept, Active
    <2>7. ASSUME NEW i \in 0 .. keep - 1
          PROVE  \/ i \in DOMAIN plain /\ \A m \in plain[i] : m > l
                 \/ Newer(gz, i)
      <3>1. Full(i)
        BY <1>1, <2>5, <2>6 DEF Full
      <3>2. QED
        BY <1>1, <1>3, <2>3, <2>4, <3>1
    <2>8. keep \in FilesNewer(l)'
      <3>1. index \in 0 .. keep - 1
        BY <1>1, <2>4
      <3>2. QED
        BY <1>4, <2>2, <2>4, <2>7, <3>1 DEF MovedAll, Newer
    <2>9. ASSUME NEW i \in 0 .. keep - 2
          PROVE  i \in FilesNewer(l)'
      <3>1. i \in 0 .. keep - 1 /\ i # index /\ i # index + 1
        BY <1>1, <2>4
      <3>2. QED
        BY <1>4, <2>2, <2>7, <3>1 DEF MovedAll, Newer
    <2>10. keep > keep - 2
      BY <1>1
    <2>11. QED
      BY <1>5, <2>8, <2>9, <2>10
  <1>8. CASE Archive
    <2>1. at = "archive" /\ Vacated = 1 /\ gz' = gz
      BY <1>1, <1>8 DEF Archive, Vacated
    <2>2. 0 \in DOMAIN plain /\ plain' = Renamed(plain, 0, 1)
      <3>1. \/ 0 \in DOMAIN plain /\ plain' = Renamed(plain, 0, 1)
            \/ plain' = plain
        BY <1>1, <1>8 DEF Archive
      <3>2. QED
        BY <1>2, <2>1, <3>1
    <2>3. MovedAll(plain, plain', 0, 1)
      BY <2>2, RenamedExactly
    <2>4. In(plain, 1)
      BY <1>2, <2>1, <2>2, <2>3 DEF MovedAll, In
    <2>5. keep = 1
      BY <1>1, <2>1, <2>4 DEF Vacant, In
    <2>6. 1 \in FilesNewer(l)'
      <3>1. Full(0)
        BY <2>2 DEF Full
      <3>2. 0 \in DOMAIN plain /\ \A m \in plain[0] : m > l
        BY <1>1, <1>3, <2>4, <3>1 DEF Newer
      <3>3. QED
        BY <1>4, <2>2, <2>3, <3>2 DEF MovedAll
    <2>7. 1 > keep - 2 /\ \A i \in 0 .. keep - 2 : i \in FilesNewer(l)'
      BY <2>5
    <2>8. QED
      BY <1>5, <2>6, <2>7
  <1>9. CASE CreateGz
    <2>1. /\ at = "create" /\ index = 1 /\ 1 \in DOMAIN plain /\ plain' = plain
          /\ gz' = gz \/ gz' = With(gz, 1, {})
      BY <1>9, KeptFacts DEF CreateGz
    <2>2. In(gz, 1)
      BY <1>2, <2>1 DEF With, In
    <2>3. keep = 1
      BY <1>1, <2>1, <2>2 DEF Vacant, In
    <2>4. 1 \in FilesNewer(l)'
      <3>1. \A m \in plain[1] : m > l
        <4>1. Before(gz, 1, plain, 1)
          BY <2>1, <2>2 DEF KeptInv, LogInv, Ages, In
        <4>2. l \in Nat /\ \A m \in plain[1] : m \in Nat
          BY <2>1, <2>2, LinesAreNumbers DEF KeptInv, In
        <4>3. QED
          BY <2>2, <4>1, <4>2 DEF Before, In
      <3>2. QED
        BY <1>4, <2>1, <3>1
    <2>5. 1 > keep - 2 /\ \A i \in 0 .. keep - 2 : i \in FilesNewer(l)'
      BY <2>3
    <2>6. QED
      BY <1>5, <2>4, <2>5
  <1>10. QED
    <2>1. LogInv
      BY DEF KeptInv
    <2>2. DropOldest \/ Shift \/ Archive \/ CreateGz
      BY <2>1, FourStepsLose
    <2>3. QED
      BY <1>6, <1>7, <1>8, <1>9, <2>2

(***************************************************************************)
(* Theorems.                                                               *)
(***************************************************************************)

\* The settings, the state of log() and rotate, and the files keep their types,
\* whatever fails: the active file is there whenever the logger holds it open.
THEOREM LogTypeCorrect == Spec => []TypeOK
  BY LogInvHolds, PTL DEF LogInv

\* A process that did not write a line it logged has set file_write_reported:
\* whichever operations of a rotation, of its reopening or of the write fail.
THEOREM LossesAreReported == Spec => []LossIsReported
  <1>1. LogInv => LossIsReported
    BY DEF LogInv, Reported, LossIsReported
  <1>2. QED
    BY <1>1, LogInvHolds, PTL

\* Archives are in the order of their indices and the active file is the newest,
\* with any failures and restarts, among archives of one form: a rename moves a
\* file past none that is there, and find_next_archive_index returns an index
\* after all.  Both forms are in one order as long as no shift was cut short: they
\* move up together, and a `.gz` is where its archive was.
THEOREM ArchivesAreInOrder == Spec => []ArchivesInOrder
  <1>1. LogInv /\ Crossed => ArchivesInOrder
    <2> SUFFICES ASSUME LogInv, Crossed, NEW f \in {plain, gz}, NEW g \in {plain, gz},
                        NEW i \in DOMAIN f, NEW j \in DOMAIN g, i < j
                 PROVE  /\ i = 0 => Before(g, j, f, i)
                        /\ f = g \/ ~holed =>
                             /\ styles \subseteq {"shift"} => Before(g, j, f, i)
                             /\ styles \subseteq {"append"} /\ i > 0 => Before(f, i, g, j)
      BY DEF ArchivesInOrder
    <2>1. i \in Nat /\ j \in Nat /\ j # 0 /\ (i > 0 <=> 0 < i)
      BY LinesAreNumbers
    <2>2. ASSUME i = 0
          PROVE  Before(g, j, f, i)
      <3>1. f = plain
        BY <2>2 DEF LogInv, TypeOK
      <3>2. QED
        BY <2>1, <2>2, <3>1 DEF LogInv, Ages
    <2>3. ASSUME f = g
          PROVE  /\ styles \subseteq {"shift"} => Before(g, j, f, i)
                 /\ styles \subseteq {"append"} /\ i > 0 => Before(f, i, g, j)
      BY <2>1, <2>3 DEF LogInv, Ordered, Falling, Rising
    <2>4. ASSUME f # g, ~holed
          PROVE  /\ styles \subseteq {"shift"} => Before(g, j, f, i)
                 /\ styles \subseteq {"append"} /\ i > 0 => Before(f, i, g, j)
      BY <2>1, <2>4 DEF Crossed, Crossing, Climbing
    <2>5. QED
      BY <2>2, <2>3, <2>4
  <1>2. QED
    BY <1>1, CrossedHolds, PTL

\* Where rotations keep everything, no step takes a line off the disk: not a
\* failed rename, copy or removal, not the end of the process between two of
\* them, nor what processes with other settings left there.
THEOREM AppendKeepsEverything == Spec => AppendLosesNothing
  <1>1. ASSUME LogInv, LogInv', [Next]_vars
        PROVE  [~Prunes => Readable \subseteq Readable']_vars
    <2> SUFFICES ASSUME Next, ~Prunes
                 PROVE  Readable \subseteq Readable'
      BY <1>1
    <2>1. rotation.keep = 0 /\ Style = "append"
      BY <1>1 DEF Prunes, Style, LogInv, TypeOK, Underway
    <2>2. CASE ~(DropOldest \/ Shift \/ Archive \/ CreateGz)
      BY <1>1, <2>2, FourStepsLose
    <2>3. CASE DropOldest \/ Shift
      BY <1>1, <2>1, <2>3 DEF DropOldest, Shift, LogInv, Underway
    <2> SUFFICES ASSUME NEW l \in Readable, Archive \/ CreateGz
                 PROVE  \/ \E k \in DOMAIN plain' : l \in plain'[k]
                        \/ \E k \in DOMAIN gz' : l \in gz'[k]
      BY <2>2, <2>3 DEF Readable, LinesOf
    <2>4. \/ \E k \in DOMAIN plain : l \in plain[k]
          \/ \E k \in DOMAIN gz : l \in gz[k]
      BY DEF Readable, LinesOf
    <2>5. CASE Archive
      <3>1. /\ next_archive_index # 0
            /\ \A k \in DOMAIN plain : k # next_archive_index
            /\ gz' = gz
            /\ plain' = plain \/ (0 \in DOMAIN plain /\ plain' = Renamed(plain, 0, next_archive_index))
        BY <1>1, <2>1, <2>5, LinesAreNumbers DEF Archive, LogInv, TypeOK, Numbered
      <3>2. Moved(plain, plain', 0, next_archive_index)
        <4>1. CASE plain' = plain
          BY <4>1 DEF Moved
        <4>2. CASE plain' = Renamed(plain, 0, next_archive_index)
          BY <3>1, <4>2, RenamedMoves
        <4>3. QED
          BY <3>1, <4>1, <4>2
      <3>3. QED
        BY <2>4, <3>1, <3>2 DEF Moved
    <2>6. CASE CreateGz
      <3>1. /\ index \notin DOMAIN gz /\ plain' = plain
            /\ gz' = gz \/ gz' = With(gz, index, {})
        BY <1>1, <2>1, <2>6 DEF CreateGz, LogInv, Underway
      <3>2. QED
        BY <2>4, <3>1 DEF With
    <2>7. QED
      BY <2>5, <2>6
  <1>2. QED
    BY <1>1, LogInvHolds, PTL DEF Spec, AppendLosesNothing

\* Where rotations delete archives, a line leaves the disk only when rotation_keep
\* files newer than it stay: the shift drops the archive at the end of a row
\* without gaps, and a `.gz` is emptied only beside the newer archive that it is
\* to hold.
THEOREM NewestAreKept ==
  ASSUME Fits
  PROVE  Spec => NewestKept
  <1>1. ASSUME KeptInv, KeptInv', [Next]_vars
        PROVE  [Prunes /\ ~holed' /\ "append" \notin styles =>
                 \A l \in Readable \ Readable' : Cardinality(FilesNewer(l)') >= rotation.keep]_vars
    <2> SUFFICES ASSUME Next, Prunes, ~holed', "append" \notin styles,
                        NEW l \in Readable \ Readable'
                 PROVE  Cardinality(FilesNewer(l)') >= rotation.keep
      BY <1>1
    <2>1. Kept'
      BY DEF Kept, Prunes, Style, Next, Configure, CompressArchives, Install, Log, Write,
         CreateDirectory, DropOldest, Shift, ShiftEnds, Archive, CreateGz, CopyGz, UnlinkPlain,
         Reopen, Restart, history
    <2>2. Kept
      BY <2>1, KeptBefore
    <2>3. QED
      BY <1>1, <2>1, <2>2, GoneForNewer
  <1>2. QED
    BY <1>1, KeptInvHolds, PTL DEF Spec, NewestKept

=============================================================================
