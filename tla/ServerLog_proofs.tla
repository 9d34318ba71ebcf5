---------------------------- MODULE ServerLog_proofs ----------------------------
(***************************************************************************)
(* Theorems about ServerLog, for any number of threads and lines and any   *)
(* limit of the backlog: whatever the threads that log and the flushes of  *)
(* the main thread do to each other, the server's log is in causal order,  *)
(* repeats nothing, and every drop is counted.                             *)
(***************************************************************************)
EXTENDS ServerLog, SequenceTheorems, FiniteSetTheorems, TLAPS

(***************************************************************************)
(* Lemmas on sequences of lines.                                           *)
(***************************************************************************)

\* A line is added at the end.
LEMMA Added ==
  ASSUME NEW S, NEW s \in Seq(S), NEW e \in S
  PROVE  /\ Append(s, e) \in Seq(S)
         /\ Range(Append(s, e)) = Range(s) \cup {e}
         /\ IsInjective(s) /\ e \notin Range(s) => IsInjective(Append(s, e))
  <1> DEFINE a == Append(s, e)
  <1>1. Len(s) \in Nat /\ DOMAIN s = 1 .. Len(s)
    BY LenProperties
  <1>2. /\ a \in Seq(S)
        /\ Len(a) = Len(s) + 1
        /\ a[Len(s) + 1] = e
        /\ \A i \in 1 .. Len(s) : a[i] = s[i]
    BY AppendProperties
  <1>3. DOMAIN a = 1 .. Len(s) + 1
    BY <1>2, LenProperties
  <1> HIDE DEF a
  <1>4. Range(a) = Range(s) \cup {e}
    BY <1>1, <1>2, <1>3 DEF Range
  <1>5. ASSUME IsInjective(s), e \notin Range(s)
        PROVE  IsInjective(a)
    BY <1>1, <1>2, <1>3, <1>5 DEF IsInjective, Range
  <1>6. QED
    BY <1>2, <1>4, <1>5 DEF a

\* The first line is taken away.
LEMMA FirstTaken ==
  ASSUME NEW S, NEW s \in Seq(S), s # <<>>
  PROVE  /\ Head(s) \in S
         /\ Tail(s) \in Seq(S)
         /\ Range(s) = Range(Tail(s)) \cup {Head(s)}
         /\ IsInjective(s) => IsInjective(Tail(s)) /\ Head(s) \notin Range(Tail(s))
  <1> DEFINE t == Tail(s)
  <1>1. Len(s) \in Nat \ {0} /\ DOMAIN s = 1 .. Len(s) /\ Head(s) = s[1]
    BY LenProperties, EmptySeq
  <1>2. /\ Head(s) \in S
        /\ t \in Seq(S)
        /\ Len(t) = Len(s) - 1
        /\ \A i \in 1 .. Len(t) : t[i] = s[i + 1]
    BY HeadTailProperties
  <1>3. DOMAIN t = 1 .. Len(s) - 1
    BY <1>2, LenProperties
  <1> HIDE DEF t
  <1>4. \A i \in 1 .. Len(s) : i = 1 \/ (i - 1 \in DOMAIN t /\ t[i - 1] = s[i])
    BY <1>1, <1>2, <1>3
  <1>5. \A i \in DOMAIN t : i + 1 \in DOMAIN s /\ i + 1 # 1 /\ t[i] = s[i + 1]
    BY <1>1, <1>2, <1>3
  <1>6. Range(s) = Range(t) \cup {Head(s)}
    BY <1>1, <1>4, <1>5 DEF Range
  <1>7. ASSUME IsInjective(s)
        PROVE  IsInjective(t) /\ Head(s) \notin Range(t)
    <2>1. \A i, j \in DOMAIN t : t[i] = t[j] => i + 1 = j + 1
      BY <1>5, <1>7 DEF IsInjective
    <2>2. IsInjective(t)
      BY <2>1, <1>3, <1>1 DEF IsInjective
    <2>3. 1 \in DOMAIN s
      BY <1>1
    <2>4. \A i \in DOMAIN t : t[i] # s[1]
      BY <1>5, <1>7, <2>3 DEF IsInjective
    <2>5. QED
      BY <2>2, <2>4, <1>1 DEF Range
  <1>8. QED
    BY <1>2, <1>6, <1>7 DEF t

\* The empty sequence has no lines.
LEMMA NoLines ==
  /\ Range(<<>>) = {}
  /\ IsInjective(<<>>)
  BY DEF Range, IsInjective

LEMMA SomeLine ==
  ASSUME NEW S, NEW s \in Seq(S), s # <<>>
  PROVE  Range(s) # {}
  <1>1. Len(s) \in Nat \ {0} /\ DOMAIN s = 1 .. Len(s)
    BY LenProperties, EmptySeq
  <1>2. s[1] \in Range(s)
    BY <1>1 DEF Range
  <1>3. QED
    BY <1>2

(***************************************************************************)
(* Causes before effects, in one sequence: what the lines of s were caused *)
(* by is ahead of them in s, or in base.                                   *)
(***************************************************************************)

Ordered(entries, s, base) ==
  \A i \in DOMAIN s : \A id \in entries[s[i]].before :
    id \in base \/ \E j \in 1 .. i - 1 : s[j] = id

LEMMA OrderedEmpty ==
  ASSUME NEW entries, NEW base
  PROVE  Ordered(entries, <<>>, base)
  BY DEF Ordered

\* More may come to be ahead of s, and other entries be added.
LEMMA OrderedKept ==
  ASSUME NEW entries, NEW others, NEW s, NEW base, NEW wider,
         Ordered(entries, s, base), base \subseteq wider,
         \A id \in Range(s) : others[id] = entries[id]
  PROVE  Ordered(others, s, wider)
  BY DEF Ordered, Range

\* A line added at the end finds its causes in base or in s.
LEMMA OrderedAdded ==
  ASSUME NEW entries, NEW S, NEW s \in Seq(S), NEW e \in S, NEW base,
         Ordered(entries, s, base),
         entries[e].before \subseteq base \cup Range(s)
  PROVE  Ordered(entries, Append(s, e), base)
  <1> DEFINE a == Append(s, e)
  <1>1. Len(s) \in Nat /\ DOMAIN s = 1 .. Len(s)
    BY LenProperties
  <1>2. /\ Len(a) = Len(s) + 1
        /\ a \in Seq(S)
        /\ a[Len(s) + 1] = e
        /\ \A i \in 1 .. Len(s) : a[i] = s[i]
    BY AppendProperties
  <1>3. DOMAIN a = 1 .. Len(s) + 1
    BY <1>2, LenProperties
  <1> HIDE DEF a
  <1>4. ASSUME NEW i \in 1 .. Len(s), NEW id \in entries[a[i]].before
        PROVE  id \in base \/ \E j \in 1 .. i - 1 : a[j] = id
    <2>1. id \in base \/ \E j \in 1 .. i - 1 : s[j] = id
      BY <1>1, <1>2, <1>4 DEF Ordered
    <2>2. \A j \in 1 .. i - 1 : a[j] = s[j]
      BY <1>1, <1>2
    <2>3. QED
      BY <2>1, <2>2
  <1>5. ASSUME NEW id \in entries[e].before
        PROVE  id \in base \/ \E j \in 1 .. Len(s) : a[j] = id
    BY <1>1, <1>2 DEF Range
  <1>6. ASSUME NEW i \in DOMAIN a, NEW id \in entries[a[i]].before
        PROVE  id \in base \/ \E j \in 1 .. i - 1 : a[j] = id
    <2>1. CASE i \in 1 .. Len(s)
      BY <2>1, <1>4, <1>6
    <2>2. CASE i = Len(s) + 1
      <3>1. i - 1 = Len(s)
        BY <2>2, <1>1
      <3>2. QED
        BY <3>1, <2>2, <1>2, <1>5, <1>6
    <2>3. QED
      BY <2>1, <2>2, <1>1, <1>3
  <1>7. QED
    BY <1>6 DEF Ordered, a

\* The first line goes over to base.
LEMMA OrderedFirstTaken ==
  ASSUME NEW entries, NEW S, NEW s \in Seq(S), s # <<>>, NEW base,
         Ordered(entries, s, base)
  PROVE  /\ entries[Head(s)].before \subseteq base
         /\ Ordered(entries, Tail(s), base \cup {Head(s)})
  <1> DEFINE t == Tail(s)
  <1>1. Len(s) \in Nat \ {0} /\ DOMAIN s = 1 .. Len(s) /\ Head(s) = s[1]
    BY LenProperties, EmptySeq
  <1>2. /\ t \in Seq(S)
        /\ Len(t) = Len(s) - 1
        /\ \A i \in 1 .. Len(t) : t[i] = s[i + 1]
    BY HeadTailProperties
  <1>3. DOMAIN t = 1 .. Len(s) - 1
    BY <1>2, LenProperties
  <1> HIDE DEF t
  <1>4. entries[Head(s)].before \subseteq base
    <2>1. 1 \in DOMAIN s /\ 1 .. 1 - 1 = {}
      BY <1>1
    <2>2. QED
      BY <1>1, <2>1 DEF Ordered
  <1>5. ASSUME NEW i \in DOMAIN t, NEW id \in entries[t[i]].before
        PROVE  id \in base \cup {Head(s)} \/ \E j \in 1 .. i - 1 : t[j] = id
    <2>1. i \in 1 .. Len(s) - 1 /\ i + 1 \in DOMAIN s /\ t[i] = s[i + 1] /\ (i + 1) - 1 = i
      BY <1>1, <1>2, <1>3
    <2>2. id \in base \/ \E j \in 1 .. i : s[j] = id
      BY <2>1, <1>5 DEF Ordered
    <2>3. \A j \in 1 .. i : s[j] = Head(s) \/ (j - 1 \in 1 .. i - 1 /\ t[j - 1] = s[j])
      BY <1>1, <1>2, <2>1
    <2>4. QED
      BY <2>2, <2>3
  <1>6. QED
    BY <1>4, <1>5 DEF Ordered, t

(***************************************************************************)
(* The inductive invariant, in parts.                                      *)
(***************************************************************************)

\* Only the main thread flushes; one thread at a time is inside the mutex; a
\* thread has a line of its own exactly while it logs one; no batch outlives
\* its flush, and a flush begins only when there is a log to write to.
ThreadsInPlace ==
  /\ \A t \in Threads : pc[t] \in {"check", "send", "own", "gone"} => t = Main
  /\ \A t \in Threads : pc[t] = "mark" <=> holder = t
  /\ \A t \in Threads : pc[t] \in {"queue", "mark", "own"} => line[t] # 0
  /\ \A t \in Threads : pc[t] \in {"idle", "gone"} => line[t] = 0
  /\ pc[Main] \in {"check", "send", "own"} => ready
  /\ pc[Main] # "send" => batch = <<>>
  /\ unloading => pc[Main] \in {"check", "send", "gone"} /\ line[Main] = 0
  /\ pc[Main] = "gone" => unloading

\* The line of the thread inside the mutex, which has placed it.
Marking == {line[t] : t \in {u \in Threads : pc[u] = "mark"}}

Placed == Range(sent) \cup Range(batch) \cup Range(backlog) \cup lost

\* Lines are numbered as their calls begin, those being logged differ and have
\* not returned, and a line has a place exactly when its call has returned or
\* is leaving the mutex.
LinesNumbered ==
  /\ \A t, u \in Threads : line[t] = line[u] /\ line[t] # 0 => t = u
  /\ \A t \in Threads : line[t] <= Len(logged) /\ line[t] \notin returned
  /\ returned \subseteq 1 .. Len(logged)
  /\ \A id \in 1 .. Len(logged) : logged[id].before \subseteq returned
  /\ overdue \subseteq returned
  /\ Placed = returned \cup Marking

\* A line has one place.
OnePlace ==
  /\ IsInjective(sent) /\ IsInjective(batch) /\ IsInjective(backlog)
  /\ Range(sent) \cap (Range(batch) \cup Range(backlog) \cup lost) = {}
  /\ Range(batch) \cap (Range(backlog) \cup lost) = {}
  /\ Range(backlog) \cap lost = {}

\* While the flag is down nothing waits but what the thread in the mutex put
\* there.
FlagUp ==
  /\ ~waiting => Range(backlog) \subseteq Marking
  /\ dropped > 0 => waiting \/ holder # NoThread \/ pc[Main] = "send"

\* What the flush under way has to have written before its caller goes on.
Owed ==
  IF line[Main] # 0 THEN logged[line[Main]].before ELSE IF unloading THEN overdue ELSE {}

CausesFirst ==
  /\ Ordered(logged, sent, lost)
  /\ Ordered(logged, batch, lost \cup Range(sent))
  /\ Ordered(logged, backlog, lost \cup Range(sent) \cup Range(batch))
  /\ pc[Main] = "send" => Owed \subseteq lost \cup Range(sent) \cup Range(batch)
  /\ pc[Main] \in {"own", "gone"} => Owed \subseteq lost \cup Range(sent)

Counted == IsFiniteSet(lost) /\ DropsAccountedFor

IInv == ThreadsInPlace /\ LinesNumbered /\ OnePlace /\ FlagUp /\ CausesFirst /\ Counted

(***************************************************************************)
(* Types, and threads in their places.                                     *)
(***************************************************************************)

LEMMA MainIsAThread == Main \in Threads /\ NoThread \notin Threads
  BY LogThreadsAssumption DEF Threads

LEMMA TypesInit ==
  ASSUME Init
  PROVE  TypeOK /\ ThreadsInPlace
  <1>1. <<>> \in Seq(Line) /\ <<>> \in Seq(LogEntry)
    BY EmptySeq
  <1>2. TypeOK
    <2>1. pc \in [Threads -> Places] /\ line \in [Threads -> 0 .. MaxLines]
      BY LogBoundsAssumption DEF Init, Places
    <2>2. {ready, unloading, waiting} \subseteq BOOLEAN
      BY Zenon DEF Init
    <2>3. {dropped, announced} \subseteq Nat
      BY DEF Init
    <2>4. {returned, lost, overdue} \subseteq SUBSET Line
      BY DEF Init
    <2>5. /\ backlog \in Seq(Line) /\ batch \in Seq(Line) /\ sent \in Seq(Line)
          /\ logged \in Seq(LogEntry)
      BY <1>1, Zenon DEF Init
    <2>6. holder \in Threads \cup {NoThread}
      BY DEF Init
    <2>7. QED
      BY <2>1, <2>2, <2>3, <2>4, <2>5, <2>6 DEF TypeOK
  <1>3. ThreadsInPlace
    BY MainIsAThread DEF Init, ThreadsInPlace
  <1>4. QED
    BY <1>2, <1>3

LEMMA TypesStep ==
  ASSUME TypeOK, ThreadsInPlace, [Next]_vars
  PROVE  TypeOK'
  <1> USE MainIsAThread, LogBoundsAssumption
  <1>1. ASSUME NEW t \in Threads, NEW kind \in LineKinds, Log(t, kind)
        PROVE  TypeOK'
    BY <1>1 DEF TypeOK, ThreadsInPlace, Places, Log, Goto, WayIn, LineKinds, LogEntry, backlogVars, Line
  <1>2. ASSUME NEW t \in Threads, Enqueue(t)
        PROVE  TypeOK'
    <2>1. line[t] \in Line
      BY <1>2 DEF Enqueue, TypeOK, ThreadsInPlace, Line
    <2>2. backlog' \in Seq(Line)
      <3>1. backlog \in Seq(Line)
        BY DEF TypeOK
      <3>2. backlog' = backlog \/ backlog' = Append(backlog, line[t])
        BY <1>2 DEF Enqueue
      <3>3. QED
        BY <2>1, <3>1, <3>2, AppendProperties
    <2>3. lost' \in SUBSET Line /\ dropped' \in Nat
      BY <1>2, <2>1 DEF Enqueue, TypeOK
    <2>4. pc' \in [Threads -> Places] /\ holder' \in Threads \cup {NoThread}
      BY <1>2 DEF Enqueue, Goto, TypeOK, Places
    <2>5. QED
      BY <1>2, <2>2, <2>3, <2>4 DEF Enqueue, TypeOK
  <1>3. ASSUME NEW t \in Threads, Mark(t)
        PROVE  TypeOK'
    BY <1>3 DEF TypeOK, ThreadsInPlace, Places, Mark, Goto, CallReturns, Line
  <1>4. CASE SkipFlush
    BY <1>4 DEF TypeOK, ThreadsInPlace, Places, SkipFlush, Goto, AfterFlush, backlogVars, history
  <1>5. CASE TakeBacklog
    BY <1>5 DEF TypeOK, ThreadsInPlace, Places, TakeBacklog, Goto, history
  <1>6. CASE WriteLine
    BY <1>6 DEF TypeOK, ThreadsInPlace, Places, WriteLine, backlogVars, history
  <1>7. CASE Notice
    BY <1>7 DEF TypeOK, ThreadsInPlace, Places, Notice, Goto, AfterFlush
  <1>8. CASE WriteOwn
    BY <1>8 DEF TypeOK, ThreadsInPlace, Places, WriteOwn, Goto, CallReturns, backlogVars, Line
  <1>9. CASE Load
    BY <1>9 DEF TypeOK, ThreadsInPlace, Places, Load, Goto, backlogVars, history
  <1>10. CASE Tick
    BY <1>10 DEF TypeOK, ThreadsInPlace, Places, Tick, Goto, backlogVars, history
  <1>11. CASE Unload
    BY <1>11 DEF TypeOK, ThreadsInPlace, Places, Unload, Goto, backlogVars
  <1>12. CASE UNCHANGED vars
    BY <1>12 DEF TypeOK, ThreadsInPlace, Places, vars, backlogVars, history
  <1>13. QED
    BY <1>1, <1>2, <1>3, <1>4, <1>5, <1>6, <1>7, <1>8, <1>9, <1>10, <1>11, <1>12 DEF Next, ThreadStep, FlushStep

LEMMA ThreadsStep ==
  ASSUME TypeOK, ThreadsInPlace, [Next]_vars
  PROVE  ThreadsInPlace'
  <1> USE MainIsAThread
  <1>1. ASSUME NEW t \in Threads, NEW kind \in LineKinds, Log(t, kind)
        PROVE  ThreadsInPlace'
    BY <1>1 DEF TypeOK, ThreadsInPlace, Places, Log, Goto, WayIn, LineKinds, LogEntry, backlogVars, Line
  <1>2. ASSUME NEW t \in Threads, Enqueue(t)
        PROVE  ThreadsInPlace'
    BY <1>2 DEF TypeOK, ThreadsInPlace, Places, Enqueue, Goto, Line
  <1>3. ASSUME NEW t \in Threads, Mark(t)
        PROVE  ThreadsInPlace'
    BY <1>3 DEF TypeOK, ThreadsInPlace, Places, Mark, Goto, CallReturns, Line
  <1>4. CASE SkipFlush
    BY <1>4 DEF TypeOK, ThreadsInPlace, Places, SkipFlush, Goto, AfterFlush, backlogVars, history
  <1>5. CASE TakeBacklog
    BY <1>5 DEF TypeOK, ThreadsInPlace, Places, TakeBacklog, Goto, history
  <1>6. CASE WriteLine
    BY <1>6 DEF TypeOK, ThreadsInPlace, Places, WriteLine, backlogVars, history
  <1>7. CASE Notice
    BY <1>7 DEF TypeOK, ThreadsInPlace, Places, Notice, Goto, AfterFlush
  <1>8. CASE WriteOwn
    BY <1>8 DEF TypeOK, ThreadsInPlace, Places, WriteOwn, Goto, CallReturns, backlogVars, Line
  <1>9. CASE Load
    BY <1>9 DEF TypeOK, ThreadsInPlace, Places, Load, Goto, backlogVars, history
  <1>10. CASE Tick
    BY <1>10 DEF TypeOK, ThreadsInPlace, Places, Tick, Goto, backlogVars, history
  <1>11. CASE Unload
    BY <1>11 DEF TypeOK, ThreadsInPlace, Places, Unload, Goto, backlogVars
  <1>12. CASE UNCHANGED vars
    BY <1>12 DEF TypeOK, ThreadsInPlace, Places, vars, backlogVars, history
  <1>13. QED
    BY <1>1, <1>2, <1>3, <1>4, <1>5, <1>6, <1>7, <1>8, <1>9, <1>10, <1>11, <1>12 DEF Next, ThreadStep, FlushStep

(***************************************************************************)
(* Where each line is.                                                     *)
(***************************************************************************)

\* The thread inside the mutex stays there with its line.
LEMMA MarkingKept ==
  ASSUME \A t \in Threads : pc'[t] = "mark" <=> pc[t] = "mark",
         \A t \in Threads : pc[t] = "mark" => line'[t] = line[t]
  PROVE  Marking' = Marking
  BY DEF Marking

\* A thread takes the mutex, places its line and comes to be the one inside.
LEMMA EnqueuePlaces ==
  ASSUME TypeOK, ThreadsInPlace, NEW t \in Threads, Enqueue(t)
  PROVE  /\ line[t] \in Line
         /\ Marking = {} /\ Marking' = {line[t]}
         /\ UNCHANGED <<sent, batch, logged, returned, overdue, line, waiting>>
         /\ \/ /\ backlog' = Append(backlog, line[t])
               /\ Range(backlog') = Range(backlog) \cup {line[t]}
               /\ IsInjective(backlog) /\ line[t] \notin Range(backlog) => IsInjective(backlog')
               /\ UNCHANGED <<lost, dropped>>
            \/ /\ lost' = lost \cup {line[t]}
               /\ dropped' = dropped + 1
               /\ UNCHANGED backlog
  <1>1. line[t] \in Line
    BY DEF Enqueue, TypeOK, ThreadsInPlace, Line
  <1>2. \A u \in Threads : pc[u] # "mark"
    BY MainIsAThread DEF Enqueue, ThreadsInPlace
  <1>3. \A u \in Threads : pc'[u] = "mark" <=> u = t
    BY <1>2 DEF Enqueue, Goto, TypeOK
  <1>4. Marking = {} /\ Marking' = {line[t]}
    BY <1>2, <1>3 DEF Marking, Enqueue
  <1>5. CASE Fits(line[t])
    <2>1. backlog' = Append(backlog, line[t]) /\ UNCHANGED <<lost, dropped>>
      BY <1>5 DEF Enqueue
    <2>2. backlog \in Seq(Line)
      BY DEF TypeOK
    <2>3. QED
      BY <1>1, <1>4, <2>1, <2>2, Added DEF Enqueue
  <1>6. CASE ~Fits(line[t])
    BY <1>1, <1>4, <1>6 DEF Enqueue
  <1>7. QED
    BY <1>5, <1>6

\* The flush takes all that waits, when nobody is inside the mutex.
LEMMA TakePlaces ==
  ASSUME TypeOK, ThreadsInPlace, TakeBacklog
  PROVE  /\ Marking = {} /\ Marking' = {}
         /\ batch = <<>> /\ Range(batch) = {}
         /\ batch' = backlog /\ backlog' = <<>> /\ Range(backlog') = {} /\ IsInjective(backlog')
         /\ UNCHANGED <<sent, lost, logged, returned, overdue, line, dropped, announced, unloading>>
  <1>1. \A u \in Threads : pc[u] # "mark" /\ pc'[u] # "mark"
    BY MainIsAThread DEF TakeBacklog, ThreadsInPlace, Goto, TypeOK
  <1>2. Marking = {} /\ Marking' = {}
    BY <1>1 DEF Marking
  <1>3. batch = <<>>
    BY DEF TakeBacklog, ThreadsInPlace
  <1>4. QED
    BY <1>2, <1>3, NoLines DEF TakeBacklog, history

\* The flush writes the first line it took.
LEMMA WritePlaces ==
  ASSUME TypeOK, ThreadsInPlace, WriteLine
  PROVE  /\ Marking' = Marking
         /\ Head(batch) \in Line
         /\ sent' = Append(sent, Head(batch)) /\ batch' = Tail(batch)
         /\ Range(sent') = Range(sent) \cup {Head(batch)}
         /\ Range(batch) = Range(batch') \cup {Head(batch)}
         /\ IsInjective(sent) /\ Head(batch) \notin Range(sent) => IsInjective(sent')
         /\ IsInjective(batch) => IsInjective(batch') /\ Head(batch) \notin Range(batch')
         /\ UNCHANGED <<pc, backlog, lost, logged, returned, overdue, line, waiting, dropped, announced, holder, unloading>>
  <1>1. batch \in Seq(Line) /\ sent \in Seq(Line) /\ batch # <<>>
    BY DEF WriteLine, TypeOK
  <1>2. sent' = Append(sent, Head(batch)) /\ batch' = Tail(batch)
    BY DEF WriteLine
  <1>3. Marking' = Marking
    BY DEF Marking, WriteLine
  <1>4. Head(batch) \in Line
    BY <1>1, FirstTaken
  <1>5. QED
    BY <1>1, <1>2, <1>3, <1>4, FirstTaken, Added DEF WriteLine, backlogVars, history

\* The main thread writes the line it logs.
LEMMA OwnPlaces ==
  ASSUME TypeOK, ThreadsInPlace, WriteOwn
  PROVE  /\ Marking' = Marking
         /\ line[Main] \in Line
         /\ sent' = Append(sent, line[Main])
         /\ Range(sent') = Range(sent) \cup {line[Main]}
         /\ IsInjective(sent) /\ line[Main] \notin Range(sent) => IsInjective(sent')
         /\ returned' = returned \cup {line[Main]}
         /\ batch = <<>> /\ Range(batch) = {}
         /\ UNCHANGED <<batch, backlog, lost, logged, overdue, waiting, dropped, announced, holder, unloading>>
  <1>1. line[Main] \in Line
    BY MainIsAThread DEF WriteOwn, TypeOK, ThreadsInPlace, Line
  <1>2. sent \in Seq(Line) /\ sent' = Append(sent, line[Main])
    BY DEF WriteOwn, TypeOK
  <1>3. \A u \in Threads : (pc'[u] = "mark" <=> pc[u] = "mark") /\ (pc[u] = "mark" => line'[u] = line[u])
    BY MainIsAThread DEF WriteOwn, CallReturns, Goto, TypeOK
  <1>4. Marking' = Marking
    BY <1>3, MarkingKept
  <1>5. batch = <<>>
    BY DEF WriteOwn, ThreadsInPlace
  <1>6. QED
    BY <1>1, <1>2, <1>4, <1>5, Added, NoLines DEF WriteOwn, CallReturns, backlogVars

LEMMA LinesInit ==
  ASSUME Init
  PROVE  LinesNumbered /\ OnePlace
  <1>1. Marking = {}
    BY DEF Marking, Init
  <1>2. Placed = {}
    BY NoLines DEF Placed, Init
  <1>3. LinesNumbered
    BY <1>1, <1>2 DEF LinesNumbered, Init
  <1>4. OnePlace
    BY NoLines DEF OnePlace, Init
  <1>5. QED
    BY <1>3, <1>4

\* A line that is neither returned nor leaving the mutex has no place.
LEMMA NoPlaceYet ==
  ASSUME TypeOK, ThreadsInPlace, LinesNumbered,
         NEW t \in Threads, line[t] # 0, pc[t] # "mark"
  PROVE  line[t] \notin Placed
  <1>1. line[t] \notin Marking
    BY DEF Marking, LinesNumbered
  <1>2. QED
    BY <1>1 DEF LinesNumbered

LEMMA LinesNumberedStep ==
  ASSUME TypeOK, ThreadsInPlace, LinesNumbered, [Next]_vars
  PROVE  LinesNumbered'
  <1> USE MainIsAThread
  <1>0. logged \in Seq(LogEntry) /\ Len(logged) \in Nat
    BY LenProperties DEF TypeOK
  <1>1. ASSUME NEW t \in Threads, NEW kind \in LineKinds, Log(t, kind)
        PROVE  LinesNumbered'
    <2>1. /\ Len(logged') = Len(logged) + 1
          /\ logged'[Len(logged) + 1].before = returned
          /\ \A id \in 1 .. Len(logged) : logged'[id] = logged[id]
      <3>1. [kind |-> kind, before |-> returned] \in LogEntry
        BY DEF LogEntry, TypeOK
      <3>2. logged' = Append(logged, [kind |-> kind, before |-> returned])
        BY <1>1 DEF Log
      <3>3. QED
        BY <1>0, <3>1, <3>2, AppendProperties
    <2>2. line' = [line EXCEPT ![t] = Len(logged) + 1] /\ line[t] = 0
      BY <1>1 DEF Log, ThreadsInPlace
    <2>3. Marking' = Marking
      <3>1. \A u \in Threads : (pc'[u] = "mark" <=> pc[u] = "mark") /\ (pc[u] = "mark" => line'[u] = line[u])
        BY <1>1, <2>2 DEF Log, Goto, WayIn, TypeOK
      <3>2. QED
        BY <3>1, MarkingKept
    <2>4. UNCHANGED <<sent, batch, backlog, lost, returned, overdue>>
      BY <1>1 DEF Log, backlogVars
    <2>5. Placed' = Placed
      BY <2>4 DEF Placed
    <2>6. \A u \in Threads : line'[u] = IF u = t THEN Len(logged) + 1 ELSE line[u]
      BY <2>2 DEF TypeOK
    <2>7. \A u \in Threads : line[u] \in Nat /\ line[u] <= Len(logged)
      BY DEF TypeOK, LinesNumbered
    <2>8. \A u, v \in Threads : line'[u] = line'[v] /\ line'[u] # 0 => u = v
      BY <1>0, <2>6, <2>7 DEF LinesNumbered
    <2>9. \A u \in Threads : line'[u] <= Len(logged') /\ line'[u] \notin returned'
      BY <1>0, <2>1, <2>4, <2>6, <2>7 DEF LinesNumbered
    <2>10. \A id \in 1 .. Len(logged') : logged'[id].before \subseteq returned'
      BY <1>0, <2>1, <2>4 DEF LinesNumbered
    <2>11. returned' \subseteq 1 .. Len(logged') /\ overdue' \subseteq returned'
      BY <1>0, <2>1, <2>4 DEF LinesNumbered
    <2>12. Placed' = returned' \cup Marking'
      BY <2>3, <2>4, <2>5 DEF LinesNumbered
    <2>13. QED
      BY <2>8, <2>9, <2>10, <2>11, <2>12 DEF LinesNumbered
  <1>2. ASSUME NEW t \in Threads, Enqueue(t)
        PROVE  LinesNumbered'
    <2>1. Placed' = Placed \cup {line[t]}
      BY <1>2, EnqueuePlaces DEF Placed
    <2>2. Marking = {} /\ Marking' = {line[t]} /\ UNCHANGED <<logged, returned, overdue, line>>
      BY <1>2, EnqueuePlaces
    <2>3. QED
      BY <2>1, <2>2 DEF LinesNumbered
  <1>3. ASSUME NEW t \in Threads, Mark(t)
        PROVE  LinesNumbered'
    <2>1. Marking = {line[t]} /\ Marking' = {}
      <3>1. \A u \in Threads : (pc[u] = "mark" <=> u = t) /\ pc'[u] # "mark"
        BY <1>3 DEF Mark, Goto, TypeOK, ThreadsInPlace
      <3>2. QED
        BY <3>1 DEF Marking
    <2>2. Placed' = Placed
      BY <1>3 DEF Mark, Placed
    <2>3. returned' = returned \cup {line[t]} /\ line' = [line EXCEPT ![t] = 0] /\ UNCHANGED <<logged, overdue>>
      BY <1>3 DEF Mark, CallReturns
    <2>4. line[t] \in 1 .. Len(logged)
      BY <1>0, <1>3 DEF Mark, TypeOK, LinesNumbered, ThreadsInPlace
    <2>5. \A u \in Threads : line'[u] = IF u = t THEN 0 ELSE line[u]
      BY <2>3 DEF TypeOK
    <2>6. \A u \in Threads : line'[u] <= Len(logged') /\ line'[u] \notin returned'
      BY <1>0, <2>3, <2>4, <2>5 DEF LinesNumbered
    <2>7. QED
      BY <2>1, <2>2, <2>3, <2>4, <2>5, <2>6 DEF LinesNumbered
  <1>4. CASE SkipFlush
    <2>1. Marking' = Marking
      <3>1. \A u \in Threads : (pc'[u] = "mark" <=> pc[u] = "mark") /\ line'[u] = line[u]
        BY <1>4 DEF SkipFlush, Goto, AfterFlush, TypeOK
      <3>2. QED
        BY <3>1, MarkingKept
    <2>2. QED
      BY <1>4, <2>1 DEF LinesNumbered, Placed, SkipFlush, backlogVars, history
  <1>5. CASE TakeBacklog
    <2>1. Placed' = Placed
      BY <1>5, TakePlaces DEF Placed
    <2>2. QED
      BY <1>5, <2>1, TakePlaces DEF LinesNumbered
  <1>6. CASE WriteLine
    <2>1. Placed' = Placed
      BY <1>6, WritePlaces DEF Placed
    <2>2. QED
      BY <1>6, <2>1, WritePlaces DEF LinesNumbered
  <1>7. CASE Notice
    <2>1. Marking' = Marking
      <3>1. \A u \in Threads : (pc'[u] = "mark" <=> pc[u] = "mark") /\ line'[u] = line[u]
        BY <1>7 DEF Notice, Goto, AfterFlush, TypeOK
      <3>2. QED
        BY <3>1, MarkingKept
    <2>2. QED
      BY <1>7, <2>1 DEF LinesNumbered, Placed, Notice
  <1>8. CASE WriteOwn
    <2>1. Placed' = Placed \cup {line[Main]}
      BY <1>8, OwnPlaces DEF Placed
    <2>2. line' = [line EXCEPT ![Main] = 0]
      BY <1>8 DEF WriteOwn, CallReturns
    <2>3. line[Main] \in 1 .. Len(logged)
      BY <1>0, <1>8 DEF WriteOwn, TypeOK, LinesNumbered, ThreadsInPlace
    <2>4. \A u \in Threads : line'[u] = IF u = Main THEN 0 ELSE line[u]
      BY <2>2 DEF TypeOK
    <2>5. returned' = returned \cup {line[Main]} /\ Marking' = Marking /\ UNCHANGED <<logged, overdue>>
      BY <1>8, OwnPlaces
    <2>6. \A u \in Threads : line'[u] <= Len(logged') /\ line'[u] \notin returned'
      BY <1>0, <2>3, <2>4, <2>5 DEF LinesNumbered
    <2>7. QED
      BY <2>1, <2>3, <2>4, <2>5, <2>6 DEF LinesNumbered
  <1>9. CASE Load \/ Tick \/ Unload
    <2>1. Marking' = Marking
      <3>1. \A u \in Threads : (pc'[u] = "mark" <=> pc[u] = "mark") /\ line'[u] = line[u]
        BY <1>9 DEF Load, Tick, Unload, Goto, TypeOK
      <3>2. QED
        BY <3>1, MarkingKept
    <2>2. Placed' = Placed /\ UNCHANGED <<line, logged, returned>> /\ overdue' \in {overdue, returned}
      BY <1>9 DEF Placed, Load, Tick, Unload, backlogVars, history
    <2>3. QED
      BY <2>1, <2>2 DEF LinesNumbered
  <1>10. CASE UNCHANGED vars
    BY <1>10 DEF LinesNumbered, Placed, Marking, vars, backlogVars, history
  <1>11. QED
    BY <1>1, <1>2, <1>3, <1>4, <1>5, <1>6, <1>7, <1>8, <1>9, <1>10 DEF Next, ThreadStep, FlushStep

LEMMA OnePlaceStep ==
  ASSUME TypeOK, ThreadsInPlace, LinesNumbered, OnePlace, [Next]_vars
  PROVE  OnePlace'
  <1> USE MainIsAThread
  <1>1. ASSUME NEW t \in Threads, NEW kind \in LineKinds, Log(t, kind)
        PROVE  OnePlace'
    BY <1>1 DEF OnePlace, Log, backlogVars
  <1>2. ASSUME NEW t \in Threads, Enqueue(t)
        PROVE  OnePlace'
    <2>1. line[t] \notin Placed
      BY <1>2, NoPlaceYet DEF Enqueue, ThreadsInPlace
    <2>2. QED
      BY <1>2, <2>1, EnqueuePlaces DEF OnePlace, Placed
  <1>3. ASSUME NEW t \in Threads, Mark(t)
        PROVE  OnePlace'
    BY <1>3 DEF OnePlace, Mark
  <1>4. CASE SkipFlush
    BY <1>4 DEF OnePlace, SkipFlush, backlogVars, history
  <1>5. CASE TakeBacklog
    BY <1>5, TakePlaces DEF OnePlace
  <1>6. CASE WriteLine
    BY <1>6, WritePlaces DEF OnePlace
  <1>7. CASE Notice
    BY <1>7 DEF OnePlace, Notice
  <1>8. CASE WriteOwn
    <2>1. line[Main] \notin Placed
      BY <1>8, NoPlaceYet DEF WriteOwn, ThreadsInPlace
    <2>2. QED
      BY <1>8, <2>1, OwnPlaces DEF OnePlace, Placed
  <1>9. CASE Load \/ Tick \/ Unload
    BY <1>9 DEF OnePlace, Load, Tick, Unload, backlogVars, history
  <1>10. CASE UNCHANGED vars
    BY <1>10 DEF OnePlace, vars, backlogVars, history
  <1>11. QED
    BY <1>1, <1>2, <1>3, <1>4, <1>5, <1>6, <1>7, <1>8, <1>9, <1>10 DEF Next, ThreadStep, FlushStep

(***************************************************************************)
(* The flag.                                                               *)
(***************************************************************************)

LEMMA FlagUpStep ==
  ASSUME TypeOK, ThreadsInPlace, FlagUp, [Next]_vars
  PROVE  FlagUp'
  <1> USE MainIsAThread
  <1>1. ASSUME NEW t \in Threads, NEW kind \in LineKinds, Log(t, kind)
        PROVE  FlagUp'
    <2>1. \A u \in Threads : (pc'[u] = "mark" <=> pc[u] = "mark") /\ (pc[u] = "mark" => line'[u] = line[u])
      BY <1>1 DEF Log, Goto, WayIn, TypeOK
    <2>2. pc'[Main] = "send" <=> pc[Main] = "send"
      BY <1>1 DEF Log, Goto, WayIn, TypeOK
    <2>3. QED
      BY <1>1, <2>1, <2>2, MarkingKept DEF FlagUp, Log, backlogVars
  <1>2. ASSUME NEW t \in Threads, Enqueue(t)
        PROVE  FlagUp'
    <2>1. holder' # NoThread
      BY <1>2 DEF Enqueue
    <2>2. ~waiting' => Range(backlog') \subseteq Marking'
      BY <1>2, EnqueuePlaces DEF FlagUp
    <2>3. QED
      BY <2>1, <2>2 DEF FlagUp
  <1>3. ASSUME NEW t \in Threads, Mark(t)
        PROVE  FlagUp'
    BY <1>3 DEF FlagUp, Mark
  <1>4. CASE SkipFlush
    <2>1. \A u \in Threads : (pc'[u] = "mark" <=> pc[u] = "mark") /\ line'[u] = line[u]
      BY <1>4 DEF SkipFlush, Goto, AfterFlush, TypeOK
    <2>2. QED
      BY <1>4, <2>1, MarkingKept DEF FlagUp, SkipFlush, backlogVars
  <1>5. CASE TakeBacklog
    <2>1. pc'[Main] = "send"
      BY <1>5 DEF TakeBacklog, Goto, TypeOK
    <2>2. QED
      BY <1>5, <2>1, TakePlaces DEF FlagUp
  <1>6. CASE WriteLine
    BY <1>6, WritePlaces DEF FlagUp
  <1>7. CASE Notice
    <2>1. \A u \in Threads : (pc'[u] = "mark" <=> pc[u] = "mark") /\ line'[u] = line[u]
      BY <1>7 DEF Notice, Goto, AfterFlush, TypeOK
    <2>2. QED
      BY <1>7, <2>1, MarkingKept DEF FlagUp, Notice
  <1>8. CASE WriteOwn
    <2>1. pc[Main] # "send"
      BY <1>8 DEF WriteOwn
    <2>2. QED
      BY <1>8, <2>1, OwnPlaces DEF FlagUp
  <1>9. CASE Load \/ Tick \/ Unload
    <2>1. \A u \in Threads : (pc'[u] = "mark" <=> pc[u] = "mark") /\ line'[u] = line[u]
      BY <1>9 DEF Load, Tick, Unload, Goto, TypeOK
    <2>2. pc[Main] # "send" /\ UNCHANGED backlogVars
      BY <1>9 DEF Load, Tick, Unload
    <2>3. QED
      BY <2>1, <2>2, MarkingKept DEF FlagUp, backlogVars
  <1>10. CASE UNCHANGED vars
    BY <1>10 DEF FlagUp, Marking, vars, backlogVars
  <1>11. QED
    BY <1>1, <1>2, <1>3, <1>4, <1>5, <1>6, <1>7, <1>8, <1>9, <1>10 DEF Next, ThreadStep, FlushStep

(***************************************************************************)
(* Causes before effects.                                                  *)
(***************************************************************************)

\* Whatever the flush owes has returned.
LEMMA OwedReturned ==
  ASSUME TypeOK, ThreadsInPlace, LinesNumbered
  PROVE  Owed \subseteq returned
  <1>1. CASE line[Main] # 0
    <2>1. line[Main] \in 1 .. Len(logged)
      BY <1>1, MainIsAThread, LenProperties DEF TypeOK, LinesNumbered
    <2>2. QED
      BY <1>1, <2>1 DEF Owed, LinesNumbered
  <1>2. CASE line[Main] = 0
    BY <1>2 DEF Owed, LinesNumbered
  <1>3. QED
    BY <1>1, <1>2

LEMMA CausesFirstStep ==
  ASSUME TypeOK, ThreadsInPlace, LinesNumbered, FlagUp, CausesFirst, [Next]_vars
  PROVE  CausesFirst'
  <1> USE MainIsAThread
  <1>0. /\ logged \in Seq(LogEntry) /\ Len(logged) \in Nat
        /\ sent \in Seq(Line) /\ batch \in Seq(Line) /\ backlog \in Seq(Line)
    BY LenProperties DEF TypeOK
  <1>1. ASSUME NEW t \in Threads, NEW kind \in LineKinds, Log(t, kind)
        PROVE  CausesFirst'
    <2>1. \A id \in 1 .. Len(logged) : logged'[id] = logged[id]
      <3>1. [kind |-> kind, before |-> returned] \in LogEntry
        BY DEF LogEntry, TypeOK
      <3>2. logged' = Append(logged, [kind |-> kind, before |-> returned])
        BY <1>1 DEF Log
      <3>3. QED
        BY <1>0, <3>1, <3>2, AppendProperties
    <2>2. Marking \subseteq 1 .. Len(logged)
      <3>1. \A u \in Threads : pc[u] = "mark" => line[u] \in 1 .. Len(logged)
        BY <1>0 DEF TypeOK, ThreadsInPlace, LinesNumbered
      <3>2. QED
        BY <3>1 DEF Marking
    <2>3. Range(sent) \cup Range(batch) \cup Range(backlog) \subseteq 1 .. Len(logged)
      BY <2>2 DEF LinesNumbered, Placed
    <2>4. UNCHANGED <<sent, batch, backlog, lost, unloading, overdue>>
      BY <1>1 DEF Log, backlogVars
    <2>5. /\ Ordered(logged', sent, lost)
          /\ Ordered(logged', batch, lost \cup Range(sent))
          /\ Ordered(logged', backlog, lost \cup Range(sent) \cup Range(batch))
      BY <2>1, <2>3, OrderedKept DEF CausesFirst
    <2>6. CASE t = Main
      <3>1. pc'[Main] \in {"check", "queue"}
        BY <1>1, <2>6 DEF Log, Goto, WayIn, TypeOK
      <3>2. QED
        BY <2>4, <2>5, <3>1 DEF CausesFirst
    <2>7. CASE t # Main
      <3>1. pc'[Main] = pc[Main] /\ line'[Main] = line[Main]
        BY <1>1, <2>7 DEF Log, Goto, TypeOK
      <3>2. line[Main] # 0 => line[Main] \in 1 .. Len(logged)
        BY <1>0 DEF TypeOK, LinesNumbered
      <3>3. Owed' = Owed
        BY <2>1, <2>4, <3>1, <3>2 DEF Owed
      <3>4. QED
        BY <2>4, <2>5, <3>1, <3>3 DEF CausesFirst
    <2>8. QED
      BY <2>6, <2>7
  <1>2. ASSUME NEW t \in Threads, Enqueue(t)
        PROVE  CausesFirst'
    <2>1. Owed' = Owed
      BY <1>2 DEF Enqueue, Owed
    <2>2. pc'[Main] \in {"send", "own", "gone"} => pc'[Main] = pc[Main]
      BY <1>2 DEF Enqueue, Goto, TypeOK
    <2>3. line[t] \in 1 .. Len(logged)
      BY <1>0, <1>2 DEF Enqueue, TypeOK, ThreadsInPlace, LinesNumbered
    <2>4. logged[line[t]].before \subseteq (lost \cup Range(sent) \cup Range(batch)) \cup Range(backlog)
      <3>1. Marking = {}
        BY <1>2, EnqueuePlaces
      <3>2. QED
        BY <2>3, <3>1 DEF LinesNumbered, Placed
    <2>5. CASE backlog' = Append(backlog, line[t]) /\ lost' = lost
      <3>1. line[t] \in Line
        BY <1>2, EnqueuePlaces
      <3>2. Ordered(logged, backlog', lost \cup Range(sent) \cup Range(batch))
        BY <1>0, <2>4, <2>5, <3>1, OrderedAdded DEF CausesFirst
      <3>3. QED
        BY <1>2, <2>1, <2>2, <2>5, <3>2, EnqueuePlaces DEF CausesFirst
    <2>6. CASE backlog' = backlog /\ lost' = lost \cup {line[t]}
      <3>1. /\ Ordered(logged, sent, lost')
            /\ Ordered(logged, batch, lost' \cup Range(sent))
            /\ Ordered(logged, backlog, lost' \cup Range(sent) \cup Range(batch))
        BY <2>6, OrderedKept DEF CausesFirst
      <3>2. QED
        BY <1>2, <2>1, <2>2, <2>6, <3>1, EnqueuePlaces DEF CausesFirst
    <2>7. QED
      BY <1>2, <2>5, <2>6, EnqueuePlaces
  <1>3. ASSUME NEW t \in Threads, Mark(t)
        PROVE  CausesFirst'
    <2>1. pc'[Main] \in {"send", "own", "gone"} => pc'[Main] = pc[Main] /\ t # Main
      BY <1>3 DEF Mark, Goto, TypeOK
    <2>2. t # Main => Owed' = Owed
      BY <1>3 DEF Mark, CallReturns, Owed, TypeOK
    <2>3. QED
      BY <1>3, <2>1, <2>2 DEF CausesFirst, Mark
  <1>4. CASE SkipFlush
    <2>1. Owed' = Owed /\ UNCHANGED <<sent, batch, backlog, lost, logged>>
      BY <1>4 DEF SkipFlush, Owed, backlogVars, history
    <2>2. pc'[Main] # "send"
      BY <1>4 DEF SkipFlush, Goto, AfterFlush, TypeOK
    <2>3. Owed \subseteq lost \cup Range(sent)
      <3>1. ~waiting /\ batch = <<>>
        BY <1>4 DEF SkipFlush, ThreadsInPlace
      <3>2. Range(backlog) \subseteq Marking /\ Range(batch) = {}
        BY <3>1, NoLines DEF FlagUp
      <3>3. Marking \cap returned = {}
        BY DEF Marking, LinesNumbered
      <3>4. QED
        BY <3>2, <3>3, OwedReturned DEF LinesNumbered, Placed
    <2>4. QED
      BY <2>1, <2>2, <2>3 DEF CausesFirst
  <1>5. CASE TakeBacklog
    <2>1. Owed' = Owed
      BY <1>5, TakePlaces DEF Owed
    <2>2. Owed \subseteq lost \cup Range(sent) \cup Range(backlog)
      BY <1>5, TakePlaces, OwedReturned DEF LinesNumbered, Placed
    <2>3. Ordered(logged, backlog, lost \cup Range(sent))
      BY <1>5, TakePlaces DEF CausesFirst
    <2>4. pc'[Main] = "send"
      BY <1>5 DEF TakeBacklog, Goto, TypeOK
    <2>5. Ordered(logged, <<>>, lost \cup Range(sent) \cup Range(backlog))
      BY OrderedEmpty
    <2>6. QED
      BY <1>5, <2>1, <2>2, <2>3, <2>4, <2>5, TakePlaces DEF CausesFirst
  <1>6. CASE WriteLine
    <2>1. batch # <<>> /\ pc[Main] = "send"
      BY <1>6 DEF WriteLine
    <2>2. Head(batch) \in Line
      BY <1>6, WritePlaces
    <2>3. /\ logged[Head(batch)].before \subseteq lost \cup Range(sent)
          /\ Ordered(logged, Tail(batch), lost \cup Range(sent) \cup {Head(batch)})
      BY <1>0, <2>1, OrderedFirstTaken DEF CausesFirst
    <2>4. Ordered(logged, Append(sent, Head(batch)), lost)
      BY <1>0, <2>2, <2>3, OrderedAdded DEF CausesFirst
    <2>5. lost \cup Range(sent') = lost \cup Range(sent) \cup {Head(batch)}
      BY <1>6, WritePlaces
    <2>6. Range(sent') \cup Range(batch') = Range(sent) \cup Range(batch)
      BY <1>6, WritePlaces
    <2>7. lost \cup Range(sent') \cup Range(batch') = lost \cup Range(sent) \cup Range(batch)
      BY <2>6
    <2>8. Owed' = Owed /\ pc'[Main] = "send"
      BY <1>6, <2>1, WritePlaces DEF Owed
    <2>9. QED
      BY <1>6, <2>3, <2>4, <2>5, <2>7, <2>8, WritePlaces DEF CausesFirst
  <1>7. CASE Notice
    <2>1. Owed' = Owed /\ UNCHANGED <<sent, batch, backlog, lost, logged>>
      BY <1>7 DEF Notice, Owed
    <2>2. pc'[Main] # "send" /\ pc[Main] = "send"
      BY <1>7 DEF Notice, Goto, AfterFlush, TypeOK
    <2>3. Range(batch) = {}
      BY <1>7, NoLines DEF Notice
    <2>4. QED
      BY <2>1, <2>2, <2>3 DEF CausesFirst
  <1>8. CASE WriteOwn
    <2>1. line[Main] \in Line /\ sent' = Append(sent, line[Main])
      BY <1>8, OwnPlaces
    <2>2. logged[line[Main]].before \subseteq lost \cup Range(sent)
      BY <1>8, <2>1 DEF WriteOwn, CausesFirst, Owed, Line
    <2>3. Ordered(logged, sent', lost)
      BY <1>0, <2>1, <2>2, OrderedAdded DEF CausesFirst
    <2>4. Ordered(logged, backlog, lost \cup Range(sent') \cup Range(batch))
      BY <1>8, OwnPlaces, OrderedKept DEF CausesFirst
    <2>5. Ordered(logged, batch, lost \cup Range(sent'))
      BY <1>8, OwnPlaces, OrderedEmpty
    <2>6. pc'[Main] = "idle"
      BY <1>8 DEF WriteOwn, Goto, TypeOK
    <2>7. QED
      BY <1>8, <2>3, <2>4, <2>5, <2>6, OwnPlaces DEF CausesFirst
  <1>9. CASE Load \/ Tick \/ Unload
    <2>1. pc'[Main] = "check" /\ UNCHANGED <<sent, batch, backlog, lost, logged>>
      BY <1>9 DEF Load, Tick, Unload, Goto, TypeOK, backlogVars, history
    <2>2. QED
      BY <2>1 DEF CausesFirst
  <1>10. CASE UNCHANGED vars
    BY <1>10 DEF CausesFirst, Owed, vars, backlogVars, history
  <1>11. QED
    BY <1>1, <1>2, <1>3, <1>4, <1>5, <1>6, <1>7, <1>8, <1>9, <1>10 DEF Next, ThreadStep, FlushStep

(***************************************************************************)
(* Drops.                                                                  *)
(***************************************************************************)

LEMMA CountedStep ==
  ASSUME TypeOK, ThreadsInPlace, LinesNumbered, Counted, [Next]_vars
  PROVE  Counted'
  <1> USE MainIsAThread
  <1>0. dropped \in Nat /\ announced \in Nat /\ Cardinality(lost) \in Nat
    BY FS_CardinalityType DEF TypeOK, Counted
  <1>1. ASSUME NEW t \in Threads, Enqueue(t)
        PROVE  Counted'
    <2>1. announced' = announced
      BY <1>1 DEF Enqueue
    <2>2. CASE lost' = lost /\ dropped' = dropped
      BY <2>1, <2>2 DEF Counted, DropsAccountedFor
    <2>3. CASE lost' = lost \cup {line[t]} /\ dropped' = dropped + 1
      <3>1. line[t] \notin lost
        BY <1>1, NoPlaceYet DEF Enqueue, ThreadsInPlace, Placed
      <3>2. IsFiniteSet(lost') /\ Cardinality(lost') = Cardinality(lost) + 1
        BY <2>3, <3>1, FS_AddElement DEF Counted
      <3>3. QED
        BY <1>0, <2>1, <2>3, <3>2 DEF Counted, DropsAccountedFor
    <2>4. QED
      BY <1>1, <2>2, <2>3, EnqueuePlaces
  <1>2. CASE Notice
    BY <1>0, <1>2 DEF Notice, Counted, DropsAccountedFor
  <1>3. CASE UNCHANGED <<lost, dropped, announced>>
    BY <1>3 DEF Counted, DropsAccountedFor
  <1>4. QED
    <2>1. ASSUME NEW t \in Threads, NEW kind \in LineKinds, Log(t, kind) \/ Mark(t)
          PROVE  UNCHANGED <<lost, dropped, announced>>
      BY <2>1 DEF Log, Mark, backlogVars
    <2>2. CASE SkipFlush \/ TakeBacklog \/ WriteLine \/ WriteOwn
      BY <1>3, <2>2 DEF SkipFlush, TakeBacklog, WriteLine, WriteOwn, backlogVars, history
    <2>3. CASE Load \/ Tick \/ Unload
      BY <1>3, <2>3 DEF Load, Tick, Unload, backlogVars, history
    <2>4. CASE UNCHANGED vars
      BY <1>3, <2>4 DEF vars, backlogVars, history
    <2>5. QED
      BY <1>1, <1>2, <1>3, <2>1, <2>2, <2>3, <2>4 DEF Next, ThreadStep, FlushStep, LineKinds

(***************************************************************************)
(* The theorems.                                                           *)
(***************************************************************************)

\* Type correctness, with the threads in their places.
LEMMA ThreadsAlwaysInPlace == SafeSpec => [](TypeOK /\ ThreadsInPlace)
  <1>1. Init => TypeOK /\ ThreadsInPlace
    BY TypesInit
  <1>2. TypeOK /\ ThreadsInPlace /\ [Next]_vars => (TypeOK /\ ThreadsInPlace)'
    BY TypesStep, ThreadsStep
  <1>3. QED
    BY <1>1, <1>2, PTL DEF SafeSpec

LEMMA InvariantInit ==
  ASSUME Init
  PROVE  IInv
  <1>1. Marking = {}
    BY DEF Marking, Init
  <1>2. FlagUp
    BY NoLines DEF FlagUp, Init
  <1>3. CausesFirst
    BY OrderedEmpty, MainIsAThread DEF CausesFirst, Init
  <1>4. Counted
    BY FS_EmptySet DEF Counted, DropsAccountedFor, Init
  <1>5. QED
    BY <1>2, <1>3, <1>4, TypesInit, LinesInit DEF IInv

LEMMA Invariant == SafeSpec => [](TypeOK /\ IInv)
  <1>1. Init => TypeOK /\ IInv
    BY TypesInit, InvariantInit
  <1>2. TypeOK /\ IInv /\ [Next]_vars => (TypeOK /\ IInv)'
    BY TypesStep, ThreadsStep, LinesNumberedStep, OnePlaceStep, FlagUpStep, CausesFirstStep, CountedStep
       DEF IInv
  <1>3. QED
    BY <1>1, <1>2, PTL DEF SafeSpec

\* The thread inside the logger and the lines in the backlog are what the
\* declarations of SERVER_BACKLOG and its flags say they are.
THEOREM TypeCorrect == SafeSpec => []TypeOK
  BY ThreadsAlwaysInPlace, PTL

\* However calls of the logger overlap each other and a flush, a line whose call
\* had returned when another's began is ahead of it in the server's log
\* (queue_for_server, flush_server_backlog).
THEOREM CausesComeFirst == SafeSpec => []CauseBeforeEffect
  <1>1. TypeOK /\ IInv => CauseBeforeEffect
    BY DEF IInv, CausesFirst, Ordered, CauseBeforeEffect, SentBefore
  <1>2. QED
    BY <1>1, Invariant, PTL

\* The server's log repeats no line and has none of those counted as dropped.
THEOREM LinesWrittenOnce == SafeSpec => []WrittenOnce
  <1>1. TypeOK /\ IInv => WrittenOnce
    BY DEF IInv, OnePlace, WrittenOnce, IsInjective, Range
  <1>2. QED
    BY <1>1, Invariant, PTL

\* Every drop is counted once: by SERVER_BACKLOG_DROPPED or by a notice.
THEOREM DropsCountedOnce == SafeSpec => []DropsAccountedFor
  <1>1. TypeOK /\ IInv => DropsAccountedFor
    BY DEF IInv, Counted
  <1>2. QED
    BY <1>1, Invariant, PTL

\* A line or a drop that waits is one that the next flush sees, or one whose
\* thread has yet to raise SERVER_BACKLOG_WAITING.
THEOREM NothingIsOverlooked == SafeSpec => []NothingWaitsUnmarked
  <1>1. ASSUME TypeOK, IInv
        PROVE  NothingWaitsUnmarked
    <2>1. ASSUME backlog # <<>>, ~waiting
          PROVE  holder # NoThread
      <3>1. Range(backlog) # {}
        BY <1>1, <2>1, SomeLine DEF TypeOK
      <3>2. Marking # {}
        BY <1>1, <2>1, <3>1 DEF IInv, FlagUp
      <3>3. PICK t \in Threads : pc[t] = "mark"
        BY <3>2 DEF Marking
      <3>4. QED
        BY <1>1, <3>3, MainIsAThread DEF IInv, ThreadsInPlace
    <2>2. QED
      BY <1>1, <2>1 DEF IInv, FlagUp, NothingWaitsUnmarked
  <1>2. QED
    BY <1>1, Invariant, PTL

\* What had been logged when the unload's flush began has been written when the
\* flush is over, drops excepted.
THEOREM UnloadFlushesAll == SafeSpec => []UnloadLeavesNothing
  <1>1. ASSUME TypeOK, IInv, pc[Main] = "gone", NEW id \in overdue
        PROVE  id \in lost \/ SentBefore(id, Len(sent) + 1)
    <2>1. Owed = overdue
      BY <1>1, MainIsAThread DEF IInv, ThreadsInPlace, Owed
    <2>2. id \in lost \cup Range(sent)
      BY <1>1, <2>1 DEF IInv, CausesFirst
    <2>3. Len(sent) \in Nat /\ DOMAIN sent = 1 .. Len(sent)
      BY <1>1, LenProperties DEF TypeOK
    <2>4. QED
      BY <2>2, <2>3 DEF SentBefore, Range
  <1>2. TypeOK /\ IInv => UnloadLeavesNothing
    BY <1>1 DEF UnloadLeavesNothing
  <1>3. QED
    BY <1>2, Invariant, PTL

=============================================================================
