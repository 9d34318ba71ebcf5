------------------------------ MODULE ServerLog ------------------------------
(***************************************************************************)
(* How a log line reaches the server's own log (crates/samp/src/logger.rs, *)
(* SERVER_BACKLOG).  Neither server's log is thread-safe, so a line logged *)
(* off the main thread waits in a bounded backlog that the main thread     *)
(* writes out: on every tick, with the next line it logs itself, when the  *)
(* server hands its log over, and at unload.                               *)
(*                                                                         *)
(* A line is its number, in the order the calls of to_server and           *)
(* report_to_server began.                                                 *)
(***************************************************************************)
EXTENDS Naturals, Sequences, FiniteSets

CONSTANTS
  Workers,          \* threads other than the main one
  Main,             \* the server's thread
  NoThread,         \* nobody holds the mutex
  Limit,            \* SERVER_BACKLOG_LIMIT
  MaxLines          \* bound of the model: lines ever logged

ASSUME LogThreadsAssumption == Main \notin Workers /\ NoThread \notin Workers \cup {Main}
ASSUME LogBoundsAssumption == Limit \in Nat /\ MaxLines \in Nat

VARIABLES
  ready,       \* server_log_ready(): the server has handed over its log
  unloading,   \* the unload has begun its flush
  backlog,     \* SERVER_BACKLOG
  waiting,     \* SERVER_BACKLOG_WAITING
  dropped,     \* SERVER_BACKLOG_DROPPED
  holder,      \* the thread inside the mutex of SERVER_BACKLOG
  pc,          \* where each thread is inside the logger
  line,        \* the line each thread is logging, 0 for none
  batch,       \* the lines flush_server_backlog took and has not written
  sent,        \* the server's log
  logged,      \* history: each line's kind and the lines logged before it
  returned,    \* history: the lines whose call has returned
  lost,        \* history: the lines dropped for a full backlog
  announced,   \* history: how many drops the server's log was told of
  overdue      \* history: the lines that had returned when unload flushed

backlogVars == <<backlog, waiting, dropped, holder>>
history == <<logged, returned, lost, announced, overdue>>
vars == <<ready, unloading, backlogVars, pc, line, batch, sent, history>>

Threads == Workers \cup {Main}
Line == 1 .. MaxLines

\* "line" is to_server, "report" is report_to_server, which is never dropped.
LineKinds == {"line", "report"}

LogEntry == [kind : LineKinds, before : SUBSET Line]

\* "queue" is the way to the mutex and "mark" the end of the stay in it;
\* "check" and "send" are flush_server_backlog; "own" writes the caller's line.
Places == {"idle", "queue", "mark", "check", "send", "own", "gone"}

Init ==
  /\ ready = FALSE
  /\ unloading = FALSE
  /\ backlog = <<>>
  /\ waiting = FALSE
  /\ dropped = 0
  /\ holder = NoThread
  /\ pc = [t \in Threads |-> "idle"]
  /\ line = [t \in Threads |-> 0]
  /\ batch = <<>>
  /\ sent = <<>>
  /\ logged = <<>>
  /\ returned = {}
  /\ lost = {}
  /\ announced = 0
  /\ overdue = {}

Goto(t, place) == pc' = [pc EXCEPT ![t] = place]

-----------------------------------------------------------------------------
(* queue_for_server.                                                       *)

\* Mutant: the main thread writes its line ahead of what waits.
WayInUnflushed(t) == IF t = Main /\ ready THEN "own" ELSE "queue"

\* Only the main thread, and only once there is a log, goes past the backlog.
WayIn(t) == IF t = Main /\ ready THEN "check" ELSE "queue"

Log(t, kind) ==
  /\ pc[t] = "idle"
  /\ Len(logged) < MaxLines
  /\ logged' = Append(logged, [kind |-> kind, before |-> returned])
  /\ line' = [line EXCEPT ![t] = Len(logged) + 1]
  /\ Goto(t, WayIn(t))
  /\ UNCHANGED <<ready, unloading, backlogVars, batch, sent, returned, lost, announced, overdue>>

Fits(id) == logged[id].kind = "report" \/ Len(backlog) < Limit

\* Mutant: a drop is not counted.
EnqueueUncounted(t) ==
  /\ pc[t] = "queue"
  /\ holder = NoThread
  /\ holder' = t
  /\ IF Fits(line[t])
     THEN backlog' = Append(backlog, line[t]) /\ UNCHANGED lost
     ELSE lost' = lost \cup {line[t]} /\ UNCHANGED backlog
  /\ Goto(t, "mark")
  /\ UNCHANGED <<ready, unloading, waiting, dropped, line, batch, sent, logged, returned, announced, overdue>>

Enqueue(t) ==
  /\ pc[t] = "queue"
  /\ holder = NoThread
  /\ holder' = t
  /\ IF Fits(line[t])
     THEN backlog' = Append(backlog, line[t]) /\ UNCHANGED <<dropped, lost>>
     ELSE dropped' = dropped + 1 /\ lost' = lost \cup {line[t]} /\ UNCHANGED backlog
  /\ Goto(t, "mark")
  /\ UNCHANGED <<ready, unloading, waiting, line, batch, sent, logged, returned, announced, overdue>>

\* The call of to_server or report_to_server is over.
CallReturns(t) ==
  /\ returned' = returned \cup {line[t]}
  /\ line' = [line EXCEPT ![t] = 0]

\* Still inside the mutex.
Mark(t) ==
  /\ pc[t] = "mark"
  /\ waiting' = TRUE
  /\ holder' = NoThread
  /\ Goto(t, "idle")
  /\ CallReturns(t)
  /\ UNCHANGED <<ready, unloading, backlog, dropped, batch, sent, logged, lost, announced, overdue>>

-----------------------------------------------------------------------------
(* flush_server_backlog, on the main thread.                               *)

\* Its caller goes on: a line of its own, the end of unload, or other code.
AfterFlush == IF line[Main] # 0 THEN "own" ELSE IF unloading THEN "gone" ELSE "idle"

SkipFlush ==
  /\ pc[Main] = "check"
  /\ ~waiting \/ ~ready
  /\ Goto(Main, AfterFlush)
  /\ UNCHANGED <<ready, unloading, backlogVars, line, batch, sent, history>>

\* Mutant: the lines are copied and the backlog keeps them.
TakeCopies ==
  /\ pc[Main] = "check"
  /\ waiting /\ ready
  /\ holder = NoThread
  /\ waiting' = FALSE
  /\ batch' = backlog
  /\ Goto(Main, "send")
  /\ UNCHANGED <<ready, unloading, backlog, dropped, holder, line, sent, history>>

TakeBacklog ==
  /\ pc[Main] = "check"
  /\ waiting /\ ready
  /\ holder = NoThread
  /\ waiting' = FALSE
  /\ batch' = backlog
  /\ backlog' = <<>>
  /\ Goto(Main, "send")
  /\ UNCHANGED <<ready, unloading, dropped, holder, line, sent, history>>

WriteLine ==
  /\ pc[Main] = "send"
  /\ batch # <<>>
  /\ sent' = Append(sent, Head(batch))
  /\ batch' = Tail(batch)
  /\ UNCHANGED <<ready, unloading, backlogVars, pc, line, history>>

\* Mutant: the flag is cleared here, after lines may have been queued again.
NoticeClearsFlag ==
  /\ pc[Main] = "send"
  /\ batch = <<>>
  /\ waiting' = FALSE
  /\ announced' = announced + dropped
  /\ dropped' = 0
  /\ Goto(Main, AfterFlush)
  /\ UNCHANGED <<ready, unloading, backlog, holder, line, batch, sent, logged, returned, lost, overdue>>

\* Mutant: the count is read and not reset.
NoticeLoads ==
  /\ pc[Main] = "send"
  /\ batch = <<>>
  /\ announced' = announced + dropped
  /\ Goto(Main, AfterFlush)
  /\ UNCHANGED <<ready, unloading, backlogVars, line, batch, sent, logged, returned, lost, overdue>>

\* The count is swapped for 0, outside the mutex; a line of its own says how
\* many were dropped, when any were.
Notice ==
  /\ pc[Main] = "send"
  /\ batch = <<>>
  /\ announced' = announced + dropped
  /\ dropped' = 0
  /\ Goto(Main, AfterFlush)
  /\ UNCHANGED <<ready, unloading, backlog, waiting, holder, line, batch, sent, logged, returned, lost, overdue>>

WriteOwn ==
  /\ pc[Main] = "own"
  /\ sent' = Append(sent, line[Main])
  /\ Goto(Main, "idle")
  /\ CallReturns(Main)
  /\ UNCHANGED <<ready, unloading, backlogVars, batch, logged, lost, announced, overdue>>

-----------------------------------------------------------------------------
(* The main thread's other calls of flush_server_backlog.                  *)

\* SA-MP's Load and open.mp's onLoad hand over the log, then flush.
Load ==
  /\ pc[Main] = "idle"
  /\ ~ready
  /\ ready' = TRUE
  /\ Goto(Main, "check")
  /\ UNCHANGED <<unloading, backlogVars, line, batch, sent, history>>

Tick ==
  /\ pc[Main] = "idle"
  /\ ready
  /\ Goto(Main, "check")
  /\ UNCHANGED <<ready, unloading, backlogVars, line, batch, sent, history>>

\* Mutant: unload leaves the flush to a tick that does not come.
UnloadUnflushed ==
  /\ pc[Main] = "idle"
  /\ ready
  /\ unloading' = TRUE
  /\ overdue' = returned
  /\ Goto(Main, "gone")
  /\ UNCHANGED <<ready, backlogVars, line, batch, sent, logged, returned, lost, announced>>

\* After on_unload: the last flush there is.
Unload ==
  /\ pc[Main] = "idle"
  /\ ready
  /\ unloading' = TRUE
  /\ overdue' = returned
  /\ Goto(Main, "check")
  /\ UNCHANGED <<ready, backlogVars, line, batch, sent, logged, returned, lost, announced>>

ThreadStep(t) == Enqueue(t) \/ Mark(t)

FlushStep == SkipFlush \/ TakeBacklog \/ WriteLine \/ Notice \/ WriteOwn

Next ==
  \/ \E t \in Threads, kind \in LineKinds : Log(t, kind)
  \/ \E t \in Threads : ThreadStep(t)
  \/ FlushStep
  \/ Load \/ Tick \/ Unload

SafeSpec == Init /\ [][Next]_vars

\* Threads inside the logger get on, the server loads the plugin and goes on
\* ticking.  Nobody has to log, and nothing says the server ever unloads.
Fairness ==
  /\ \A t \in Threads : WF_vars(ThreadStep(t))
  /\ WF_vars(FlushStep)
  /\ WF_vars(Load)
  /\ WF_vars(Tick)

Spec == SafeSpec /\ Fairness

-----------------------------------------------------------------------------
(* Properties.                                                             *)

TypeOK ==
  /\ {ready, unloading, waiting} \subseteq BOOLEAN
  /\ {dropped, announced} \subseteq Nat
  /\ holder \in Threads \cup {NoThread}
  /\ pc \in [Threads -> Places]
  /\ line \in [Threads -> 0 .. MaxLines]
  /\ backlog \in Seq(Line) /\ batch \in Seq(Line) /\ sent \in Seq(Line)
  /\ logged \in Seq(LogEntry)
  /\ {returned, lost, overdue} \subseteq SUBSET Line

SentBefore(id, i) == \E j \in 1 .. i - 1 : sent[j] = id

\* A line whose call had returned when another line's call began is in the
\* server's log ahead of it, or was dropped: whichever threads log, and however
\* their calls overlap a flush, the server's log never tells effect before
\* cause ("before any line the main thread logs", logger.rs:879).
CauseBeforeEffect ==
  \A i \in DOMAIN sent : \A id \in logged[sent[i]].before :
    id \in lost \/ SentBefore(id, i)

\* No line is written twice, and a dropped one is not written at all.
WrittenOnce ==
  /\ \A i, j \in DOMAIN sent : sent[i] = sent[j] => i = j
  /\ \A i \in DOMAIN sent : sent[i] \notin lost

\* Every drop is counted once, by the counter or by a notice in the server's
\* log, though the counter is emptied outside the mutex that fills it.
DropsAccountedFor == dropped + announced = Cardinality(lost)

\* Nothing waits without the flag that makes the next flush look: a line in the
\* backlog or a drop not announced means that the flag is up, that the thread
\* that put it there is still inside the mutex, or that the flush under way has
\* yet to empty the counter.
NothingWaitsUnmarked ==
  /\ backlog # <<>> => waiting \/ holder # NoThread
  /\ dropped > 0 => waiting \/ holder # NoThread \/ pc[Main] = "send"

\* Whatever had been logged when the unload's flush began is in the server's log
\* once the plugin is gone, drops excepted: only what comes later is left.
UnloadLeavesNothing ==
  pc[Main] = "gone" => \A id \in overdue : id \in lost \/ SentBefore(id, Len(sent) + 1)

\* While the server ticks, every line logged reaches its log or is dropped, a
\* failure report is not dropped, and every drop is announced.
EveryLineSettles ==
  \A id \in Line :
    id \in returned ~> \/ SentBefore(id, Len(sent) + 1)
                       \/ id \in lost /\ logged[id].kind = "line"
                       \/ unloading
DropsAnnounced == dropped > 0 ~> (dropped = 0 \/ unloading)

=============================================================================
