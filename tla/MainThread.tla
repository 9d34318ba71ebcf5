----------------------------- MODULE MainThread -----------------------------
(***************************************************************************)
(* The queue that brings background work back to the server's main thread  *)
(* (crates/samp/src/mainthread.rs), the plugin borrow its jobs go through  *)
(* (with_instance and NativeFrame, crates/samp/src/plugin.rs) and the tick *)
(* that drains it (crates/samp/src/interlayer.rs).                         *)
(*                                                                         *)
(* Worker threads interleave freely.  The main thread is one call stack:   *)
(* the server calls a tick or a native, the SDK drains the queue, a job    *)
(* runs plugin code, and plugin code may call back into the SDK or into    *)
(* Pawn, whose script may call a native of the plugin.  Jobs are numbered  *)
(* in the order post() appended them.                                      *)
(***************************************************************************)
EXTENDS Naturals, Sequences

CONSTANTS
  Workers,          \* threads other than the main one
  Main,             \* the server's thread
  NoThread,         \* nobody holds the mutex
  Kinds,            \* the kinds of job the plugin posts
  PluginCalls,      \* what the plugin's own code does when it has control
  BacklogWarning,   \* BACKLOG_WARNING
  MaxPosts,         \* bound of the model: jobs ever posted
  MaxDepth          \* bound of the model: nested calls on the main thread

\* "with" is post_with::<T>, "with_amx" is post_with_amx::<T, _>, "other" is
\* post_with naming a type that is not the plugin's, "plain" is post.
AllKinds == {"plain", "with", "with_amx", "other"}

AllCalls ==
  {"post", "run_pending", "with_instance", "native", "native_self",
   "set_budget", "script", "panic"}

ASSUME ThreadsAssumption == Main \notin Workers /\ NoThread \notin Workers \cup {Main}
ASSUME KindsAssumption == Kinds \subseteq AllKinds /\ PluginCalls \subseteq AllCalls
ASSUME BoundsAssumption == BacklogWarning \in Nat /\ MaxPosts \in Nat /\ MaxDepth \in Nat

VARIABLES
  jobs,       \* Queue.jobs
  len,        \* Queue.len, the copy read without the lock
  holder,     \* the thread inside the mutex of Queue.jobs
  posting,    \* where each thread is inside post()
  warned,     \* WARNED of post()
  budgeted,   \* BUDGET_NANOS # 0
  borrowed,   \* PLUGIN_BORROWED
  depth,      \* NATIVE_DEPTH
  loaded,     \* amx::get finds the script the "with_amx" jobs name
  stack,      \* the main thread's calls, innermost last
  posted,     \* history: the kind of each job, in the order of the appends
  started,    \* history: the jobs run_pending called, in that order
  fate        \* history: what became of each job

queueVars == <<jobs, len, holder, posting, warned>>
pluginVars == <<borrowed, depth, loaded>>
history == <<posted, started, fate>>
vars == <<queueVars, budgeted, pluginVars, stack, history>>

Threads == Workers \cup {Main}
Job == 1 .. MaxPosts

\* One activation on the main thread; at = "plugin" when the plugin's own code
\* has control in it.  For a "run_pending" frame `left` is the rest of the batch
\* it took, `limited` whether a deadline is set, `id` the job it is running (0
\* for none) and `upto` (history) how many jobs had been posted at the take.
Frame ==
  [fn : {"tick", "run_pending", "with_instance", "native", "native_self"},
   at : {"run_pending", "take", "loop", "put_back", "call", "reply", "end", "plugin"},
   id : 0 .. MaxPosts, left : Seq(Job), limited : BOOLEAN, upto : Nat]

Call(fn, at) ==
  [fn |-> fn, at |-> at, id |-> 0, left |-> <<>>, limited |-> FALSE, upto |-> 0]

Fates == {"waiting", "running", "ran", "panicked", "refused", "no_script"}

Top == stack[Len(stack)]
Below == SubSeq(stack, 1, Len(stack) - 1)
Push(frame) == Append(stack, frame)
SetTop(frame) == Append(Below, frame)

\* The main thread is in `fn` at `at`, and not inside post().
MainIn(fn, at) ==
  /\ posting[Main] = "idle"
  /\ stack # <<>>
  /\ Top.fn = fn
  /\ Top.at = at

\* The plugin's own code has control, and makes the call named `call`.
PluginDoes(call) ==
  /\ call \in PluginCalls
  /\ posting[Main] = "idle"
  /\ stack # <<>>
  /\ Top.at = "plugin"

\* The server is between two calls into the plugin.
ServerIdle == stack = <<>>

Init ==
  /\ jobs = <<>>
  /\ len = 0
  /\ holder = NoThread
  /\ posting = [t \in Threads |-> "idle"]
  /\ warned = FALSE
  /\ budgeted = FALSE
  /\ borrowed = FALSE
  /\ depth = 0
  /\ loaded = TRUE
  /\ stack = <<>>
  /\ posted = <<>>
  /\ started = <<>>
  /\ fate = <<>>

-----------------------------------------------------------------------------
(* post(): Queue::push under the mutex, the warning after it is released.  *)

PostAppend(t, kind) ==
  /\ t = Main => PluginDoes("post")
  /\ posting[t] = "idle"
  /\ holder = NoThread
  /\ Len(posted) < MaxPosts
  /\ holder' = t
  /\ jobs' = Append(jobs, Len(posted) + 1)
  /\ posting' = [posting EXCEPT ![t] = "store"]
  /\ posted' = Append(posted, kind)
  /\ fate' = Append(fate, "waiting")
  /\ UNCHANGED <<len, warned, budgeted, pluginVars, stack, started>>

\* Mutant: the length is read before the push.
StaleLen == Len(jobs) - 1

\* The count push() publishes, still inside the mutex.
PublishedLen == Len(jobs)

PostStore(t) ==
  /\ posting[t] = "store"
  /\ len' = PublishedLen
  /\ holder' = NoThread
  /\ posting' = [posting EXCEPT ![t] =
                   IF Len(jobs) >= BacklogWarning THEN "warn" ELSE "idle"]
  /\ UNCHANGED <<jobs, warned, budgeted, pluginVars, stack, history>>

PostWarn(t) ==
  /\ posting[t] = "warn"
  /\ warned' = TRUE
  /\ posting' = [posting EXCEPT ![t] = "idle"]
  /\ UNCHANGED <<jobs, len, holder, budgeted, pluginVars, stack, history>>

-----------------------------------------------------------------------------
(* run_pending(): take the batch, run it job by job, put the rest back.    *)

\* The plugin drains by itself, as mainthread.rs:40 offers.
RunPending ==
  /\ PluginDoes("run_pending")
  /\ Len(stack) < MaxDepth
  /\ stack' = Push(Call("run_pending", "take"))
  /\ UNCHANGED <<queueVars, budgeted, pluginVars, history>>

\* Queue::take on its fast path: no lock when the count reads 0.
TakeNothing ==
  /\ MainIn("run_pending", "take")
  /\ len = 0
  /\ stack' = Below
  /\ UNCHANGED <<queueVars, budgeted, pluginVars, history>>

\* Mutant: the batch is copied out and the queue keeps it.
TakeCopies ==
  /\ MainIn("run_pending", "take")
  /\ len # 0
  /\ holder = NoThread
  /\ stack' = SetTop([Top EXCEPT !.at = "loop", !.left = jobs,
                                 !.limited = budgeted, !.upto = Len(posted)])
  /\ UNCHANGED <<queueVars, budgeted, pluginVars, history>>

Take ==
  /\ MainIn("run_pending", "take")
  /\ len # 0
  /\ holder = NoThread
  /\ len' = 0
  /\ jobs' = <<>>
  /\ stack' = SetTop([Top EXCEPT !.at = "loop", !.left = jobs,
                                 !.limited = budgeted, !.upto = Len(posted)])
  /\ UNCHANGED <<holder, posting, warned, budgeted, pluginVars, history>>

\* Mutant: the count, already reset by the take, also goes down job by job.
StartJobCountsDown ==
  /\ MainIn("run_pending", "loop")
  /\ Top.left # <<>>
  /\ len' = len - 1
  /\ LET id == Head(Top.left) IN
       /\ stack' = SetTop([Top EXCEPT !.at = "plugin", !.id = id, !.left = Tail(Top.left)])
       /\ started' = Append(started, id)
       /\ fate' = [fate EXCEPT ![id] = "running"]
  /\ UNCHANGED <<jobs, holder, posting, warned, budgeted, pluginVars, posted>>

\* The closure post() boxed: the job itself, or the one post_with and
\* post_with_amx wrap around it.
StartJob ==
  /\ MainIn("run_pending", "loop")
  /\ Top.left # <<>>
  /\ LET id == Head(Top.left) IN
       /\ stack' = SetTop([Top EXCEPT
            !.at = IF posted[id] = "plain" THEN "plugin" ELSE "call",
            !.id = id, !.left = Tail(Top.left)])
       /\ started' = Append(started, id)
       /\ fate' = [fate EXCEPT ![id] = "running"]
  /\ UNCHANGED <<queueVars, budgeted, pluginVars, posted>>

\* Where the loop goes after a job: with a deadline, the clock decides.
AfterJob(limited) == IF limited THEN {"loop", "put_back"} ELSE {"loop"}

\* The job of frame i is over, unwinding whatever it had called.
FinishJob(i, outcome) ==
  /\ \E next \in AfterJob(stack[i].limited) :
       stack' = Append(SubSeq(stack, 1, i - 1), [stack[i] EXCEPT !.at = next, !.id = 0])
  /\ fate' = [fate EXCEPT ![stack[i].id] = outcome]

\* Mutant: the rest of the batch goes behind what was posted meanwhile.
MergedBehind(left, newer) == newer \o left

\* Mutant: the rest of the batch replaces what was posted meanwhile.
MergedOver(left, newer) == left

\* Queue::put_back: what is left goes ahead of what was posted meanwhile.
Merged(left, newer) == left \o newer

\* Mutant: the count keeps the 0 of the take.
PutBackUncounted ==
  /\ MainIn("run_pending", "put_back")
  /\ Top.left # <<>>
  /\ holder = NoThread
  /\ jobs' = Merged(Top.left, jobs)
  /\ stack' = Below
  /\ UNCHANGED <<len, holder, posting, warned, budgeted, pluginVars, history>>

PutBack ==
  /\ MainIn("run_pending", "put_back")
  /\ Top.left # <<>>
  /\ holder = NoThread
  /\ jobs' = Merged(Top.left, jobs)
  /\ len' = Len(jobs')
  /\ stack' = Below
  /\ UNCHANGED <<holder, posting, warned, budgeted, pluginVars, history>>

\* Mutant: the drain goes on with what was posted while it ran.
DrainRefills ==
  /\ MainIn("run_pending", "loop") \/ MainIn("run_pending", "put_back")
  /\ Top.left = <<>>
  /\ holder = NoThread
  /\ len' = 0
  /\ jobs' = <<>>
  /\ stack' = IF jobs = <<>> THEN Below ELSE SetTop([Top EXCEPT !.at = "loop", !.left = jobs])
  /\ UNCHANGED <<holder, posting, warned, budgeted, pluginVars, history>>

DrainReturns ==
  /\ MainIn("run_pending", "loop") \/ MainIn("run_pending", "put_back")
  /\ Top.left = <<>>
  /\ stack' = Below
  /\ UNCHANGED <<queueVars, budgeted, pluginVars, history>>

-----------------------------------------------------------------------------
(* with_instance(), and the jobs that go through it.                       *)

\* Mutant: only the borrow flag is looked at.
LendableUnderNative == ~borrowed

\* The plugin may be lent: no native of the plugin is running, no borrow lives.
Lendable == depth = 0 /\ ~borrowed

LendTo(frames) ==
  /\ borrowed' = TRUE
  /\ stack' = Append(frames, Call("with_instance", "plugin"))

\* The plugin's code calls with_instance itself.  A refusal changes nothing.
WithInstance ==
  /\ PluginDoes("with_instance")
  /\ Len(stack) < MaxDepth
  /\ Lendable
  /\ LendTo(stack)
  /\ UNCHANGED <<queueVars, budgeted, depth, loaded, history>>

\* post_with_amx resolves the script before disturbing the plugin.
JobWithoutScript ==
  /\ MainIn("run_pending", "call")
  /\ posted[Top.id] = "with_amx"
  /\ ~loaded
  /\ FinishJob(Len(stack), "no_script")
  /\ UNCHANGED <<queueVars, budgeted, pluginVars, posted, started>>

JobBorrows ==
  /\ MainIn("run_pending", "call")
  /\ posted[Top.id] \in {"with", "with_amx"}
  /\ posted[Top.id] = "with_amx" => loaded
  /\ Lendable
  /\ LendTo(SetTop([Top EXCEPT !.at = IF posted[Top.id] = "with_amx" THEN "reply" ELSE "end"]))
  /\ UNCHANGED <<queueVars, budgeted, depth, loaded, history>>

\* with_instance answers None: the job's own closure is dropped unrun.  A
\* refused call leaves PLUGIN_BORROWED as it was, and so does one that got
\* past the flags to find that T is not the plugin's type.
JobRefused ==
  /\ MainIn("run_pending", "call")
  /\ posted[Top.id] = "with_amx" => loaded
  /\ posted[Top.id] = "other" \/ ~Lendable
  /\ FinishJob(Len(stack), "refused")
  /\ UNCHANGED <<queueVars, budgeted, pluginVars, posted, started>>

\* The borrow has ended; a with_amx job now resolves the script again.
JobReplies ==
  /\ MainIn("run_pending", "reply")
  /\ loaded
  /\ stack' = SetTop([Top EXCEPT !.at = "plugin"])
  /\ UNCHANGED <<queueVars, budgeted, pluginVars, history>>

JobEnds ==
  /\ MainIn("run_pending", "end") \/ MainIn("run_pending", "reply")
  /\ Top.at = "reply" => ~loaded
  /\ FinishJob(Len(stack), "ran")
  /\ UNCHANGED <<queueVars, budgeted, pluginVars, posted, started>>

-----------------------------------------------------------------------------
(* The server's calls, and what else the plugin's code does.               *)

Tick ==
  /\ ServerIdle
  /\ MaxDepth >= 2
  /\ stack' = <<Call("tick", "run_pending"), Call("run_pending", "take")>>
  /\ UNCHANGED <<queueVars, budgeted, pluginVars, history>>

OnTick ==
  /\ MainIn("tick", "run_pending")
  /\ stack' = SetTop([Top EXCEPT !.at = "plugin"])
  /\ UNCHANGED <<queueVars, budgeted, pluginVars, history>>

\* A script calls a native: because the server ran one of its publics, or
\* because the plugin called into Pawn.  Only a native taking self counts.
Native(fn) ==
  /\ \/ ServerIdle /\ fn \in PluginCalls
     \/ PluginDoes(fn)
  /\ Len(stack) < MaxDepth
  /\ stack' = Push(Call(fn, "plugin"))
  /\ depth' = IF fn = "native_self" THEN depth + 1 ELSE depth
  /\ UNCHANGED <<queueVars, budgeted, borrowed, loaded, history>>

\* Mutant: leaving any native clears the count.
ClearDepth(d) == 0

LeaveNative(d) == IF d = 0 THEN 0 ELSE d - 1

\* What the frame's Drop does to the two flags when it is left.
Release(frame) ==
  /\ borrowed' = IF frame.fn = "with_instance" THEN FALSE ELSE borrowed
  /\ depth' = IF frame.fn = "native_self" THEN LeaveNative(depth) ELSE depth

Return ==
  /\ posting[Main] = "idle"
  /\ stack # <<>>
  /\ Top.at = "plugin"
  /\ IF Top.fn = "run_pending"
     THEN FinishJob(Len(stack), "ran") /\ UNCHANGED pluginVars
     ELSE /\ stack' = Below
          /\ Release(Top)
          /\ UNCHANGED <<loaded, fate>>
  /\ UNCHANGED <<queueVars, budgeted, posted, started>>

\* A panic ends the closure of a with_instance frame and then whatever called
\* it, up to the catch of a job, a native or an open.mp tick.
Catcher == IF Top.fn = "with_instance" THEN Len(stack) - 1 ELSE Len(stack)

Panic ==
  /\ PluginDoes("panic")
  /\ IF stack[Catcher].fn = "run_pending"
     THEN /\ FinishJob(Catcher, "panicked")
          /\ Release(Top)
     ELSE /\ stack' = SubSeq(stack, 1, Catcher - 1)
          /\ borrowed' = IF Top.fn = "with_instance" THEN FALSE ELSE borrowed
          /\ depth' = IF stack[Catcher].fn = "native_self" THEN LeaveNative(depth) ELSE depth
          /\ UNCHANGED fate
  /\ UNCHANGED <<queueVars, budgeted, loaded, posted, started>>

\* set_budget may be called on any thread; here the main one does.
SetBudget ==
  /\ PluginDoes("set_budget")
  /\ budgeted' = ~budgeted
  /\ UNCHANGED <<queueVars, pluginVars, stack, history>>

\* The script is unloaded or loaded, by the server between two calls or by a
\* script the plugin called into.  AmxRegistry models what amx::get answers.
Script ==
  /\ \/ ServerIdle /\ "script" \in PluginCalls
     \/ PluginDoes("script")
  /\ loaded' = ~loaded
  /\ UNCHANGED <<queueVars, budgeted, borrowed, depth, stack, history>>

PostStep(t) == PostStore(t) \/ PostWarn(t)

DrainStep ==
  \/ TakeNothing \/ Take \/ StartJob \/ PutBack \/ DrainReturns
  \/ JobWithoutScript \/ JobBorrows \/ JobRefused \/ JobReplies \/ JobEnds

PluginStep ==
  \/ RunPending \/ WithInstance \/ Return \/ Panic \/ SetBudget
  \/ \E fn \in {"native", "native_self"} : Native(fn)

Next ==
  \/ \E t \in Threads, kind \in Kinds : PostAppend(t, kind)
  \/ \E t \in Threads : PostStep(t)
  \/ DrainStep
  \/ Tick \/ OnTick
  \/ PluginStep
  \/ Script

SafeSpec == Init /\ [][Next]_vars

\* A thread inside post() gets to leave it, the drain and the tick advance, the
\* server calls the tick again and again, and every call of the plugin's code
\* returns: the server is frozen by one that does not.  Nothing is assumed of
\* what the plugin or its scripts choose to do.
Fairness ==
  /\ \A t \in Threads : WF_vars(PostStep(t))
  /\ WF_vars(DrainStep)
  /\ WF_vars(OnTick)
  /\ SF_vars(Tick)
  /\ \A d \in 1 .. MaxDepth + 1 : SF_vars(Len(stack) = d /\ Return)

Spec == SafeSpec /\ Fairness

-----------------------------------------------------------------------------
(* Properties.                                                             *)

TypeOK ==
  /\ jobs \in Seq(Job)
  /\ len \in Nat
  /\ holder \in Threads \cup {NoThread}
  /\ posting \in [Threads -> {"idle", "store", "warn"}]
  /\ warned \in BOOLEAN
  /\ budgeted \in BOOLEAN
  /\ borrowed \in BOOLEAN
  /\ depth \in Nat
  /\ loaded \in BOOLEAN
  /\ stack \in Seq(Frame)
  /\ posted \in Seq(Kinds)
  /\ Len(posted) <= MaxPosts
  /\ started \in Seq(Job)
  /\ fate \in Seq(Fates)
  /\ Len(fate) = Len(posted)

\* The count that run_pending and pending() read without the lock is the number
\* of queued jobs whenever nobody is inside the mutex, so a drain that trusts a
\* count of 0 never passes over a job whose post() has returned.
CountMirrorsQueue ==
  /\ holder = NoThread => len = Len(jobs)
  /\ \A t \in Threads : holder = t <=> posting[t] = "store"

InQueue(id) == \E i \in DOMAIN jobs : jobs[i] = id
InBatch(id) == \E d \in DOMAIN stack : \E i \in DOMAIN stack[d].left : stack[d].left[i] = id
IsStarted(id) == \E i \in DOMAIN started : started[i] = id

\* A posted job is in the queue, in the batch of a drain under way, or has been
\* started, and in one of the three only: drains inside drains, panics, budgets
\* and posts from other threads between a take and a put_back lose none and
\* leave no second copy behind.
ExactlyOnePlace ==
  \A id \in 1 .. Len(posted) :
    /\ InQueue(id) \/ InBatch(id) \/ IsStarted(id)
    /\ ~(InQueue(id) /\ InBatch(id))
    /\ ~(InQueue(id) /\ IsStarted(id))
    /\ ~(InBatch(id) /\ IsStarted(id))

\* "The job runs once" (mainthread.rs:118): no job is called a second time,
\* whatever happened the first time.
StartedOnce == \A i, j \in DOMAIN started : started[i] = started[j] => i = j

\* PLUGIN_BORROWED and NATIVE_DEPTH say what the main thread's stack says: every
\* way out of a with_instance closure or a native, a panic included, undoes its
\* own mark and nobody else's.
FlagsMatchStack ==
  /\ borrowed <=> \E d \in DOMAIN stack : stack[d].fn = "with_instance"
  /\ depth > 0 <=> \E d \in DOMAIN stack : stack[d].fn = "native_self"

\* with_instance never lends the plugin underneath another with_instance or
\* inside a native that holds `&mut self` (plugin.rs:344-345), and so no job
\* sees the plugin half way through another job's change to it.
LendsOnce ==
  \A c, d \in DOMAIN stack :
    c < d /\ stack[d].fn = "with_instance" => stack[c].fn \notin {"with_instance", "native_self"}

\* "A job posted while the queue is draining runs on the next tick, not the
\* current one" (mainthread.rs:43): no job a drain runs was posted after the
\* drain took its batch.
PostedWhileDrainingWaits ==
  \A d \in DOMAIN stack : stack[d].id <= stack[d].upto

\* Jobs start in the order they were posted (mainthread.rs:118, threads.md:139).
StartedInPostingOrder ==
  \A i, j \in DOMAIN started : i < j => started[i] < started[j]

\* "The job runs once" (mainthread.rs:118): the closure given to post_with by a
\* plugin that names its own type is not thrown away unrun.
NoJobThrownAway ==
  \A id \in DOMAIN fate : fate[id] = "refused" => posted[id] = "other"

\* With the server ticking and the plugin's calls returning, every job posted
\* is eventually done with: run, panicked, or dropped for a stated reason.
EveryJobSettles ==
  \A id \in Job : Len(posted) >= id ~> (Len(fate) >= id /\ fate[id] \notin {"waiting", "running"})

\* What is posted and not started, oldest first, when only the tick drains.
Backlog == (IF Len(stack) >= 2 /\ stack[2].fn = "run_pending" THEN stack[2].left ELSE <<>>) \o jobs

Abstract == INSTANCE JobQueue WITH queue <- Backlog, started <- started

\* When the plugin leaves draining to the tick, the mutex, the count outside it,
\* the batches and the budget implement a queue that runs every job once, in
\* the order of posting, and never stops advancing.
ImplementsJobQueue == Abstract!Spec

=============================================================================
