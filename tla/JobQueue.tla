------------------------------ MODULE JobQueue ------------------------------
(***************************************************************************)
(* What mainthread.rs promises of its queue, whatever the threads, locks   *)
(* and drains behind it look like: "The job runs once, in the order it was *)
(* posted" (mainthread.rs:118).  Jobs are numbered in the order they were  *)
(* posted.  MainThread is shown to implement this specification when the   *)
(* plugin leaves draining to the tick.                                     *)
(***************************************************************************)
EXTENDS Naturals, Sequences

CONSTANT MaxPosts               \* bound of the model: jobs ever posted

VARIABLES
  queue,                        \* jobs posted and not started, oldest first
  started                       \* jobs started, in the order they were

vars == <<queue, started>>

Init ==
  /\ queue = <<>>
  /\ started = <<>>

Post ==
  /\ Len(queue) + Len(started) < MaxPosts
  /\ queue' = Append(queue, Len(queue) + Len(started) + 1)
  /\ UNCHANGED started

Run ==
  /\ queue # <<>>
  /\ started' = Append(started, Head(queue))
  /\ queue' = Tail(queue)

Next == Post \/ Run

SafeSpec == Init /\ [][Next]_vars

Spec == SafeSpec /\ WF_vars(Run)

=============================================================================
