---------------------------- MODULE EventDispatch ----------------------------
(***************************************************************************)
(* Pawn callbacks seen from Rust: the detour of amx_Exec                   *)
(* (crates/samp/src/events.rs), the mark that keeps a callback from being  *)
(* dispatched inside its own dispatch (crates/samp/src/runtime.rs), and    *)
(* the calls into Pawn that share the script's stack and its count of      *)
(* pushed arguments (call_public and Allocator, crates/samp-sdk/src/       *)
(* amx.rs).                                                                *)
(*                                                                         *)
(* One script, one thread, and the calls of its publics in progress, one   *)
(* inside the other: from the server, from a native or a tick of the       *)
(* plugin, from an event handler.  Positions on the script's stack count   *)
(* the cells in use; what a running public itself keeps there is left out, *)
(* since amx_Exec takes it away again.                                     *)
(***************************************************************************)
EXTENDS Integers, Sequences, SequencesExt

CONSTANTS
  Publics,          \* the script's publics
  HandlersOf,       \* how many #[event] handlers name each of them
  ArgCounts,        \* how many arguments a call may pass
  StackCells,       \* cells between the script's heap and the top of its stack
  FailsAfter,       \* an argument's allocation may fail after so many pushes
  HandlerCalls,     \* handlers of events with so many arguments call publics
  MaxDepth          \* bound of the model: calls inside calls

ASSUME HandlersAssumption == HandlersOf \in [Publics -> Nat]
ASSUME CountsAssumption ==
  /\ ArgCounts \subseteq Nat /\ FailsAfter \subseteq Nat /\ HandlerCalls \subseteq Nat
  /\ StackCells \in Nat /\ MaxDepth \in Nat

VARIABLES
  loaded,       \* on_amx_load has run for the script
  resolved,     \* resolved_events: the script's table, by public
  detour,       \* EXEC_DETOUR
  dispatching,  \* the publics being dispatched, innermost last
  used,         \* stp - stk, in cells
  paramcount,   \* AMX.paramcount
  calls         \* the calls in progress, innermost last

vmVars == <<used, paramcount>>
hookVars == <<loaded, resolved, detour>>
vars == <<hookVars, dispatching, vmVars, calls>>

Registered(p) == [i \in 1 .. HandlersOf[p] |-> i]

\* A call of a public: "push" while its arguments are pushed, "dispatch" between
\* two handlers, "handler" in one, "exec" on its way to the real amx_Exec,
\* "script" while the public runs.  `scoped` calls hold an Allocator, opened
\* with `floor` cells in use; `left` and `ran` are the handlers to run and run,
\* `read` the arguments they were given, `got` those the public was given, and
\* `reset` where amx_Exec puts the stack when it ends.
Call ==
  [public : Publics, argc : ArgCounts, scoped : BOOLEAN, floor : Int,
   at : {"push", "dispatch", "handler", "exec", "script"},
   pushed : Nat, left : Seq(Nat), ran : Seq(Nat), seen : BOOLEAN,
   read : Int, got : Int, reset : Int]

Opened(p, n, scoped) ==
  [public |-> p, argc |-> n, scoped |-> scoped, floor |-> used, at |-> "push",
   pushed |-> 0, left |-> <<>>, ran |-> <<>>, seen |-> FALSE,
   read |-> 0, got |-> 0, reset |-> 0]

Top == calls[Len(calls)]
Below == SubSeq(calls, 1, Len(calls) - 1)
SetTop(call) == Append(Below, call)
TopIs(at) == calls # <<>> /\ Top.at = at

Init ==
  /\ loaded = FALSE
  /\ resolved = [p \in Publics |-> <<>>]
  /\ detour = "none"
  /\ dispatching = <<>>
  /\ used = 0
  /\ paramcount = 0
  /\ calls = <<>>

-----------------------------------------------------------------------------
(* Loading and unloading the script.                                       *)

\* Mutant: a second on_amx_load adds to the table.
ResolvedAgain == [p \in Publics |-> resolved[p] \o Registered(p)]

\* resolve_events_for_amx and set_resolved_events: the table is replaced.
Resolved == [p \in Publics |-> Registered(p)]

\* events::on_amx_load, for a script just read into memory or once more for the
\* same one.  Building the detour may fail, and is tried again with the next
\* script; enabling it may fail, and is not.
Load ==
  /\ calls = <<>>
  /\ loaded' = TRUE
  /\ resolved' = Resolved
  /\ detour' \in IF detour = "none" THEN {"none", "disabled", "enabled"} ELSE {detour}
  /\ IF loaded THEN UNCHANGED vmVars ELSE used' = 0 /\ paramcount' = 0
  /\ UNCHANGED <<dispatching, calls>>

\* events::on_amx_unload; the script's memory is gone.
Unload ==
  /\ calls = <<>>
  /\ loaded
  /\ loaded' = FALSE
  /\ resolved' = [p \in Publics |-> <<>>]
  /\ UNCHANGED <<detour, dispatching, vmVars, calls>>

-----------------------------------------------------------------------------
(* The caller's side: the arguments of a call, and its end.                *)

\* Who may call a public now: the server and the plugin between two calls, a
\* native of the script that is running, and a handler, by itself or through
\* something it asks of the server.
MayCall ==
  \/ calls = <<>>
  \/ TopIs("script")
  \/ TopIs("handler") /\ Top.argc \in HandlerCalls

\* The plugin opens an Allocator for its call; the server, whose arguments are
\* taken to fit, does not.
Begin(p, n, scoped) ==
  /\ loaded
  /\ MayCall
  /\ Len(calls) < MaxDepth
  /\ ~scoped => used + n <= StackCells
  /\ calls' = Append(calls, Opened(p, n, scoped))
  /\ UNCHANGED <<hookVars, dispatching, vmVars>>

\* External: amx_Push takes a cell and counts it.
Push ==
  /\ TopIs("push")
  /\ Top.pushed < Top.argc
  /\ used < StackCells
  /\ used' = used + 1
  /\ paramcount' = paramcount + 1
  /\ calls' = SetTop([Top EXCEPT !.pushed = @ + 1])
  /\ UNCHANGED <<hookVars, dispatching>>

\* Amx::release_scope when the call's Allocator is dropped: cells pushed since
\* and not consumed are given back.
Released(call, cells) ==
  IF call.scoped /\ call.floor >= 0 /\ cells > call.floor THEN call.floor ELSE cells

\* An argument's push or allocation fails, and call_public returns the error.
PushFails ==
  /\ TopIs("push")
  /\ Top.scoped
  /\ Top.pushed < Top.argc
  /\ Top.pushed \in FailsAfter \/ used >= StackCells
  /\ used' = Released(Top, used)
  /\ calls' = Below
  /\ UNCHANGED <<hookVars, dispatching, paramcount>>

-----------------------------------------------------------------------------
(* exec_detour.                                                            *)

\* Mutant: a callback is dispatched inside its own dispatch.
MayEnterAlways(p) == TRUE

\* enter_dispatch refuses a public that is being dispatched.
MayEnter(p) == ~Contains(dispatching, p)

\* The detour is in place and the public has handlers that may run now.
Dispatches(p) == detour = "enabled" /\ resolved[p] # <<>> /\ MayEnter(p)

\* A table of arguments that reaches past the top of the stack is not read, and
\* the mark goes as it came.
Readable == paramcount # 0 => paramcount <= used

\* dispatch() up to its first handler.
Dispatch ==
  /\ TopIs("push")
  /\ Top.pushed = Top.argc
  /\ Dispatches(Top.public)
  /\ Readable
  /\ dispatching' = Append(dispatching, Top.public)
  /\ calls' = SetTop([Top EXCEPT !.at = "dispatch", !.left = resolved[Top.public],
                                 !.seen = TRUE, !.read = paramcount])
  /\ UNCHANGED <<hookVars, vmVars>>

\* No handler sees the call.
PassThrough ==
  /\ TopIs("push")
  /\ Top.pushed = Top.argc
  /\ Dispatches(Top.public) => ~Readable
  /\ calls' = SetTop([Top EXCEPT !.at = "exec"])
  /\ UNCHANGED <<hookVars, dispatching, vmVars>>

StartHandler ==
  /\ TopIs("dispatch")
  /\ Top.left # <<>>
  /\ calls' = SetTop([Top EXCEPT !.at = "handler", !.left = Tail(@),
                                 !.ran = Append(@, Head(Top.left))])
  /\ UNCHANGED <<hookVars, dispatching, vmVars>>

\* Continue, an observer's return, an argument that did not parse, or a panic in
\* the handler's body, which its wrapper catches.
HandlerContinues ==
  /\ TopIs("handler")
  /\ calls' = SetTop([Top EXCEPT !.at = "dispatch"])
  /\ UNCHANGED <<hookVars, dispatching, vmVars>>

\* ActiveGuard's drop: leave_dispatch takes out the last mark of the public.
Unmarked(p) == RemoveAt(dispatching, SelectLastInSeq(dispatching, LAMBDA q : q = p))

DispatchEnds ==
  /\ TopIs("dispatch")
  /\ Top.left = <<>>
  /\ dispatching' = Unmarked(Top.public)
  /\ calls' = SetTop([Top EXCEPT !.at = "exec"])
  /\ UNCHANGED <<hookVars, vmVars>>

\* A panic before a handler's body, while its wrapper parses the arguments or
\* fetches the plugin: exec_detour catches it, and the public runs.
DispatchPanics ==
  /\ TopIs("dispatch")
  /\ Top.left # <<>>
  /\ dispatching' = Unmarked(Top.public)
  /\ calls' = SetTop([Top EXCEPT !.at = "exec", !.left = <<>>, !.seen = FALSE])
  /\ UNCHANGED <<hookVars, vmVars>>

\* Mutant: the cells are given back, the count is not reset.
ConsumedUncounted == used' = used - paramcount /\ UNCHANGED paramcount

\* Mutant: the count is reset, the cells stay.
ConsumedUnmoved == paramcount' = 0 /\ UNCHANGED used

\* consume_arguments: what amx_Exec would have done with them.
Consumed == used' = used - paramcount /\ paramcount' = 0

\* A handler suppresses the callback: no later handler, no public.
HandlerSuppresses ==
  /\ TopIs("handler")
  /\ dispatching' = Unmarked(Top.public)
  /\ Consumed
  /\ calls' = Below
  /\ UNCHANGED hookVars

-----------------------------------------------------------------------------
(* External: the real amx_Exec, as consume_arguments describes it.         *)

RunPublic ==
  /\ TopIs("exec")
  /\ paramcount' = 0
  /\ calls' = SetTop([Top EXCEPT !.at = "script", !.got = paramcount,
                                 !.reset = used - paramcount])
  /\ UNCHANGED <<hookVars, dispatching, used>>

\* Mutant: the call takes its arguments off the count a second time.
PublicReturnsTwice ==
  /\ TopIs("script")
  /\ used' = Released(Top, Top.reset)
  /\ paramcount' = paramcount - Top.got
  /\ calls' = Below
  /\ UNCHANGED <<hookVars, dispatching>>

\* The public returns or is aborted: the stack is put back, and then the
\* caller's Allocator is dropped.
PublicReturns ==
  /\ TopIs("script")
  /\ used' = Released(Top, Top.reset)
  /\ calls' = Below
  /\ UNCHANGED <<hookVars, dispatching, paramcount>>

Next ==
  \/ Load \/ Unload
  \/ \E p \in Publics, n \in ArgCounts, scoped \in BOOLEAN : Begin(p, n, scoped)
  \/ Push \/ PushFails
  \/ Dispatch \/ PassThrough \/ StartHandler
  \/ HandlerContinues \/ HandlerSuppresses \/ DispatchPanics \/ DispatchEnds
  \/ RunPublic \/ PublicReturns

Spec == Init /\ [][Next]_vars

-----------------------------------------------------------------------------
(* Properties.                                                             *)

TypeOK ==
  /\ loaded \in BOOLEAN
  /\ resolved \in [Publics -> Seq(Nat)]
  /\ detour \in {"none", "disabled", "enabled"}
  /\ dispatching \in Seq(Publics)
  /\ used \in Int
  /\ paramcount \in Nat
  /\ calls \in Seq(Call)

InDispatch(d) == calls[d].at \in {"dispatch", "handler"}

\* "A handler cannot recurse into itself without bound" (docs/events.md:140): a
\* public is marked exactly while one call of it is being dispatched, and never
\* two of its calls are.  A mark left behind by a suppression or a panic would
\* silence the callback for good.
MarksMatchDispatches ==
  /\ \A p \in Publics :
       Contains(dispatching, p) <=> \E d \in DOMAIN calls : InDispatch(d) /\ calls[d].public = p
  /\ \A c, d \in DOMAIN calls :
       InDispatch(c) /\ InDispatch(d) /\ calls[c].public = calls[d].public => c = d
  /\ \A i, j \in DOMAIN dispatching : dispatching[i] = dispatching[j] => i = j

\* Handlers of a callback run in registration order, each once (docs/events.md:
\* 110), also when the script was delivered twice and when handlers cause other
\* callbacks; a public that was dispatched runs only after all of them.
HandlersOnceInOrder ==
  \A d \in DOMAIN calls :
    /\ InDispatch(d) => calls[d].ran \o calls[d].left = Registered(calls[d].public)
    /\ calls[d].seen /\ calls[d].at \in {"exec", "script"} =>
         calls[d].ran = Registered(calls[d].public)

\* Every handler and every public is given the arguments its caller pushed, no
\* more and no fewer, whatever was suppressed, aborted or nested before it: an
\* observer leaves the callback "unchanged" (events.rs:223).
ArgumentsIntact ==
  \A d \in DOMAIN calls :
    /\ InDispatch(d) => calls[d].read = calls[d].argc
    /\ calls[d].at = "script" => calls[d].got = calls[d].argc /\ calls[d].reset = calls[d].floor

\* A call over, the script's stack and its count of arguments are what they were
\* before the first push: in a few hundred suppressed callbacks anything else
\* runs the stack into the heap (events.rs:257).
CallLeavesNoTrace ==
  [][Len(calls') < Len(calls) => used' = Top.floor /\ paramcount' = 0]_vars

\* "On a failed push sequence it restores the leftover cells so the VM stack
\* stays balanced" (amx.rs:973): with no call in progress nothing is on it.
BalancedAtRest == calls = <<>> => used = 0

=============================================================================
