---------------------------- MODULE OmpLifecycle ----------------------------
(***************************************************************************)
(* The plugin as a component of open.mp, from on_init to its end           *)
(* (crates/samp/src/interlayer.rs omp_on_ready, omp_on_free, omp_cleanup;  *)
(* runtime.rs), on top of the registry of scripts: who owns the tick timer,*)
(* its handler and the handler for Pawn's events, while the server frees   *)
(* its components in an order of its own.                                  *)
(*                                                                         *)
(* Handlers are Boxes given away as raw pointers: the timer's comes back   *)
(* through tick_handler_free, once, when the server destroys the timer.    *)
(***************************************************************************)
EXTENDS AmxRegistry

VARIABLES
  components,    \* external: the server's component list
  freeing,       \* external: the component being freed, "none" for none
  wanted,        \* omp_tick_interval() is Some: the plugin asked for ticks
  tick_timer,    \* omp_tick_timer is Some
  tick_handler,  \* omp_tick_handler is Some
  pawn_handler,  \* pawn_event_handler is Some
  timer,         \* external: the server's timer
  registered,    \* external: the dispatcher of Pawn's events has the handler
  tickBox,       \* the heap object behind the timer's handler
  pawnBox,       \* the heap object behind the handler of Pawn's events
  dropped,       \* history: the boxes dropped, and how often
  cut,           \* history: a panic ended omp_on_ready
  uncreated      \* history: the server had no timer to give

slots == <<tick_timer, tick_handler, pawn_handler>>
server == <<components, freeing, timer, registered>>
boxes == <<tickBox, pawnBox, dropped>>
lifeVars == <<server, wanted, slots, boxes, cut, uncreated>>
allVars == <<vars, lifeVars>>

Components == {"pawn", "timers", "self"}

\* The server still has this component; it is in the list until it has been freed.
Present(c) == c \in components

\* on_init has run: a handler is registered if Pawn and its dispatcher are there.
OmpInit ==
  /\ Init
  /\ components \in IF omp THEN {Components, {"pawn", "self"}} ELSE {{}}
  /\ freeing = "none"
  /\ wanted \in (IF omp THEN BOOLEAN ELSE {FALSE})
  /\ tick_timer = FALSE /\ tick_handler = FALSE
  /\ registered \in (IF omp THEN BOOLEAN ELSE {FALSE})
  /\ pawn_handler = registered
  /\ timer = "none"
  /\ tickBox = "none"
  /\ pawnBox = IF registered THEN "live" ELSE "none"
  /\ dropped = [b \in {"tick", "pawn"} |-> 0]
  /\ cut = FALSE /\ uncreated = FALSE

Idle == stack = <<>>

-----------------------------------------------------------------------------
(* The end of omp_on_ready: the tick timer, then the plugin's hook.        *)

\* Mutant: no timer where there is no function table.
CreateTimerAfterExports(made) ==
  IF wanted /\ Present("timers") /\ exports
  THEN /\ tickBox' = IF made THEN "live" ELSE "freed"
       /\ timer' = IF made THEN "running" ELSE "none"
       /\ tick_timer' = made /\ tick_handler' = made
       /\ dropped' = [dropped EXCEPT !["tick"] = @ + (IF made THEN 0 ELSE 1)]
       /\ uncreated' = ~made
  ELSE UNCHANGED <<tickBox, timer, tick_timer, tick_handler, dropped, uncreated>>

\* A handler nobody made a timer for is dropped on the spot.
CreateTimer(made) ==
  IF wanted /\ Present("timers")
  THEN /\ tickBox' = IF made THEN "live" ELSE "freed"
       /\ timer' = IF made THEN "running" ELSE "none"
       /\ tick_timer' = made /\ tick_handler' = made
       /\ dropped' = [dropped EXCEPT !["tick"] = @ + (IF made THEN 0 ELSE 1)]
       /\ uncreated' = ~made
  ELSE UNCHANGED <<tickBox, timer, tick_timer, tick_handler, dropped, uncreated>>

ReadyEnds(made) ==
  /\ ReadyHook
  /\ CreateTimer(made)
  /\ UNCHANGED <<components, freeing, wanted, pawn_handler, registered, pawnBox, cut>>

\* A panic in the on_amx_load of a pending script ends omp_on_ready before it
\* comes to the timer.
PanicEndsReady ==
  /\ Panic
  /\ cut' = (cut \/ (Below # <<>> /\ Last(Below).fn = "ready"))
  /\ UNCHANGED <<server, wanted, slots, boxes, uncreated>>

\* tick_handler_timeout: on_tick may do whatever a hook may.
Timeout ==
  /\ Idle /\ freeing = "none"
  /\ timer = "running"
  /\ stack' = <<Plain("hook", 0, <<>>)>>
  /\ UNCHANGED <<omp, exports, ready, life, addr, listVars, pending, tables, history, lifeVars>>

-----------------------------------------------------------------------------
(* The server frees its components.                                        *)

\* Mutant: the timer of a Timers that is freed first is not forgotten.
ForgetsNothing(c) == UNCHANGED slots

\* omp_on_free: only Timers matters, and it is still in the list.
Forgets(c) ==
  /\ tick_timer' = (tick_timer /\ c # "timers")
  /\ tick_handler' = (tick_handler /\ c # "timers")
  /\ UNCHANGED pawn_handler

\* on_free for every component, this one included; then the plugin's hook.
OnFree(c) ==
  /\ omp /\ ready /\ Idle /\ freeing = "none"
  /\ Present(c) /\ Present("self")
  /\ freeing' = c
  /\ Forgets(c)
  /\ stack' = <<Plain("hook", 0, <<>>)>>
  /\ UNCHANGED <<omp, exports, ready, life, addr, listVars, pending, tables, history,
                 components, timer, registered, wanted, boxes, cut, uncreated>>

\* A component freed when this one is gone already.
FreeLater(c) ==
  /\ omp /\ freeing = "none"
  /\ Present(c) /\ ~Present("self")
  /\ freeing' = c
  /\ UNCHANGED <<vars, components, timer, registered, wanted, slots, boxes, cut, uncreated>>

\* tick_handler_free, which the server calls from the timer's destructor.
TimerDestroyed ==
  /\ timer' = "gone"
  /\ tickBox' = "freed"
  /\ dropped' = [dropped EXCEPT !["tick"] = @ + 1]

\* External: Timers destroys the timers it has.
FreeTimers ==
  /\ Idle /\ freeing = "timers"
  /\ components' = components \ {"timers"}
  /\ freeing' = "none"
  /\ IF timer \in {"running", "killed"} THEN TimerDestroyed ELSE UNCHANGED <<timer, tickBox, dropped>>
  /\ UNCHANGED <<vars, registered, wanted, slots, pawnBox, cut, uncreated>>

\* External: Pawn goes with its dispatcher, once its scripts are unloaded.
FreePawn ==
  /\ Idle /\ freeing = "pawn"
  /\ registered => \A s \in Script : ~InService(s)
  /\ components' = components \ {"pawn"}
  /\ freeing' = "none"
  /\ registered' = FALSE
  /\ UNCHANGED <<vars, timer, wanted, slots, boxes, cut, uncreated>>

\* External: a killed timer is destroyed by the next pass over the timers.
ReapTimer ==
  /\ timer = "killed"
  /\ TimerDestroyed
  /\ UNCHANGED <<vars, components, freeing, registered, wanted, slots, pawnBox, cut, uncreated>>

\* The timer is killed and its handler left to tick_handler_free; the other
\* handler is dropped here.
Kill ==
  /\ timer' = IF tick_timer THEN "killed" ELSE timer
  /\ UNCHANGED tickBox
  /\ dropped' = [dropped EXCEPT !["pawn"] = @ + (IF pawn_handler THEN 1 ELSE 0)]

\* Mutant: the handler of Pawn's events is dropped only where it can be
\* removed from a dispatcher.
CleanupWithPawn ==
  /\ Kill
  /\ pawn_handler' = (pawn_handler /\ ~Present("pawn"))
  /\ pawnBox' = IF pawn_handler /\ Present("pawn") THEN "freed" ELSE pawnBox
  /\ registered' = (registered /\ ~Present("pawn"))

\* omp_cleanup, the second half: out of the dispatcher if Pawn is in the list.
Cleanup ==
  /\ Kill
  /\ pawn_handler' = FALSE
  /\ pawnBox' = IF pawn_handler THEN "freed" ELSE pawnBox
  /\ registered' = (registered /\ ~(pawn_handler /\ Present("pawn")))

\* comp_free: omp_cleanup, then the plugin's on_unload.
FreeSelf ==
  /\ Idle /\ freeing = "self"
  /\ components' = components \ {"self"}
  /\ freeing' = "none"
  /\ Cleanup
  /\ tick_timer' = FALSE
  /\ tick_handler' = (tick_handler /\ ~tick_timer)
  /\ UNCHANGED <<vars, wanted, cut, uncreated>>

-----------------------------------------------------------------------------
\* Scripts come and go, and natives are called, while Pawn and this component
\* are there and the component is registered with Pawn's dispatcher.
RegistryStep ==
  /\ omp => registered /\ Present("self")
  /\ UNCHANGED lifeVars
  /\ \/ \E s \in Script, a \in Addresses : Create(s, a)
     \/ \E s \in Script : LoadNow(s) \/ LoadLater(s) \/ Unload(s) \/ Native(s)
     \/ UnloadEnds
     \/ LoadPending

PluginReturns == Return /\ UNCHANGED lifeVars
ServerReady(found) == freeing = "none" /\ Ready(found) /\ UNCHANGED lifeVars

OmpNext ==
  \/ RegistryStep \/ PluginReturns
  \/ \E found \in BOOLEAN : ServerReady(found)
  \/ \E made \in BOOLEAN : ReadyEnds(made)
  \/ PanicEndsReady
  \/ Timeout
  \/ \E c \in Components : OnFree(c) \/ FreeLater(c)
  \/ FreeTimers \/ FreePawn \/ FreeSelf \/ ReapTimer

OmpSpec == OmpInit /\ [][OmpNext]_allVars

-----------------------------------------------------------------------------
(* Properties.                                                             *)

\* What the runtime keeps a pointer to is still there: omp_cleanup never kills a
\* timer that died with Timers (interlayer.rs:471-473), and never drops a handler
\* a second time; what the server may still call, the timer's handler, to tick or
\* to free it, and the handler of Pawn's events, is not freed memory, and ticks
\* and scripts reach a plugin that has not been unloaded.
NothingDangles ==
  /\ tick_timer => timer = "running"
  /\ pawn_handler => pawnBox = "live"
  /\ timer \in {"running", "killed"} => tickBox = "live"
  /\ registered => pawnBox = "live"
  /\ timer = "running" \/ registered => Present("self")

\* Each handler is dropped once, whatever order the components go in, and when
\* they are all gone none is left: no leak and no double free.
DroppedOnce ==
  /\ \A b \in DOMAIN dropped : dropped[b] <= 1
  /\ omp /\ ready /\ components = {} => tickBox # "live" /\ pawnBox # "live"

\* A plugin that asked for ticks has its timer from the end of on_ready until
\* one of the two components goes, whatever became of the function table and of
\* the scripts; except that a panic in the on_amx_load of a script that waited
\* costs the plugin its ticks, with nobody to try again.
TickIsArmed ==
  omp /\ ready /\ wanted /\ ~cut /\ ~uncreated /\ {"self", "timers"} \subseteq components
    /\ freeing # "timers" /\ (\A d \in DOMAIN stack : stack[d].fn # "ready")
  => tick_timer /\ timer = "running"

=============================================================================
