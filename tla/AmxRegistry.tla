----------------------------- MODULE AmxRegistry -----------------------------
(***************************************************************************)
(* Which scripts the plugin knows (crates/samp/src/runtime.rs, amx.rs,     *)
(* interlayer.rs): the list behind amx::get, the scripts open.mp delivers  *)
(* before its function table exists, the event tables of each script, and  *)
(* the references into the list that natives and callbacks hold while the  *)
(* server loads and unloads other scripts underneath them.                 *)
(*                                                                         *)
(* Everything here runs on the main thread.  A script is one loading of a  *)
(* Pawn file: the server may give the address of an unloaded script to the *)
(* next one, and AmxIdent is nothing but that address.                     *)
(***************************************************************************)
EXTENDS Naturals, Sequences, SequencesExt

CONSTANTS
  Addresses,        \* where the server can put a script's AMX
  NoAddress,
  Watched,          \* the scripts that define a public some #[event] names
  Server,           \* what this server does beyond loading each script once
  FirstRoom,        \* room of a Vec's first buffer
  MaxScripts,       \* bound of the model: scripts ever loaded
  MaxEntries,       \* bound of the model: second loads stop at a list this long
  MaxCalls          \* bound of the model: nested calls on the main thread

\* "second_load" fires on_amx_load again for a loaded script, "unseen_native" is
\* a native called on a script not delivered yet, "panic" an on_amx_load that
\* panics, "unload_pending" an unload before the on_ready a script waits for.
AllServer == {"second_load", "unseen_native", "panic", "unload_pending"}

Script == 1 .. MaxScripts

ASSUME ScriptsAssumption ==
  NoAddress \notin Addresses /\ Watched \subseteq Script /\ Server \subseteq AllServer
ASSUME RoomAssumption ==
  FirstRoom \in Nat \ {0} /\ {MaxScripts, MaxEntries, MaxCalls} \subseteq Nat

VARIABLES
  omp,         \* the server is open.mp, and the plugin a component of it
  exports,     \* the AMX function table is known
  ready,       \* open.mp has called on_ready
  life,        \* the server's view of each script
  addr,        \* its AMX
  list,        \* amx_list
  room,        \* how many entries its buffer can hold
  buffer,      \* which buffer it is, counting reallocations
  pending,     \* omp_pending_amx
  tables,      \* resolved_events: how many of its tables are of each entry
  stack,       \* the calls into the plugin, innermost last
  delivered,   \* history: the scripts on_amx_load or AmxLoad named
  served,      \* history: the scripts the plugin registered its natives on
  abandoned    \* history: the scripts a panic made on_ready pass over

listVars == <<list, room, buffer>>
history == <<delivered, served, abandoned>>
vars == <<omp, exports, ready, life, addr, listVars, pending, tables, stack, history>>

\* `of` says for which script an entry was made; the code keeps only `at`.
Entry == [at : Addresses, of : Script]

\* A call into the plugin.  "native" and "load" hold an &Amx, which is an index
\* into one buffer of amx_list; "ready" is on_ready working through `todo`, and
\* "hook" the plugin's on_omp_ready at the end of it.
Frame ==
  [fn : {"native", "load", "unload", "ready", "hook"},
   script : Script \cup {0}, slot : Nat, buffer : Nat, todo : Seq(Script)]

Plain(fn, s, todo) == [fn |-> fn, script |-> s, slot |-> 0, buffer |-> 0, todo |-> todo]
Holding(fn, s, i, b) == [fn |-> fn, script |-> s, slot |-> i, buffer |-> b, todo |-> <<>>]

Top == stack[Len(stack)]
Below == SubSeq(stack, 1, Len(stack) - 1)

\* The server, the plugin's code or a script it called has control, and can
\* make the server do something.
ServerActs == stack # <<>> => Top.fn # "ready"

BeingUnloaded(s) == \E d \in DOMAIN stack : stack[d].fn = "unload" /\ stack[d].script = s

InCall(s) == \E d \in DOMAIN stack : stack[d].script = s

Positions(a) == {i \in DOMAIN list : list[i].at = a}
Known(a) == Positions(a) # {}

\* Iterator::position and Iterator::find: the first entry of an address.
First(a) == CHOOSE i \in Positions(a) : \A j \in Positions(a) : i <= j

\* After Load on SA-MP; on open.mp after on_init, which registers the event
\* handler and may already find the function table.
Init ==
  /\ omp \in BOOLEAN
  /\ exports \in BOOLEAN
  /\ ~omp => exports
  /\ ready = FALSE
  /\ life = [s \in Script |-> "unborn"]
  /\ addr = [s \in Script |-> NoAddress]
  /\ list = <<>>
  /\ room = 0
  /\ buffer = 0
  /\ pending = <<>>
  /\ tables = [t \in Entry |-> 0]
  /\ stack = <<>>
  /\ delivered = {}
  /\ served = {}
  /\ abandoned = {}

-----------------------------------------------------------------------------
(* The list: insert_amx, remove_amx, and the event tables.                 *)

\* Mutant: an entry is written without making room for it.
InsertInPlace(s) ==
  /\ list' = Append(list, [at |-> addr[s], of |-> s])
  /\ UNCHANGED <<room, buffer>>

\* Vec::push, which moves the entries to a larger buffer when this one is full.
Insert(s) ==
  /\ list' = Append(list, [at |-> addr[s], of |-> s])
  /\ IF Len(list) < room
     THEN UNCHANGED <<room, buffer>>
     ELSE room' = (IF room = 0 THEN FirstRoom ELSE 2 * room) /\ buffer' = buffer + 1

\* Vec::swap_remove: the last entry takes the place of the removed one.
SwapRemove(i) == [j \in 1 .. Len(list) - 1 |-> IF j = i THEN list[Len(list)] ELSE list[j]]

\* Mutant: the last entry of the address goes, and with it all behind it.
ListTruncated(a) == IF Known(a) THEN SubSeq(list, 1, First(a) - 1) ELSE list

ListWithout(a) == IF Known(a) THEN SwapRemove(First(a)) ELSE list

TablesWithout(a) == [t \in Entry |-> IF t.at = a THEN 0 ELSE tables[t]]

Resolved(s) == [at |-> addr[s], of |-> s]

\* Mutant: the table of an earlier load of the script stays.
TablesAlso(s) == [tables EXCEPT ![Resolved(s)] = @ + (IF s \in Watched THEN 1 ELSE 0)]

\* set_resolved_events: replaces what the address had; no table when empty.
TablesWith(s) ==
  [TablesWithout(addr[s]) EXCEPT ![Resolved(s)] = @ + (IF s \in Watched THEN 1 ELSE 0)]

\* interlayer::amx_load: insert, register the natives, resolve the events, then
\* the plugin's on_amx_load with the reference insert_amx returned.
AmxLoad(s, frames) ==
  /\ Insert(s)
  /\ served' = served \cup {s}
  /\ tables' = TablesWith(s)
  /\ stack' = Append(frames, Holding("load", s, Len(list'), buffer'))

-----------------------------------------------------------------------------
(* The server loads and unloads scripts.                                   *)

\* External: the server reads a script into memory that is free.
Create(s, a) ==
  /\ ServerActs
  /\ life[s] = "unborn"
  /\ \A r \in Script : r < s => life[r] # "unborn"
  /\ \A r \in Script : life[r] = "alive" => addr[r] # a
  /\ life' = [life EXCEPT ![s] = "alive"]
  /\ addr' = [addr EXCEPT ![s] = a]
  /\ UNCHANGED <<omp, exports, ready, listVars, pending, tables, stack, history>>

\* SA-MP's AmxLoad, and inner_amx_load once the function table is known.
LoadNow(s) ==
  /\ ServerActs /\ Len(stack) < MaxCalls
  /\ life[s] = "alive" /\ ~BeingUnloaded(s)
  /\ s \in delivered => "second_load" \in Server /\ Len(list) < MaxEntries
  /\ exports
  /\ AmxLoad(s, stack)
  /\ delivered' = delivered \cup {s}
  /\ UNCHANGED <<omp, exports, ready, life, addr, pending, abandoned>>

LoadLater(s) ==
  /\ ServerActs
  /\ life[s] = "alive" /\ ~BeingUnloaded(s)
  /\ s \in delivered => "second_load" \in Server /\ Len(pending) < MaxEntries
  /\ ~exports
  /\ pending' = Append(pending, s)
  /\ delivered' = delivered \cup {s}
  /\ UNCHANGED <<omp, exports, ready, life, addr, listVars, tables, stack, served, abandoned>>

StillPending(s) ==
  \/ s \in ToSet(pending)
  \/ \E d \in DOMAIN stack : s \in ToSet(stack[d].todo)

\* interlayer::amx_unload: the tables of the address go, then one entry; only
\* when there was one does the plugin's on_amx_unload run.
Unload(s) ==
  /\ ServerActs /\ Len(stack) < MaxCalls
  /\ life[s] = "alive"
  /\ ~InCall(s)
  /\ StillPending(s) => "unload_pending" \in Server
  /\ tables' = TablesWithout(addr[s])
  /\ list' = ListWithout(addr[s])
  /\ IF Known(addr[s])
     THEN /\ stack' = Append(stack, Plain("unload", s, <<>>))
          /\ UNCHANGED life
     ELSE /\ life' = [life EXCEPT ![s] = "dead"]
          /\ UNCHANGED stack
  /\ UNCHANGED <<omp, exports, ready, addr, room, buffer, pending, history>>

\* on_amx_unload has returned, and the server frees the script.
UnloadEnds ==
  /\ stack # <<>> /\ Top.fn = "unload"
  /\ life' = [life EXCEPT ![Top.script] = "dead"]
  /\ stack' = Below
  /\ UNCHANGED <<omp, exports, ready, addr, listVars, pending, tables, history>>

-----------------------------------------------------------------------------
(* omp_on_ready.                                                           *)

\* The function table is looked for again.  Without one the scripts go on
\* waiting; with one, they are loaded in the order they came.
Ready(found) ==
  /\ omp /\ ~ready
  /\ stack = <<>>
  /\ exports => found
  /\ ready' = TRUE
  /\ exports' = found
  /\ pending' = IF found THEN <<>> ELSE pending
  /\ stack' = <<Plain("ready", 0, IF found THEN pending ELSE <<>>)>>
  /\ UNCHANGED <<omp, life, addr, listVars, tables, history>>

\* Mutant: on_ready loads the first script that waits, and no other.
LoadPendingOnce ==
  /\ stack # <<>> /\ Top.fn = "ready" /\ Top.todo # <<>>
  /\ AmxLoad(Head(Top.todo), Append(Below, [Top EXCEPT !.todo = <<>>]))
  /\ UNCHANGED <<omp, exports, ready, life, addr, pending, delivered, abandoned>>

LoadPending ==
  /\ stack # <<>> /\ Top.fn = "ready" /\ Top.todo # <<>>
  /\ AmxLoad(Head(Top.todo), Append(Below, [Top EXCEPT !.todo = Tail(Top.todo)]))
  /\ UNCHANGED <<omp, exports, ready, life, addr, pending, delivered, abandoned>>

ReadyHook ==
  /\ stack # <<>> /\ Top.fn = "ready" /\ Top.todo = <<>>
  /\ stack' = Append(Below, Plain("hook", 0, <<>>))
  /\ UNCHANGED <<omp, exports, ready, life, addr, listVars, pending, tables, history>>

-----------------------------------------------------------------------------
(* Natives, and the end of the plugin's calls.                             *)

\* native_amx: a script the list does not know is added to it.  A script being
\* unloaded is out of the list already, and may still call natives: from a
\* public that on_amx_unload calls.
Native(s) ==
  /\ ServerActs /\ Len(stack) < MaxCalls
  /\ life[s] = "alive"
  /\ s \in served \/ "unseen_native" \in Server
  /\ IF Known(addr[s])
     THEN /\ stack' = Append(stack, Holding("native", s, First(addr[s]), buffer))
          /\ UNCHANGED listVars
     ELSE /\ Insert(s)
          /\ stack' = Append(stack, Holding("native", s, Len(list'), buffer'))
  /\ UNCHANGED <<omp, exports, ready, life, addr, pending, tables, history>>

\* A native ends, panics caught in its wrapper included, or a callback does.
Return ==
  /\ stack # <<>> /\ Top.fn \in {"native", "load", "hook"}
  /\ stack' = Below
  /\ UNCHANGED <<omp, exports, ready, life, addr, listVars, pending, tables, history>>

\* on_amx_load panics on open.mp.  Called from on_amx_load's own entry point
\* the panic ends there; called from on_ready it ends on_ready, and with it
\* the scripts still to load.
Panic ==
  /\ omp /\ "panic" \in Server
  /\ stack # <<>> /\ Top.fn = "load"
  /\ IF Below # <<>> /\ Last(Below).fn = "ready"
     THEN /\ stack' = SubSeq(stack, 1, Len(stack) - 2)
          /\ abandoned' = abandoned \cup ToSet(Last(Below).todo)
     ELSE /\ stack' = Below
          /\ UNCHANGED abandoned
  /\ UNCHANGED <<omp, exports, ready, life, addr, listVars, pending, tables, delivered, served>>

Next ==
  \/ \E s \in Script, a \in Addresses : Create(s, a)
  \/ \E s \in Script : LoadNow(s) \/ LoadLater(s) \/ Unload(s) \/ Native(s)
  \/ UnloadEnds
  \/ \E found \in BOOLEAN : Ready(found)
  \/ LoadPending \/ ReadyHook
  \/ Return \/ Panic

Spec == Init /\ [][Next]_vars

-----------------------------------------------------------------------------
(* Properties.                                                             *)

TypeOK ==
  /\ {omp, exports, ready} \subseteq BOOLEAN
  /\ life \in [Script -> {"unborn", "alive", "dead"}]
  /\ addr \in [Script -> Addresses \cup {NoAddress}]
  /\ list \in Seq(Entry) /\ Len(list) <= room
  /\ {room, buffer} \subseteq Nat
  /\ pending \in Seq(Script)
  /\ tables \in [Entry -> Nat]
  /\ stack \in Seq(Frame)
  /\ {delivered, served, abandoned} \subseteq SUBSET Script

\* The script has been loaded into the plugin and is not being unloaded.
InService(s) == life[s] = "alive" /\ s \in served /\ ~BeingUnloaded(s)

\* amx::get answers for every script in service, however many entries earlier
\* scripts at its address, second loads and early natives have left behind and
\* whichever of them the unloads have taken.
LoadedIsFound == \A s \in Script : InService(s) => Known(addr[s])

\* A script has at most one event table, made from that script and no other: a
\* second load does not make its handlers run twice (runtime.rs:543-545), and
\* no callback of a script at a reused address is dispatched by the public
\* numbers of the script that was there before.
TablesAreOwn ==
  \A s \in Script : life[s] = "alive" =>
    \A t \in Entry : t.at = addr[s] /\ tables[t] # 0 => tables[t] = 1 /\ t.of = s

\* An open.mp script delivered before the function table exists is served by
\* on_ready, unless the on_amx_load of one before it panicked: a delivered
\* script is served, or is waiting for an on_ready that will come or is at work.
NoScriptForgotten ==
  \A s \in Script : s \in delivered /\ life[s] = "alive" =>
    \/ s \in served
    \/ s \in abandoned
    \/ s \in ToSet(pending) /\ ~exports
    \/ \E d \in DOMAIN stack : stack[d].fn = "ready" /\ s \in ToSet(stack[d].todo)

\* "Returns None if the AMX has already been unloaded by the server"
\* (amx.rs:13): no entry is left of a script that is gone.
UnloadedIsGone == \A i \in DOMAIN list : life[list[i].of] # "dead"

\* A job for a script is skipped "if the script was unloaded before it ran"
\* (mainthread.rs:206): the identity of a script that is gone finds nothing.
IdentNamesOneScript ==
  \A s \in Script : life[s] = "dead" /\ s \in served /\ Known(addr[s]) =>
    list[First(addr[s])].of = s

\* "amx is the script that called this native" (docs/amx-types.md:13), for as
\* long as the native runs: its reference reads the buffer the list lives in,
\* and in it the entry of its script.
RefStaysOnScript ==
  \A d \in DOMAIN stack : stack[d].fn = "native" =>
    /\ stack[d].buffer = buffer
    /\ stack[d].slot \in DOMAIN list => list[stack[d].slot].at = addr[stack[d].script]

=============================================================================
