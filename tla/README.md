# rust-samp in TLA+

A verification development for the run-time part of rust-samp: the SDK that lets
a Rust library be a SA-MP plugin and an open.mp component. It models what the
SDK does between the server's calls and the plugin's code, checks it with TLC on
small instances, and proves what holds for every size with TLAPS. Paths below
are relative to the repository; line numbers are given as `file:line`.

- [The system](#the-system)
- [Modules, and how they correspond to the code](#modules-and-how-they-correspond-to-the-code)
- [Runs: what is checked, within which bounds](#runs-what-is-checked-within-which-bounds)
- [Fairness](#fairness)
- [What is proved](#what-is-proved)
- [Where the code and its documentation part](#where-the-code-and-its-documentation-part)
- [What is not modelled](#what-is-not-modelled)
- [Plan](#plan)

## The system

The server is single-threaded where plugins are concerned: it calls the SDK's
exports (SA-MP) or virtual functions (open.mp) on one thread, the main one. The
plugin may start threads of its own. So there are two sources of interleaving:
worker threads against the main one (two queues meet there: jobs and log lines),
and re-entrancy on the main thread, where the server calls the SDK, the SDK the
plugin, the plugin a Pawn script, the script a native of the plugin, and so on
to any depth.

| component | state it keeps | operations | talks to | what is hard | what makes it correct |
|---|---|---|---|---|---|
| main-thread queue, `mainthread.rs` | jobs under a mutex, their count outside it, warning flag, budget | `post`, `post_with`, `post_with_amx`, `set_budget`, `run_pending`, `pending` | called by any thread; drained by the tick; jobs go through the plugin borrow and the script registry | a count read without the lock; drains inside drains; panics in a job; a deadline; posts while a batch is out | every job runs once, in order, and none stalls |
| plugin borrow, `plugin.rs` | `PLUGIN_BORROWED`, `NATIVE_DEPTH` | `with_instance`, `NativeFrame::enter`/`drop` | jobs, native wrappers | nesting in any order, unwinding | at most one `&mut` to the plugin among those the flags cover |
| tick, `interlayer.rs` | none | `tick` | queue, server log, `on_tick` | order of the three; re-entry | what a finished job did is seen by `on_tick` |
| server log backlog, `logger.rs` | bounded backlog under a mutex, waiting flag and drop counter outside it | `to_server`, `report_to_server`, `flush_server_backlog` | every thread's log calls; tick, load, unload | the flag and the counter are not updated with the mutex that guards the lines | causal order, no duplicate, no lost line without a notice |
| script registry, `runtime.rs`, `amx.rs`, `interlayer.rs` | `amx_list`, `omp_pending_amx`, `resolved_events` | `amx_load`, `amx_unload`, `native_amx`, `amx::get`, `omp_on_ready` | server, natives, `post_with_amx`, events | addresses reused by the server; scripts seen early, late or twice; references into a vector that moves | a script in service is found; one that is gone is not |
| open.mp life cycle, `interlayer.rs`, `runtime.rs` | tick timer and handler, event handler, component pointers | `omp_on_ready`, `omp_on_free`, teardown | server components that are freed in the server's order | two owners of one handler; a panic half way | each object released once |
| event interception, `events.rs` | resolved tables, dispatch guard, suppression, detour | `amx_exec_detour`, `dispatch`, `on_amx_load` | the VM, plugin handlers | a handler that runs the callback it handles | each handler once per event, arguments gone exactly once |
| calls into Pawn, `samp-sdk/src/amx.rs`, `call.rs`, `macros.rs` | the script's stack, heap and `paramcount` | `push`, `exec`, `Allocator`, `release_scope` | the VM | partial failure, nesting | heap and stack back where they were |
| strings and arrays, `samp-sdk/src/cell/` | the script's memory; a string's length, its text once decoded | `from_raw`, `into_sized_buffer`, `to_bytes`, `deref`, `write_str` | the script, natives below it | two encodings, lengths from the script, decoding that is put off | the text is the one passed; nothing outside the array is touched |
| VM debugging, `samp-sdk/src/debug/` | the tables of a debug block | `parse`, `lookup_*`, `line_to_address`, `function_address`, `walk`, `read_cell` | the debugger, a script stopped in a hook | a count that overflows, files in pieces, stacks with several entries | what the debugger shows is where the script is |
| log file and rotation, `logger.rs` | open file, its size, next archive index; the files on the disk, which outlive the process | `log`'s write, `rotate`, `rotate_shift`, `compress_archive`, `reopen_active`, `find_next_archive_index` | the file system | every step can fail, and the process can end after each | nothing is lost where nothing may be deleted, and the oldest goes first where it may; an index tells the age, within one form always |
| logger set-up, `logger.rs` | installed logger, level, sentinel | `install`, `set_level`, `flush` | all threads | published piece by piece | no line through half a logger |
| panic guard, `panic_guard.rs` | none | `catch`, `dispose` | every entry point | payloads whose drop panics | nothing unwinds into the server |
| Pawn include, `pawn_include.rs`, `samp-codegen/src/pawn_decl.rs` | none | `native_decl`, `Template::render`, `parse`, `compare_with` | the author, who edits crate and include | text that says more on one side than on the other | the check reports the drift, all of it and only it |
| encodings and cell conversions; open.mp interfaces; macros; xtask | none, or the server's | conversions, parsing, code generation | | boundaries | what goes out is what went in |

`PROJECT.json` lists the components with the files they live in, and, under
`hazards`, each place where this goes wrong in a way a test would hardly reach.

## Modules, and how they correspond to the code

    JobQueue        what the job queue promises
       ^ refines
    MainThread      queue + plugin borrow + tick + the main thread's call stack
       ^ EXTENDS
    MainThread_proofs
    ServerLog       the backlog of lines for the server's log
       ^ EXTENDS: ServerLog_proofs
    AmxRegistry     the scripts the plugin knows
       ^ EXTENDS
    OmpLifecycle    the same, in a component of open.mp: timer, handlers, teardown
       ^ EXTENDS: OmpLifecycle_proofs (theorems on both)
    LogFile         the plugin's own log file and its archives
       ^ EXTENDS: LogFile_proofs, MCLogFile (an instance for TLC)
    ScriptMemory    heap, stack, strings and arrays of a script
       ^ EXTENDS: ScriptMemory_proofs, MCScriptMemory (an instance for TLC)
    VmDebug         debug tables and the walk of a stack
       ^ EXTENDS: VmDebug_proofs, MCVmDebug (an instance for TLC)
    PawnInclude     the include derived from the natives, and the check of one
       ^ EXTENDS: PawnInclude_proofs, MCPawnInclude (an instance for TLC)
    EventDispatch   callbacks seen from Rust, and calls into Pawn
       ^ EXTENDS                 ^ EXTENDS
    EventMarks_proofs         MCEventDispatch (an instance for TLC)

### MainThread

`jobs`, `len` and the mutex (`holder`) are `Queue`; `budgeted` says that
`BUDGET_NANOS` is not 0; `borrowed` and `depth` are `PLUGIN_BORROWED` and
`NATIVE_DEPTH`; `loaded` is the answer of `amx::get` for the script the
`post_with_amx` jobs name. `stack` is the main thread's call stack: one frame per
tick, drain, `with_instance` closure and native. A `run_pending` frame holds what
the function holds in its locals, the rest of its batch and whether it has a
deadline.

`post` is three actions, because two of its effects are visible separately: the
append (`PostAppend`, under the mutex), the store of the count and the release
(`PostStore`), and the warning afterwards (`PostWarn`). A thread inside the mutex
blocks `Take`, `PutBack` and other posts, as the `Mutex` does. `run_pending` is
`TakeNothing` (the fast path, which does not lock) or `Take`, then `StartJob` and
the end of the job for each, then `PutBack` or `DrainReturns`. `take` and
`put_back` are one action each: nothing outside the mutex can tell their two
writes apart, since the only reader of the count without the lock is the main
thread itself (and `pending()`, which decides nothing). The clock is a free
choice: with a deadline set, the loop goes on or stops after any job
(`AfterJob`).

The closures of `post_with` and `post_with_amx` are followed call by call:
`JobWithoutScript`, `JobBorrows`, `JobRefused`, `JobReplies`, `JobEnds`. The
plugin's own code does anything `PluginCalls` allows, wherever it has control: it
posts, drains, borrows, panics, sets the budget, or calls a script, which may
call natives (`Native`) or have scripts loaded and unloaded (`Script`). `Panic`
unwinds to the nearest `catch`, running the `Drop`s on its way.

Abstracted: which closure a job is (its kind is kept), what it computes, the
text of the warnings. `on_tick` itself borrows the plugin without marking it, as
natives without `self` do not borrow at all. Jobs are numbered by the order of
their appends. `posted`, `started`, `fate` and a drain's `upto` are history.

### JobQueue

A FIFO queue: `Post` appends, `Run` starts the head, `Run` is fair.
`MainThread!Abstract` maps its queue to what has been posted and not started:
the rest of the tick's batch, then the jobs queued.

### ServerLog

A line is a number. `queue_for_server` is `Log` (the test of the thread and of
the server's log, `WayIn`), `Enqueue` under the mutex, and `Mark`, which stores
the flag and leaves it. `flush_server_backlog` is `SkipFlush` or `TakeBacklog`
(flag and lines under the mutex), then `WriteLine` for each and `Notice`, the
swap of the counter, which the code does outside the mutex; other threads run
between any two of these. It is entered from a line the main thread logs, and
from `Load`, `Tick` and `Unload`. `Fits` is the limit, which failure reports
pass. After `Unload` the workers may still log; the main thread is gone.

### AmxRegistry

Everything is on the main thread; the hard part is what the server does
underneath a call. A script is one loading of a Pawn file, and `addr` its AMX:
`Create` may give a dead script's address to a new one, and `AmxIdent` is the
address. `list` is `amx_list`; each entry carries, as history, the script it was
made for. `room` and `buffer` follow the vector's capacity and reallocations,
which is what a reference into it depends on. `LoadNow` and `LoadLater` are
`AmxLoad`/`inner_amx_load`; `Unload` and `UnloadEnds` are `amx_unload` around
the plugin's hook; `Ready`, `LoadPending` and `ReadyHook` are `omp_on_ready`;
`Native` is `native_amx`. `tables` is `resolved_events`, reduced to how many tables
there are of each entry: which of two tables of one address comes first would
matter only where `TablesAreOwn` fails. `Init` is the state after `Load` (SA-MP) or after `on_init` (open.mp).

What servers do in unusual orders is chosen by the constant `Server`, so that
each run says which of it is assumed.

### OmpLifecycle

Extends `AmxRegistry` with the components of an open.mp server and what the SDK
hands them: `components` are those the server still has and `freeing` the one
being freed, `registered` says whether Pawn calls back; these are the server's.
`timer` is its repeating timer; `tick_timer`, `tick_handler` and `pawn_handler` are
the slots of the SDK, `tickBox` and `pawnBox` the two heap objects behind the raw
pointers, each with how often it was dropped. `CreateTimer` is the end of
`omp_on_ready`, after the pending scripts of `AmxRegistry`; `PanicEndsReady` is a
panic in one of their hooks, which `comp_on_ready` catches. `OnFree` is
`omp_on_free` for each component the server announces, `FreeTimers`, `FreePawn` and
`FreeSelf` what happens when each is destroyed, in any order; `FreeSelf` is
`comp_free` with `Cleanup`. A timer that is killed hands its handler back later
(`ReapTimer`, `TimerDestroyed`), which is where an object could be dropped twice or
not at all.

### LogFile

One line at a time, as the mutex of the file's state allows, in the steps that
the file system can tell apart: `CreateDirectory`, `DropOldest` and `Shift` for
each archive (`rotate_shift`), `Archive`, `CreateGz`, `CopyGz` and `UnlinkPlain`
(`compress_archive`), `Reopen`, `Write`. `at` is the step. `plain` and `gz` are the
directory, a file being the lines in it; they outlive the process, `state` does
not. Each operation named in `Fails` may fail, and `Restart` ends the process
between any two steps; `Install` then finds the next index in the directory, under
settings that may have changed (`Configure`, `FromEnv`). A line is a number with a
length; `missed`, `holed`, `styles` and `written` are history. `read_dir` is taken
to work at install (`logger.rs:1229`): where it fails, indices start over and archives
are replaced. `holed` is set when a shift could not rename an archive or was cut short
by the end of the process.

### ScriptMemory

The data segment of one script between `hea` and `stk`, and who uses it: natives
that hold open `Allocator`s (`OpenScope`, `Release`) with strings and arrays in
them, publics they call, natives those call. `stack` has a frame for each; memory is
one cell per address. Strings are written packed or bare by the script and unpacked
by the SDK; a native receives one by its address, takes the length when it parses
the argument and the text when it looks (`ToBytes`), after whatever ran in between.
The pushes of a call and the call are one step here (`EventDispatch` has them one by
one). Dropping an outer `Allocator` before an inner one is excluded: it takes an
explicit `drop` out of order.

### VmDebug

`lines` is what `read_line_table` made of the tables the compiler appended, whose
count wraps; the queries are operators on it (`LookupLine`, `LookupFile`,
`LookupFunction`, `LineToAddress`, `FunctionAddress`). The compiler and the machine
are external: they make the frames (`Enter`, `Call`, `Retn`, `Exec` for a public
entered from a native) that `Walk` and `ReadCell` then read out of memory.
`IsSource` says what a script is: functions of at least a line each, lines numbered
from 1, calls of functions that exist.

### PawnInclude

`natives` is the Rust side, `source` the include, pieces by hand and placeholders;
every action is an edit by the author. The functions are operators on them, named as
in the code: `native_decl` derives a declaration, `render` fills a template,
`compare_with` reads both back and compares. Text is a sequence of tokens: a name is
never part of another word, and blanks do not exist. The reference, `Drift` and
`Causes`, is stated on declarations and placeholders and reads no text; what `Causes`
lists is what can be wrong with the placeholders, not all that can be wrong with the
include. The loops of
the parser are recursive functions of what is left of the text (`parse_declarations`,
one turn of which is `Turn`), of comments (`without_comments`, `Skip`), of a list
(`split_arguments`, `Split`) and of the template (`render`, `RenderPiece`).

A placeholder goes from `{{` to the next `}}`, whoever wrote that one. `AsRead` gives
the pieces of a template as `render` finds them: one without a `}}` of its own
("UNCLOSED", and "UNCLOSED NATIVE" where it begins with `NATIVE:`) takes in the text
up to the end of the next closed placeholder (`ReadPiece`), which becomes part of its
name, or of the alias it has (`Closed`); only where none follows is it the error
`UnclosedPlaceholder`. What is placed after it is read as usual.

### EventDispatch

One script on one thread, and the calls of its publics in progress, one inside
the other (`calls`, a stack). What makes the component hard is what those calls
share: the script's stack (`used`, the cells in use), its count of pushed
arguments (`paramcount`), and the marks of `enter_dispatch` (`dispatching`).

A call goes through `at`: "push" while its caller pushes arguments (`Begin`,
`Push`, and `PushFails`, which is `call_public` returning an error and
`release_scope` in the `Allocator`'s drop), then the detour. `Dispatch` is
`dispatch()` as far as its first handler: the handlers resolved for the script,
the mark, the arguments read off the stack (`Readable` is the refusal of
`read_stack_params`). `StartHandler`, `HandlerContinues`, `DispatchEnds` and
`HandlerSuppresses` are its loop, `DispatchPanics` the `catch` around it;
`Unmarked` is `ActiveGuard`'s drop and `Consumed` is `consume_arguments`.
`PassThrough` is every way out of `dispatch()` before a handler. `Load` and
`Unload` are `on_amx_load` with `install_exec_hook`, whose two steps can fail
differently, and `on_amx_unload`.

The VM is external: `Push`, `RunPublic` and `PublicReturns` do to the stack and
the count what the documentation of `consume_arguments` says amx_Push and
amx_Exec do. Left out: the heap, what a running public itself keeps on the stack
(amx_Exec takes it away again), which values are passed, and other scripts, whose
stacks and marks are their own. `argc`, `ran`, `seen`, `read` and `got` are
history.

## Runs: what is checked, within which bounds

| run | configuration | shows |
|---|---|---|
| `mainthread_tick` | one worker, 3 jobs, plain and `post_with_amx`, drained by the tick only; the plugin posts, borrows, panics, changes the budget, scripts come and go | types; a job posted while a drain runs waits for the next tick; the queue implements `JobQueue`; every job settles |
| `mainthread_nested` | one worker, 3 jobs of three kinds, call depth 4; drains from jobs, natives and `with_instance` | the count mirrors the queue; every job in exactly one place, started at most once; the flags match the stack; the plugin is lent once |
| `server_log` | two workers and the main thread, limit 1, 3 lines or reports | causal order, no duplicates, exact drop accounting, nothing waiting unmarked, unload flushes; every line settles and drops are announced |
| `amx_registry` | `OmpLifecycle`: three scripts, two addresses, call depth 2, second loads, early natives, panics; components freed in any order | scripts in service are found; event tables are the script's own; no script waiting for `on_ready` is forgotten; timer and handlers dropped once and never dangling; the tick is armed |
| `amx_moved` | three scripts, a native under way | violation of `RefStaysOnScript` |
| `event_dispatch` | publics with 2, 1 and no handlers, 0 or 2 arguments, call depth 3; suppression, panics, failed first pushes, second loads | marks match dispatches; handlers once and in order; everyone is given the arguments pushed for them; a call over leaves stack and count as they were |
| `event_nested` | as above, a handler of an event with arguments calls a public | violation of `ArgumentsIntact` |
| `log_file` | five short or long lines, two restarts, either style of rotation, compressed or not, every operation failing | an index tells the age, among archives of one form with any failure, between plain and `.gz` unless a shift was cut short; append-style loses nothing; shift-style gives up only the oldest; no line is lost unreported |
| `log_retention` | as above, a reopen fails | violation of `MostRecentStay` |
| `script_memory` | natives and publics to depth 4, two scopes, two blocks each, eight cells | strings passed stay whole; scopes give everything back; strings received are the ones passed |
| `vm_debug` | five scripts: recursive, small, with a file that continues after another, with one included twice; counts wrap at four | tables read back whole; the walk is the chain of calls; breakpoints land in the file asked for |
| `pawn_include` | two natives, three edits to them or to an include, empty or kept by hand | the check finds the drift and nothing else; a template is refused for each thing wrong with its placeholders and nothing else |

Configurations that are not runs of their own, each told in a
sentence under the divergences below or here:

| configuration | module | TLC says |
|---|---|---|
| `AmxRegistry.cfg` | `AmxRegistry` | no error: the registry without components, loads repeated three times |
| `LogFileTypes.cfg`, `ScriptMemoryTypes.cfg` | `MCLogFile`, `MCScriptMemory` | no error: the type invariants |
| `MainThreadOrder.cfg`, `MainThreadLost.cfg` | `MainThread` | violation of `StartedInPostingOrder`, of `NoJobThrownAway` |
| `AmxStale.cfg`, `AmxIdentReused.cfg` | `AmxRegistry` | violation of `UnloadedIsGone`, of `IdentNamesOneScript` |
| `EventDispatchPush.cfg` | `MCEventDispatch` | violation of `BalancedAtRest` |
| `VmDebugCallSite.cfg` | `MCVmDebug` | violation of `CallSiteLine` |
| `LogFileMixed.cfg` | `MCLogFile` | violation of `MixedStaysInOrder` |
| `PawnIncludeSizes.cfg` | `MCPawnInclude` | violation of `FindingsAreTheDrift` |
| `PawnIncludeOpen.cfg`, `PawnIncludeTwice.cfg` | `MCPawnInclude` | violation of `OpenIsRefused`, of `NoneTwice` |

Why the bounds are enough:

- Three jobs give a batch with one job running, one left and one posted
  meanwhile: the smallest case in which putting back, overtaking and losing a
  job differ. One worker with the main thread already gives two contenders for
  the mutex; the threads that only post do not tell each other apart.
- Depth 4 holds a native that runs a drain that runs a job that borrows, or two
  drains nested with a job in each.
- `Limit = 1` with three lines makes the backlog full, a drop race a flush, and a
  report pass the limit; two workers let one be inside the mutex while another
  has just been dropped.
- Two addresses and three scripts make an address reused while another script
  stays; `FirstRoom = 4` is the first capacity of a `Vec` of entries of this size
  and is not exceeded by three scripts, so a reference goes wrong in `amx_moved`
  by the `swap_remove` alone. `MaxEntries` only limits how often a server repeats
  a load: two entries in `amx_registry`, where the components are there as well.
- Depth 3 of calls is a callback whose handler causes a second one whose handler
  or native causes a third, the first of them once more included. Two handlers
  are the fewest with an order, and with one left when the first suppresses; two
  arguments the fewest with a call that has been pushed half. Eight cells are
  more than three calls push, so that a full stack is not what a run is about.
- `event_dispatch` keeps away from the two divergences below, one a run
  (`event_nested`), one a configuration of its own (`EventDispatchPush.cfg`), by
  two constants: handlers call publics only in events without
  arguments (`HandlerCalls = {0}`), and a push sequence fails at its first
  argument or not at all (`FailsAfter = {0}`). `MarksMatchDispatches` and
  `HandlersOnceInOrder` do not need this; the theorems have them for all values.
- Five lines, of which a file takes two short ones or one long one, fill `keep + 1`
  files with `keep` at most 2, so that an archive is deleted; two restarts put
  changed settings between two rotations.
- Eight cells between heap limit and stack hold two strings with their terminators
  and not a third, so that allocations are refused; depth 4 is a native, the public
  it calls, a native under that, and a public again.
- A count that wraps at four (`Half = 2`) does for tables of 3, 6 and 10 lines what
  16 bits do for 32768 and more; `MAX_DEPTH = 2` cuts the walk of a script three
  functions deep.
- Three edits are a native written out under an alias, its declaration changed, and
  the Rust side changed after it; starting from an include kept by hand saves the
  first two. Three pieces are an open placeholder, what it swallows and the one that
  closes it. `SizeEndsList` keeps away from the divergence below: a size expression
  stands last in its list.

Deadlock is checked in the queue's runs: with the tick always possible, a state
without a successor would be two threads waiting on each other. `ServerLog` stops
for good once the plugin is unloaded and all lines are logged, and `AmxRegistry`
once the bounded number of scripts is dead, so those configurations do not check
it. The others stop where a bound does: lines, depth of calls, edits; a debugged
script also where the machine refuses a stack that is full.

Every property of a passing run has a mutant in `PROJECT.json`: a definition as a
likely bug would leave it, under which TLC finds the property violated. The
mutated operators stand next to the definitions they replace.

## Fairness

`MainThread!Fairness`: threads inside `post` finish it, since they hold a mutex
for a few instructions; the drain's own steps and the tick's follow from the
code; the server calls the tick again and again (strong fairness, because the
tick is not enabled while the main thread is in another call); and each call of
the plugin's own code returns, level by level. The last is an assumption about
the plugin, and the one the code documents: the server is frozen by a job that
does not return. Nothing is assumed of what plugins or scripts choose to do, and
nothing of the clock beyond the documented "at least one runs per drain", which
the loop guarantees by running the job before it looks.

`ServerLog!Fairness`: threads inside the logger get on, the plugin is loaded, the
server ticks. Nobody has to log, and nothing says that the server unloads; the
two liveness properties end at an unload, after which no tick comes.

The other modules state safety only: what they do ends with the call they are in,
or is up to the server, the file system or the author.

## What is proved

Eight modules hold theorems, for every value of the constants their assumptions
allow: any threads, jobs, lines, scripts, addresses, publics, handlers, archives,
settings and failures, any depth of nesting, any behaviour of plugin, scripts and
server that the models have. Where a theorem needs more than the declared
assumptions it says so in its ASSUME, and below. What these theorems say of the
bounds is that they do not matter: `MaxJobs` and the like are arbitrary numbers.

`MainThread_proofs`:

- `TypeCorrect`: `SafeSpec => []TypeOK`. Type correctness is not inductive as it
  stands: a panic inside a `with_instance` closure unwinds two frames, the closure
  and its caller. The strengthening `TypeInv` adds `LentToSomeone`, that a
  `with_instance` frame always has a caller below it, so that `Panic` names a frame
  that exists.
- `CountCorrect`: `SafeSpec => []CountMirrorsQueue`. Inductive together with
  `TypeInv` (`CountInv`): the mutex has one holder, exactly the threads between
  append and store are inside, and with nobody inside the count is the length.
  This is what makes the unlocked fast path of the drain sound.
- `FlagsCorrect`: `SafeSpec => []FlagsMatchStack`, and `LentOnce`:
  `SafeSpec => []LendsOnce`. That the count is positive when a native is on the
  stack does not survive the return of one of two natives, so `LendInv` counts:
  the depth is the number of `native_self` frames, the flag says whether there is
  a `with_instance` frame, and nothing below such a frame has borrowed (`Agree`).

and in its second half, on the places of jobs:

- `OnePlace`: `SafeSpec => []ExactlyOnePlace`, and `OnceStarted`:
  `SafeSpec => []StartedOnce`. Neither is inductive: a take turns the whole queue
  into a batch, so a job queued twice would become a job batched twice and then
  started twice. The invariant `PlacesInv` adds to `TypeInv` that the queue, each
  batch and the list of started jobs are free of repetition and that no two of
  them share a job (`Held`, stated on plain sequences of numbers so that the
  lemmas `HeldPost`, `HeldTake`, `HeldStart` and `HeldPutBack` say what each
  movement of jobs preserves), and that only a drain past its take holds a batch
  (`OnlyDrains`). The second is what makes leaving a native or a closure, and a
  panic that unwinds one, lose nothing.
- `PostedJobsWait`: `SafeSpec => []PostedWhileDrainingWaits`. `WaitsInv` adds to
  `PlacesInv`, frame by frame, that a drain's job and the rest of its batch were
  posted before its take (`TakenBefore`).
- `QueueImplemented`: `SafeSpec => Abstract!SafeSpec`, and `OrderKeptByTicks`:
  `SafeSpec => []StartedInPostingOrder`, both for plugins that do not call
  `run_pending` (`"run_pending" \notin PluginCalls`); with such calls jobs overtake
  each other, as `MainThreadOrder.cfg` shows. Then only the tick drains, one drain at
  a time (`DrainsInTicks`), and the jobs started and those in `Backlog`, its batch and
  the queue behind it, are the numbers 1, 2, ... in turn (`TickInv`). Each action is
  mapped to a step of `JobQueue` or to a stutter: `PostAppend` is `Post`, `StartJob`
  is `Run`, and a take, a put-back, a panic in a job or a spent budget change nothing
  in the mapped queue.

`EventMarks_proofs`:

- `EventTypes`: `Spec => []TypeOK`, `MarksCorrect`: `Spec =>
  []MarksMatchDispatches`, and `HandlersCorrect`: `Spec =>
  []HandlersOnceInOrder`, from one invariant, `EventInv`. That the type of the
  marks survives `leave_dispatch` needs the mark it takes out to be there, so
  types and marks go together; what a call has run is right because the script's
  table is empty or the registered handlers (`Table`), a call that pushes has run
  none, and in a dispatch what ran and what is left are together the registered
  handlers (`Progress`). The lemmas say what one action does to the stack of calls
  (`CallPushed`, `CallSet`, `CallOver`) and to the marks (`MarkAdded`,
  `MarkDropped`; `TakenOut` is about removal from any sequence without repetition).
- `ArgumentsArrive`: `Spec => []ArgumentsIntact`, and `CallsLeaveNoTrace`: `Spec =>
  CallLeavesNoTrace`, under the assumptions of the run `event_dispatch`: a push
  sequence fails at its first argument or not at all, handlers call publics only in
  events without arguments, and the stack has room for the arguments of every call
  (`Room(m)`: `MaxDepth` calls of at most `m`). Without the first two the properties
  are false (`EventDispatchPush.cfg`, `event_nested`); a stack without room makes
  pushes fail half way, which is the first again. `ArgsInv` says how the calls lie on
  the stack: each begins where the arguments of the one below end, the innermost is
  what `used` and `paramcount` count, and a call with another above it is in its
  script or in a handler of an event without arguments.

`ServerLog_proofs`, for any number of workers and lines and any limit of the backlog:

- `CausesComeFirst`: `SafeSpec => []CauseBeforeEffect`, `LinesWrittenOnce`:
  `SafeSpec => []WrittenOnce`, `DropsCountedOnce`: `SafeSpec => []DropsAccountedFor`,
  `NothingIsOverlooked`: `SafeSpec => []NothingWaitsUnmarked`, `UnloadFlushesAll`:
  `SafeSpec => []UnloadLeavesNothing`, and `TypeCorrect`, from one invariant, `IInv`.
  A line is in one place (`OnePlace`) and has one as soon as its call has returned
  (`LinesNumbered`); causes of a line in the backlog are dropped, written, in the
  batch or ahead of it (`CausesFirst`), and what the flush under way owes its caller
  is dropped, written or in its batch (`Owed`). The flag is down only when the
  backlog holds nothing but the line of the thread inside the mutex (`FlagUp`): that
  is why a main thread that skips the flush overtakes nobody, and it is the place
  where the order "store the flag, then leave the mutex" is needed.

`OmpLifecycle_proofs`, for `AmxRegistry` as it stands (`Spec`) and inside an open.mp
component (`OmpSpec`):

- `ServiceFindsScript`: `LoadedIsFound`, `WaitersAreServed`: `NoScriptForgotten`, and
  `RegistryTypeCorrect`: `TypeOK`, from `RegistryInv`. An unload removes the first
  entry of its address, whoever that was made for; what saves the others is that no
  two live scripts share an address (`Apart`) and that a script that was served or
  delivered has been created (`Reached`), so the entry that an unload takes is never
  one that another script in service is found by.
- `OneTableEach`: `TablesAreOwn`, where the server does not unload scripts that wait
  for `on_ready` (`"unload_pending" \notin Server`; otherwise `on_ready` makes a
  table for a script that is gone). Tables belong to live scripts not being unloaded
  (`Tabled`), and so do places in the pending queue (`WaitersLive`).
- `PointersHold`: `OmpSpec => []NothingDangles`, `HandlersDroppedOnce`: `OmpSpec =>
  []DroppedOnce`, and `TicksAreArmed`: `OmpSpec => []TickIsArmed`, from `LifeInv`:
  who owns the timer and its handler, between `kill` and the call that hands the
  handler back (`TimerOwned`), who owns the handler of Pawn's events
  (`HandlerOwned`), and that before `on_ready` ends there is nothing to free
  (`BeforeTimer`).

`LogFile_proofs`, for any settings, line lengths, number of archives, failures and
restarts:

- `ArchivesAreInOrder`: `Spec => []ArchivesInOrder`, `LossesAreReported`:
  `Spec => []LossIsReported`, `AppendKeepsEverything`: `Spec => AppendLosesNothing`,
  and `LogTypeCorrect`, from `LogInv`. Indices are bounded by the lines logged and in
  append style every archive is below the next index (`Numbered`), which is why a
  rename never replaces one; lines are older in archives than in the active file
  (`Ages`). That is the order within one form. Between the forms it needs that nothing
  was left behind: `Crossed` says that without a shift cut short plain archives and `.gz`
  are in one order, older along the indices where archives are shifted (`Crossing`) and
  newer where they are appended (`Climbing`), and is proved of each step beside `LogInv`; a `.gz` is emptied, and a plain archive removed, only where the other
  form is complete (`Underway`).
- `NewestAreKept`: `Spec => NewestKept`, if no line is longer than a file may become
  (`Fits`). As long as no shift was cut short, the archives are a row without gaps but
  for the place a shift is about to fill (`Contiguous`, `Vacant`), older along the row
  in either form (`Crossed`), and what is archived is not empty (`Active`): together
  with `LogInv` that is `KeptInv`. `Fits` is needed: `rotate` does not ask whether
  there is anything in the file (`logger.rs:973`), so a line longer than the limit,
  when the one before it could not be written, archives an empty file, and an archive
  with lines is deleted in its favour. TLC finds this once lines have 3 bytes and
  the limit is 2.
- The module's first lemmas make up for two things TLAPS has no means for. `SizeOf` is
  a recursive function: that it has values, and numbers, is proved by constructing its
  partial sums (`SumsExist`, `SumsAgree`, `SumsSolve`). Induction is used in the form of
  `EveryNumber`, about sets, which follows from the library's `WFMin`; the library's
  own induction theorems take an operator and cannot be used here.

`ScriptMemory_proofs`, for memory of any size, any strings and arrays, any addresses
the script passes, any number of scopes and blocks and any depth of calls:

- `ScopesGiveBack`: `Spec => []NothingLeaks`, `BlocksAreWhole`: `Spec =>
  []BlocksKeepText`, and `StringsArrive`: `Spec => []TextIsTheString`, from `IInv`.
  What a scope or a call will set the top of the heap back to is a mark; the blocks
  of everything that was open before it end below it (`Under`), so neither a
  `release_scope` nor the end of a public cuts a block that stays, and every block
  ends below the top (`Placed`), so a new one is apart from them all (`Apart`).
  `Bottom` says what the first two frames know of the registers at the start: the
  callback's scopes rise from the empty heap, and the public it calls keeps what it
  found. `Whole` and `Passes` are about memory: a block, and a string not yet read,
  has its cells as they were unless something was written over it. `CellsApart` is
  the one place where addresses are divided; `StringIsText` shows that the part of
  a string that `from_raw` takes, up to its length and no further, is enough for
  `to_bytes` to end where Pawn does, packed or not.
- The invariant relates a stack `q`, a top of the heap `h`, one of the stack `k` and
  a memory `m`; the lemmas are about those, so that one step can be taken in two
  (`AllotString` writes first and then adds its block: `Written`, `BlockAdded`).

`VmDebug_proofs`, for scripts of any number of functions, lines and files, tables of
any length, any sizes of stack and heap, any depth of calls, publics entered by
natives among them, and any bound of the walk:

- `LinesAreReadBack`: `Spec => []LinesReadBack`, and `BreakpointsLand`: `Spec =>
  []BreakpointLands`, from `TablesInv`: the script is a compiled one and `lines` is what
  `read_line_table` makes of it, neither of which a step changes. What remains is about
  data: `FlattenedAscends` and `LineTableIs` say where the lines of each function end
  up and that addresses ascend, `TableIsRead` that the loop over blocks stops at the
  end of the table and not before (the count is what is left of the length modulo
  `2 * Half`, so whole blocks away from it), `Covered` which entry of the file table
  is the function's (`Covers`), `LineFound` that the first line far enough down is
  looked for in the entry's own part of the code.
- `WalksAreCallChains`: `Spec => []WalkIsCallChain`, from `StackInv`: the registers are
  where the number of calls puts them (`RegistersAre`), each call has its frame in
  memory, with the FRM and the return address it was entered with (`FrameIs`), and
  what it will set the registers back to is what its caller has (`KeepsIs`). A call
  with a return address was made by the line its caller still stands at, not by a
  native (`ReturnIs`): without it nothing says that an address found in a frame is in
  the function that waits there. The loop is solved by `Walked`, which says what it
  has seen after any number of steps (`WalkedStep`, `WalkIs`).
- The loops and `CodeStart` are recursive functions, so that they have values at all
  is proved too (`StepsExist`, `LoopExists`), with inductions about sets (`EveryNumber`,
  `UpTo`).

`PawnInclude_proofs`, for any names, natives, argument lists, callbacks, hand-written
pieces, placeholders and edits, where a size expression is the last thing in its list
(`SizeEndsList`; otherwise the first property is false, see `PawnIncludeSizes.cfg`):

- `FindingsHold`: `SizeEndsList => (Spec => []FindingsAreTheDrift)`, and `RefusalsHold`:
  `SizeEndsList => (Spec => []RefusedForCause)`, from `TypesHold`: `Spec => []IInv`. The
  invariant is small: natives, include and template are of their types, no two natives
  have a name in common, sizes end lists (`TypeOK`, `SizesOK`). What is hard is that it
  implies the properties, since these are about what parsing makes of text.
- `Says(text, ds, fs)` is the statement all else goes through: read behind and in front
  of anything else, `text` declares `ds` and forwards `fs`. It is composed: the comments
  that `without_comments` goes through as steps of a machine (`Runs`, `Cleans`), the turns
  of the loop over keywords (`Declares`), texts behind each other (`SaysBoth`,
  `FlattenSays`). A list is split where it was joined (`JoinIsSplit`), what is read of
  an argument is its shape whatever default follows (`Shape`), and so a line that is
  written is read as the declaration it was written from (`LineSays`); the `)` that
  `sizeof` closes ends the list early, which is why the size has to be last (`Closing`).
- `NativeSays`, `AliasSays` and `RawIs` are about what `#[native]` derives, `alias_line`
  makes of it and a raw native leaves; `HandSays` about a piece by hand. `RegisteredIs`
  says what the check knows of the plugin.
- A template is read into pieces first: what is read, what is open and the text
  gathered since then are of their kinds after every piece (`PiecesRead`, `WellRead`),
  so `AsRead` gives lines by hand, closed placeholders and at most one open one at the
  end (`ReadIs`). What an open alias swallowed is not a name, and nothing is said of the
  template then: `RefusedForCause` and the lemmas below suppose `Legible`, that the
  pieces fit their types and no alias of a known native runs on (`AliasRunsOn`);
  `FindingsAreTheDrift` has it from `Causes = {}`.
- The pieces are then gone through one by one (`Good`, `GoodNext`): the text so far says what
  its pieces declare, and what is placed, emitted and wrong is what the pieces so far
  make it (`PlacedBy`, `EmittedBy`, `ErrorsOf`); `RenderedIs` is the end of that and
  `CausesAre` compares it with the reference. `CompareIs` and `DriftIs` bring both sides
  of the comparison to the same three kinds of finding.

The proofs use the assumptions the modules declare (in `MainThread`,
`ThreadsAssumption`: the main thread is no worker and `NoThread` is no thread;
`KindsAssumption`; `BoundsAssumption`: the bounds are naturals; in `ServerLog` the
same of its threads; in `AmxRegistry`, `ScriptsAssumption` and `RoomAssumption`; in
`EventDispatch`, `HandlersAssumption`: each public has a number of handlers; in
`LogFile`, `LogFileAssumption`; in `ScriptMemory`, `ScriptMemoryAssumption`: the
addresses of heap and stack are those of cells; in `VmDebug`, `VmDebugAssumption`: the
same, and `IsSource` of every script; in `PawnInclude`, `PawnIncludeAssumption`: names
are not keywords or punctuation, the callbacks are finitely many, and the crate before
the first edit compiles), which TLC evaluates in every run.
All are laid out the same way: one lemma that the initial states satisfy the
invariant, one that each action preserves it (a step per action), and a temporal
step that combines them.

Only model-checked:

- liveness (`MainThread`, `ServerLog`) and the fairness part of the refinement of
  `JobQueue`: outside what TLAPS does;
- `MostRecentStay`, which holds only as a violation (`log_retention`), and the other
  properties that a run or configuration shows to fail;
- the type invariant of `ScriptMemory` (`ScriptMemoryTypes.cfg`), of which the proofs
  need only a part (`Shape`).

## Where the code and its documentation part

Three runs end in a violation, `amx_moved`, `event_nested` and `log_retention`, and
so do the configurations named with the others, each of something the repository
says of itself.

1. `MainThreadOrder.cfg`: jobs run "in the order they were posted"
   (`mainthread.rs:118`, `docs/threads.md:139`), and draining from plugin code is
   offered (`mainthread.rs:40`). A job that drains runs what was posted meanwhile
   before the rest of its own batch: the tick takes 1 and 2, a worker posts 3,
   job 1 drains, 3 starts before 2.
2. `MainThreadLost.cfg`: "the job runs once" (`mainthread.rs:118`). A native that
   takes `&mut self` and drains, which `docs/threads.md:117` suggests, has
   `with_instance` refuse every `post_with` job, and the refusal consumes the job.
3. `AmxStale.cfg`: `amx::get` "returns `None` if the AMX has already been unloaded"
   (`amx.rs:13`). A public called from `on_amx_unload` may call a native of the
   plugin; `native_amx` finds the script unknown, since it has just been removed,
   and adds it again. Nothing removes it afterwards.
4. `AmxIdentReused.cfg`: a `post_with_amx` job "is skipped, quietly, if the script
   was unloaded before it ran" (`mainthread.rs:207`). The identity is an address;
   a script loaded later at that address receives the reply.
5. `amx_moved`: a native's `amx` "is the script that called this native"
   (`docs/amx-types.md:13`). It points into `amx_list`; when the native's own
   calls make the server unload a script, `swap_remove` puts another one there.
6. `event_nested`: a handler "may suppress the gamemode's public, otherwise it runs
   unchanged" (`events.rs:222`), and with `exec_public!` in a handler "different
   callbacks still nest normally" (`docs/events.md:137`). The arguments of the
   callback are still counted while its handlers run, so a public called from one
   is given them besides its own, and amx_Exec takes all of them: the callback's
   public then runs without arguments.
7. `EventDispatchPush.cfg`: a failed push sequence is put back "so the VM stack stays balanced"
   (`samp-sdk/src/amx.rs:973`). `release_scope` restores the stack pointer but not
   the count; the next call takes the forgotten arguments off a stack that no longer
   has them.
8. `log_retention`: "The most recent `N` archives stay on disk" (`logger.rs:177`).
   Only a reopen that works resets the size (`logger.rs:1137`), so after one that
   fails each line rotates again, without an active file: the archives move up, the
   last is deleted, and nothing takes the first place.
9. `VmDebugCallSite.cfg`: a frame's caller is where "the call" is
   (`docs/vm-debugging.md:260`, `debug/stack.rs:37`). The return address is the
   instruction after the call; where the call ends its line, the line looked up for
   it is the next one.
10. `PawnIncludeSizes.cfg`: size expressions "are not divergences"
   (`pawn_include.rs:24-30`). A list ends at the first `)` (`pawn_include.rs:284`),
   which is the one of `sizeof(dest)`: arguments or varargs after it are not read, so
   an include that adds a size before another argument is reported for its arity,
   and where both sides have the size, a difference after it is missed.

11. `LogFileMixed.cfg`: "a mixed archive directory ... stays consistent"
    (`logger.rs:1101`), plain and compressed archives being "handled in lockstep"
    (`logger.rs:1099`), and `.1` is the most recent (`logger.rs:477`). With
    `rotation_keep(2)` a `.1.gz` that cannot be renamed or written again (it is held
    open) stays; the plain `.1` beside it is newer, and `.2` is, once that is shifted.
    `ArchivesInOrder` therefore orders plain archives against `.gz` only as long as no
    shift was cut short.
12. `PawnIncludeOpen.cfg`: a `{{` "with no `}}` after it" is an error
    (`pawn_include.rs:1203`), and of a `{{NATIVE:Get as X` without its `}}` one would
    expect it. The `}}` looked for is the next in the text (`pawn_include.rs:1400`), so
    with `{{VERSION}}` and `{{NATIVES}}` behind it the alias is all up to `VERSION`,
    and the template renders, without an error, to a line that is no Pawn. Open
    placeholders of other names are refused, as `UnknownPlaceholder` or `UnknownNative`.
13. `PawnIncludeTwice.cfg`: "Pawn rejects the second as a symbol that is already defined"
    (`pawn_include.rs:1205`), which is why a native placed twice is an error. Only what
    placeholders emit is compared (`pawn_include.rs:1412`): a `native Get(...);` by hand
    beside `{{NATIVES}}` declares `Get` twice and renders without an error.

Smaller ones, met while modelling and not run:

- Changing from append-style to `rotation_keep(N)` makes the first rotation delete
  the archive `.N`, which under append-style was a recent one, the newest if there
  are N.
- After a failed reopen, lines that fit the recorded size never try another.
- A line longer than the rotation's limit rotates even an empty active file
  (`logger.rs:973`), and with `rotation_keep` an archive is deleted for the empty one.
- With `ROTATION_KEEP` set, `ROTATION_MB=0` rotates, by the default size, where
  `docs/logging.md:337` says that 0 disables rotation.
- A table of lines whose count modulo 65536 is below 32768 again, 65536 lines and
  more, is cut: the test for an overflow looks for a negative count.
- A breakpoint for `lib/a.pwn` may land in an entry named `a.pwn` of another
  directory: names match by their last components.
- `read_cell` at the last three bytes below `stp` reads past it; addresses in
  `ScriptMemory` and `VmDebug` are those of whole cells.
- "Do not use multiple nested `Allocator`s" (`samp-sdk/src/amx.rs:882`), while
  `exec_public!` nests them. `script_memory` shows that nesting is sound as long as
  the inner one is dropped first.
- `{{NATIVES}}` is "every declaration not placed individually"
  (`pawn_include.rs:1257`), but takes those placed after it as well, and the template
  is refused for placing them twice.
- `alias_line` replaces the first occurrence of the name in the line, which for a
  native called `at` or `Float` is not the name.

## What is not modelled

- Publication of the logger: `install` sets level, sentinel and the `log` crate's own
  static one by one, and a sink that logs locks the state's mutex again. Both need
  the statics of the `log` crate; levels, formats and the banner are text.
- Encodings, conversions of single cells (`CellConvert`, `Ref`, `iter_as`), argument
  parsing: one value in, one out.
- Of the debugger: the layout of the header, tags and dimensions, `symbols_in_scope`,
  the disassembler, and the trampoline of the hook, which is assembly.
- Of the include: declarations given as `#[native(args = "...")]`, whose text takes the
  place of the derived one (`pawn_decl.rs:168`), `pawndoc`, the guard, the placeholders for text, the variables of
  the environment, reading and writing the files.
- The borrows of the plugin that the tick, hooks and event handlers take without
  marking them, and the function table an `Amx` captures (both under `hazards`).
- Code generation (`samp-codegen`) other than `native_decl`, `xtask`, examples and
  fuzz targets: they run at compile time or beside the program. What generated
  wrappers do at run time is modelled where it has an effect (native frames,
  `catch`).
- open.mp interfaces (`omp/*`): ABI layouts over the server's state, much of it
  generated. These are most of the repository's lines.
- Construction of runtime and plugin: happens once, before anything else runs.
- Memory orderings weaker than the ones the mutex and acquire/release pairs give:
  every shared variable modelled here is either guarded by the mutex or read by
  the thread that wrote it last, except `len` and the waiting flag, whose
  acquire/release pairs make a stale read equivalent to reading earlier.

## Plan

Done: `JobQueue`, `MainThread`, `ServerLog`, `AmxRegistry`, `OmpLifecycle`,
`EventDispatch`, `LogFile`, `ScriptMemory`, `VmDebug`, `PawnInclude`, and theorems on
all of them; the step simulation of `JobQueue` among them. Every safety property of a
passing run is stated by a theorem.

Next modules, if any: the function table in the entries of `AmxRegistry`; the
unmarked borrows beside the flags of `MainThread`; the heap of `Allocator` in
`EventDispatch`, whose abstract specification would be that every call of a public
runs its handlers once and then, unless suppressed, the script, with the stack
restored.
