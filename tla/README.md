# Verification of web-lua

TLA+ specifications of the parts of web-lua that hold state across calls,
model-checked with TLC, with safety theorems proved by TLAPS. All paths are
relative to the root of the repository.

## The system

web-lua runs Lua cells of a notebook in the browser. A stackless Lua VM
(`crates/piccolo`) is driven by a notebook session (`crates/web-lua-core`) in
slices paid for with fuel. Lua calls to the browser are asynchronous: a Rust
callback records a command in the state it shares with the session and yields;
the session returns `AsyncPending` with the command; the host executes it and
resumes the session with the answer.

| component | state | operations | properties that make it correct |
|---|---|---|---|
| Piccolo executor and threads (`piccolo/src/thread/`, `fuel.rs`, `stdlib/coroutine.rs`) | a stack of threads, each with a stack of frames and of values | `step`, `take_result`, `resume`, `resume_err`, `stop`, `restart`, the Lua functions of `coroutine` | the discipline of frames the comments of `Frame` state; only the thread on top runs; no panic and no `BadThreadMode` reachable from Lua; an error reaches the innermost sequence; fuel bounds a step |
| Piccolo compiler (`piccolo/src/compiler/`) | the function under compilation: registers, locals, blocks, labels, pending jumps | one method per construct | no value shares a register, no captured variable is overwritten, no jump enters a scope, no assertion fails |
| Piccolo tables and standard library (`piccolo/src/table/`, `stdlib/`) | an array part and a hash part | get, set, length, next, insert, remove | the two parts are one map; a traversal visits every key once; `#t` is a border |
| Notebook session (`web-lua-core/src/session.rs`, `state.rs`, `types.rs`) | Lua state, executor, `HostState`, counters, cancel flag | `run_cell`, `resume_cell`, `cancel`, `reset`, `set_fuel_limit`, `restore_pending_command` | an answer resumes the call it answers; no command handed over twice; nothing of a cell leaks into the next |
| Strict mode, host globals, async APIs (`globals.rs`, `web/*.rs`) | declared globals, command counter | one callback per API function | every documented call becomes the command with the arguments given |
| Async loop (`web-lua-base/src/session.rs`) | the pending result | run, answer, resume until Done | every command is answered once |
| WebSession (`web-lua/src`) | `BaseSession`, abort flag | `runCellAsync`, `stopWith`, `reset`, one execution per action | every command is carried out as documented; the session after a stop is clean |
| Extension relay (`extension-lua/src/session.rs`, `js/worker.ts`, `js/index.ts`) | pending relays, pending calls, timers | `runCell`, `reset`, `stop`, relay, relay result, timeout, `stopWith` | every call is settled exactly once; a late answer resolves nothing else |
| Extension runner (`js/runner.ts`, `tool-registry.ts`, `schemas.ts`, content scripts), aliases (`src/aliases.rs`) | tool table, active tab, content scripts of tabs | one handler per action, `sendMessageToTab` with its retries | no stage drops or refuses an argument; an action is done once, and as it is answered |
| Files (`web-fs`) | the tree of the origin-private file system | read, write, append, copy, rename, ... | an operation does what `fs.*` documents; one that fails loses no data |
| Web UI (`web/src`) | cells, kernel, autosave timer | run, save, load | the last edit is saved |
| dom-semantic-tree | `data-ref-id` of the elements | snapshot | a handle names the element it was listed with |
| crypto plugin, collector glue | none of their own | hash; roots and finalizers | those of their libraries |

What is hard to test: the interleavings of `cancel`, `reset` and late answers
with a cell that waits; fuel that runs out at any instruction, also at the
very last one or at the one that asked the host; coroutines that yield to the
host below the main thread, or that outlive the executor that ran them; a
one-pass compiler that learns of a capture after it emitted the jump; keys
that move between the parts of a table under a traversal; timeouts racing
answers in the worker; a call that passes seven stages in one host and two in
the other; non-atomic file operations shared by tabs; messages to tabs that
navigate. `PROJECT.json` lists each at its line.

## Modules

| module | what it is |
|---|---|
| `NotebookSession` | the session, with the executor abstracted to what the session observes of it |
| `MCNotebookSession` | its constants for TLC |
| `NotebookSessionProofs` | its inductive invariant and theorems |
| `ExecutorContract` | what the executor promises its driver: an abstract specification |
| `PiccoloExecutor` | threads, frames and `Executor::step`; it implements `ExecutorContract` |
| `MCPiccoloExecutor` | its symmetry for TLC |
| `PiccoloExecutorProofs` | its inductive invariant, its theorems and the refinement of the contract |
| `RequestService` | what the proxy of an extension session promises its caller: an abstract specification |
| `ExtensionRelay` | proxy, worker, relays and timers of the extension; it implements `RequestService` |
| `MCExtensionRelay` | its symmetry for TLC |
| `ExtensionRelayProofs` | its inductive invariant and theorems |
| `RegisterAllocator` | the register allocator of the compiler, pure operators |
| `RegisterClient` | what the compiler may ask of it, in any order |
| `LuaScopes` | blocks, loops, jumps, labels and captures of one function: the walk of the compiler, then the run of what it emitted |
| `CompilerProofs` | the inductive invariants and theorems of `RegisterClient` and of the walk of `LuaScopes` |
| `UpvalueProofs` | those of the code `LuaScopes` runs, on top of `CompilerProofs` |
| `TableContract` | what Lua relies on in a table: an abstract specification |
| `LuaTable` | the table with its two parts; it implements `TableContract` |
| `LuaTableProofs` | its invariants, its theorems and the refinement of the contract |
| `MCLanguage` | registers, scopes and a table side by side, for TLC |
| `HostValues` | the values that travel from a Lua call to the code that carries it out |
| `LuaApi` | the documented functions, their parameters and the commands they build |
| `HostTools` | the parameter types of both hosts, and what each action takes from them |
| `ExtensionRunner` | what the runner does with params besides: positions, chrome, the legacy switch |
| `HostCall` | one call of a function through every stage of both hosts |
| `OpfsFiles` | the file system: an operation is a list of calls of OPFS, among several sessions |
| `OpfsFilesProofs` | its inductive invariants and theorems |
| `PageActions` | numbers of page elements, snapshots, actions, the message to the tab |
| `AutoSave` | the notebook of the page, its timer and its copy in IndexedDB |
| `PageProofs` | the inductive invariants and theorems of `PageActions` and of `AutoSave` |
| `MCHost` | calls, files, pages and the notebook side by side, for TLC |

### NotebookSession

The variables carry the names of the fields: `executor` is the
`Option<StashedExecutor>` together with the mode of the executor (`"None"`,
`"Normal"`, `"Suspended"`, `"Stopped"`, and `ExecutorMode::Result` split by the
kind of the result it holds), `pending_async_command`, `async_call_counter`,
`fuel_exhausted` and `cell_errors` are those of `HostState`. `depth` is the
number of coroutines above the main thread, as a host call made inside one
yields to its resumer and not to the session. `fuel`, `pc` and `done` are the
locals of the call in progress. `epoch`, `yielder`, `handed`, `cut` and
`givenBack` are history variables: no guard reads them.

One action stands for one operation of the host from its entry to
`Executor::step`, one for each kind of iteration of `step`, and one for each way
the call returns. A host resumes only after `AsyncPending`
(`run_cell_async_loop`), and may interleave `cancel`, `reset`,
`set_fuel_limit`, `run_cell` and `restore_pending_command` before it does.

A panic of `resume_cell` (`resume_err(..).unwrap()`) is the terminal `pc` value
`"panicked"`: the run time aborts there.

### ExecutorContract and PiccoloExecutor

`PiccoloExecutor` has one action for one iteration of the loop of
`Executor::step`, by the kind of frame on top of the top thread and by what the
callback, the sequence or the Lua code does. Which code runs is unknown, so
every outcome of `CallbackReturn`, `SequencePoll` and `run_vm` may occur at any
time: return, call, tail call, yield, yield to a thread, resume, error. Callbacks
and sequences share their actions (`Host...`): both hand over the values from a
place on the stack and both may keep a `Sequence` frame to come back to. The
delivery of a finished coroutine's result at the head of the loop is an action of
its own; the iteration goes on with the thread that got it, so the fuel is not
looked at in between.

A thread is its frames, the height of its value stack and its open upvalues.
Values are not distinguished, and those a running callback, sequence or Lua frame
may rearrange freely are not counted; where they begin is. Fuel is a choice after
every iteration (`NotebookSession` counts it). `handed` in a `Sequence` frame is
history: the place from which the sequence handed over its arguments.
`abandoned` is history too: the unfinished threads of replaced executors.

The model relies on the compiler for two things: a called function lies in a
register above every captured one, and instructions agree with `is_variable` on
whether the stack is variable (otherwise `return_upper` fails after it has
popped its frame).

`ExecutorContract` says what is left of this for the host: the mode, the kind of
result, the number of coroutines above the main thread, and what `step` returned.
`PiccoloExecutor` implements it under the mapping `abstractExecutor`,
`abstractDepth`; `NotebookSession` is shown to stay within it, so the two
modules compose over the contract.

### RequestService and ExtensionRelay

`ExtensionRelay` has the page and the worker as two event loops that exchange
messages over two queues. `pendingCalls`, `disposed` and `worker` are the fields
of the proxy, `outcome` the promises it returned, `executing` the commands
`executeMainThreadCommand` works on. `pendingRelays` is the map of the worker,
`timers` the relays whose `setTimeout` has not fired; `cell` says where
`runCellAsync` is for each call, `awaits` which relay it waits for. One action
is one task of an event loop (a message, a timer, a call of the user) or one poll
of `runCellAsync`. The worker takes no task while a cell is `"ready"`, for the
promise a task resolved runs its reactions first.

What the cell does when polled is open: end, relay a command, work on files, or
trap (`NotebookSession` shows how; the promise then never settles). A cancelled
session issues nothing (`CancelledSessionOnlyFails` of
`NotebookSession`). After a reset the
code ends the cell, the model also lets it go on.

wasm-bindgen keeps an object borrowed while an async method is in flight on it,
and other methods then throw; the worker calls `cancel`, `reset` and, in every
relay, `getRelayTimeoutMs` at such times, some in a `try`. As that library is not
in the repository, `Overlap` says whether such a call runs or throws, and the
safety and liveness runs allow both at every call. If `getRelayTimeoutMs` throws,
the command is posted, the cell gets an error, and an entry without a timer stays
in the map until it is answered (`NoRelayLeaked` speaks of cells that did wait).

Lengths of timeouts are left out: timers fire at any time, and the wait of
`stopWith` ends at any time. So are the answers without an id, which the proxy
ignores, and the state before `ready`, in which `init` has not returned a
session.

`RequestService` says what a caller sees of the proxy: a promise settles once,
`stopWith` closes the service, and a closed service accepts nothing and settles
what is pending.

### RegisterAllocator, RegisterClient and LuaScopes

The allocator is a record with the fields of `RegisterAllocator`; the byte in
which a register index is counted is `Registers`, and the end of a run wraps at
it as in the optimised build. `RegisterClient` asks for anything at any time and
keeps in `held` what it was given. The last register is left alone: a push that
ends at it wraps (`register_allocator.rs:86`) and marks nothing, which the model
does too, and only a function that needs all 256 registers gets there.

`LuaScopes` compiles a function that is chosen as it goes: while `phase` is
`"compile"`, each action is one step of the walk over the next statement, and `f`
is `CompilerFunction`; then the same variables run the code. A test goes either
way. A body ends in a return or not, the function's own included; one that does
is not a block of its own (`Body`). Expressions are left out but for the temporary
register they take; a closure is the local it captures. The function
may have parameters (counted by `MaxLocals`): its first locals, below every block,
which no block ends and `Finish` drops. `Features` opens constructs that reach known
faults: with `"goto leaves for"` the run `scopes_goto_panics`; `"return ends
while"` and `"goto back"` are off in every run (see Known mismatches).

### TableContract and LuaTable

Keys are integers, which may live in either part, and objects, which the
collector knows and whose removed entries stay in their bucket. Where an entry
lands and by how much the vector grows is open. The numbers of the
implementation are scaled: `UsizeBits` for the width of `usize`, `MaxInteger` for
`i64::MAX`. The contract is a map with borders and traversals; the mapping is
`Get`. Assigning a new key, and the shifts, end a traversal in both.

### HostValues, LuaApi, HostTools, ExtensionRunner and HostCall

A value is its kind, its entries and the set of the caller's arguments it carries;
what a string says plays no role. A function is called with one kind for every
argument, as its documentation allows. `HostCall` takes one call through the
callback, the alias, the normalisation, the schema, the tool, the content script,
chrome or the legacy switch, one action per stage, in both hosts, after any
sequence of `reset` and `stopWith`. `taken` is what arrives at the end, by role.
The tables of `LuaApi` and `HostTools` have one line per function or tool of the
sources. `Dropped`, `CallbackRaises` and `ToolRefuses` name the calls for which
the code does not do what the properties ask; each is a known mismatch.

### OpfsFiles

An operation is the list of the calls it makes of OPFS. Between two of them
another session may make its own, any call may fail, and the tab may end. `getFile`
and the `arrayBuffer` of its result are one call: the file is a snapshot, and the
second reads it as it was or fails. A
stream writes to a copy until it is closed; one that is dropped keeps the file
locked until the browser collects it. `before` and `alone` are history: the tree
when the operation began, and whether another session changed it since.

### PageActions

Elements are numbers in document order, `number` their `data-ref-id`. The web host
acts on its own document; in the extension the snapshot is a script in the tab and
an action is a message with up to four retries after an injection, while the
manifest injects the same script, the page changes and the user navigates.
`listed` is history: the last snapshot the caller got, whose handles it uses.

### AutoSave

A notebook is the number of the edit that made it. Rendering and effects, which
belong to preact, are steps of their own, so that the timer, a save before unload
and a late load fall between them. IndexedDB takes the requests of a page in
order. A page may go away at any time, with or without `beforeunload`.

## Runs

| run | shows |
|---|---|
| `session_safety` | types; the answer to a command of the main thread of this cell resumes the call that issued it; a command left pending comes from a cell cut short or from the host; no command is handed over twice; a cancelled session only fails; fuel exhaustion is only reported of the call it happened in; the session stays within `ExecutorContract`; every call leaves `Executor::step` |
| `executor_frames` | the frames of a thread keep the order and the marks that the panics of the executor take for granted; bottoms, stack height and open upvalues agree; a sequence finds its results, or its error, where it handed over |
| `executor_threads` | the threads below the top wait and no thread is lost; a result or an error reaches the thread that waits for it; `PiccoloExecutor` implements `ExecutorContract` |
| `resume_not_suspended` | violation: a host call inside a coroutine makes the session hand over a command while the main thread runs to its end; the resume that follows finds no suspended executor, and an error answer panics |
| `stale_command` | violation: the command of a cell cut by fuel is handed to the host by the next cell |
| `relay_safety` | no call is lost or answered twice; a waiting cell is in reach of its answer and of a timer; a relay in the map is unanswered, its command in exactly one place; nobody waits in a cancelled session; a cell that stops to wait leaves no relay in the map |
| `relay_settles` | the promise of every call settles; `ExtensionRelay` implements `RequestService` |
| `language` | registers: marked is held, the top is tight, what is handed out is fresh. Functions: no captured variable is overwritten, no jump enters a scope, no assertion of the compiler fails. Tables: `LuaTable` implements `TableContract`, `#t` is a border, nothing panics and a traversal is never lost |
| `scopes_goto_panics` | violation: a goto from a numeric or generic `for` to a label after it makes the compiler panic |
| `host` | calls: every argument reaches the code that carries the call out, no stage refuses a documented call, the extension lacks nothing the web host has. Files: an operation that no other session disturbed does what `fs.*` documents, or fails and touches no file that was there; a move never loses the bytes. Pages: an action is done at most once, and as its answer says. Notebook: the last edit is stored or on its way |
| `sleep_refused` | violation: the extension refuses every `web.sleep`, `web.fetch` and `web.fetch_dom` (`js/schemas.ts:87` wants a bigint, JSON has none) |
| `stale_handle` | violation: `web-lua/src/session.rs:254` says handles are scoped to a snapshot; a click by the handle of the last snapshot hits an element numbered by an earlier one |

Bounds. Two cells, two async calls and one reset are the least with which a
command can survive its cell and its session; one coroutine above the main
thread is the least that separates the two ways a host call can yield; fuel for
three iterations lets a cell make a host call in a coroutine and return, and
still runs out at each of these points in some behaviour. `CHECK_DEADLOCK FALSE`:
the bounds on cells and calls, and a panic, stop the model.

Three frames and two threads are enough for an error to unwind a Lua frame and
reach a sequence below it, and for every pair of frame kinds to meet; three
threads are the least in which a coroutine yields to another one while the main
thread waits for either. Threads are interchangeable, hence the symmetry. A
thread nothing refers to is collected, so the executor may be replaced forever
and neither run stops.

Two commands are the least with which a late answer meets a cell that waits for
another relay; three calls let two cells overlap and a third call (a reset, a
failing runCell) interfere. `MaxQueue` bounds what the user posts; the runner's
answers are not bounded by it. The runs may stop: the calls are finite.

`language` puts three models side by side; a behaviour is of one, so the state
spaces add. Twelve registers and runs of one to three leave holes of every shape
under a top. Two constructs, two locals (the parameters among them), a jump, a
closure and a label, with five statements in all, are the least in which a jump
leaves a loop in a block whose local is captured behind it; no body that ends in a
return lies in another such (`MaxReturns`). Five integer keys and two objects, an
array part of up to four and up to three buckets let a key move from one part to
the other under a traversal that stands on a removed one; `MaxInteger` 4 is met by the search for
a border.

`host` adds four. Every function of `LuaApi` is called with every choice of kinds.
Two sessions with two requests and one fault among them: each step of each
operation meets each step of another, a failure or the end of the tab. Two elements, one of which
is a control, and two documents: a message meets a retry, an injection by either
side and a navigation. Four edits are enough for an edit to meet a save, a timer
and a load of the edits before. Keys, documents and requests are finite: the runs
stop.

Fairness. `StepTerminates` of `session_safety` assumes weak fairness of the steps inside a call only:
a call is synchronous code of one thread and nothing preempts it. Nothing is
assumed of the host. `relay_settles` assumes that event loops deliver messages
and fire timers, that a ready cell is polled, that file operations end and that
the wait of `stopWith` does; not that the runner answers. Cells issue finitely
many commands, as `Commands` is finite.

## Proofs

`NotebookSessionProofs` proves the type invariant and the safety properties
of `session_safety` for all fuel limits, slices and bounds, from the assumption
`ConstantsAssumption` (the limits are integers, the bounds naturals, `NoCommand`
is no command). None of the properties is inductive alone. `IInv` adds:

- `CommandsReached`: every command known anywhere bears a `call_id` its epoch
  has reached, so the next one is new, and the pending command is not in the
  hands of the host;
- `MainCallYielded`: within a call a pending command of this cell and of the
  main thread has left the executor in the yield of that very command;
- `PendingAccounted`: within a call a pending command comes from a cut cell, from
  the host or from this cell;
- `FuelFlag`: the fuel flag is down while a call runs and while a command is
  with the host, and `step` returns false only without fuel.

Each conjunct has a lemma with one step per action; `IInvStep` puts them
together.

`SessionUsesContract` proves that every step of the session is a step of
`ExecutorContract` or leaves the executor alone, from the type invariant.

`PiccoloExecutorProofs` proves for any set of threads and values and all bounds
the five invariants of the two executor runs (`FrameDiscipline`,
`ValueDiscipline`, `SequenceStack`, `ThreadChain`, `NoLostThread`), the action
property `ResultGoesToResumer`, and that `PiccoloExecutor` implements
`ExecutorContract` (`ExecutorImplementsContract`, the refinement that
`NotebookSession` builds on). The invariant does not list stacks of frames; it says
of a thread

- that the frames below the top are at rest (`AtRest`): each waits for results, which
  lie exactly where the frame above it begins, and every open upvalue belongs to a Lua
  frame and lies below the frame above that;
- that its top frame is in one of eight situations (`WellFormed`): a callback or
  sequence has the control, Lua code runs, the thread is to start, has yielded,
  waits, has a result, an error unwinds, or nothing is left.

`AtRestPush` and `AtRestPop` say how the first part grows and shrinks, and one lemma for
each outcome of a frame leads from a situation to a situation. The properties follow from
the situations. Independently of the frames, the stack of threads is a chain: each
thread but the top waits for the one above (`ChainByPosition`), and a thread that
runs or waits is on it or was abandoned with its executor.

`ExtensionRelayProofs` proves for any calls and commands, and for both readings
of `Overlap`, the types, `WaitingCellCanWake`, `NobodyWaitsCancelled`, and the
safety part of the refinement of `RequestService` (`RelayImplementsService`).
`IInv` adds `PendingInMap`, that the map of pending calls holds exactly the
promises that are pending, so that a reply settles a pending one, and
`TerminatedDisposed`, that a terminated worker is that of a disposed session, so
that nothing is posted to it. `NobodyWaitsCancelled` needs `WaitingCellCanWake`:
stop rejects the relays of the map, and so wakes everybody only if everybody
waits for one of them.

The properties that count messages (`CallInOnePlace`, `UnansweredInOnePlace`,
`NoRelayLeaked`) rest on a second invariant. `CallsPlaced`: requests under way, the
cell in the worker and replies under way of a call sum to one while it is pending,
and there is no second reply. `CommandsPlaced`: the same for the command of a relay
that is not settled. Both are the cardinality of a set of positions;
how it changes with one message at either end of a queue is proved once, for every queue.

`CompilerProofs` begins with the allocator. For any number of registers `MarkedIsHeld`,
`TopIsTight` and `HandsOutFresh` hold, from `RoomLeft` (no push reaches the
last register). The invariant `AllocatorInv` adds that `first_free` is the lowest
free register, which makes `allocate` fresh, and that the recorded size covers
every top. That the loop of `allocate` and that of `free` end where they should is
proved from the well-foundedness of the naturals.

The rest of `CompilerProofs` proves `CompilerNeverPanics` of `LuaScopes`: no assertion of the
compiler fails and no break is refused, for any number of registers, any labels and any
source text (`CompilerSound`). A construct is compiled in two halves with any text in
between, so the invariant says what every open construct still needs. `Regular` is about
the function alone: the registers below the top are the marked ones, locals lie in rising registers,
blocks have rising bottoms, jump targets and pending jumps point at a block and a height that exist, and
an instruction that a pending jump will patch is a placeholder. `Laid(g, o, at, n)` ties it to the n
constructs of the walk: each holds one to three blocks, one behind the other; the three registers
of state of a loop lie under its blocks, and every marked register is a local or
such a state; the labels the compiler makes up are all different, and a
pending jump to one of them belongs to the construct that will place it, at the height
at which it will. Then each end of a construct finds its jumps resolvable and gives back
what its beginning took (`ConstructCloses`, `ConstructOpens`, `ElseOpens`, `ElseIfOpens`), and each statement
keeps what the constructs around it need.

The same invariant proves `NoJumpIntoScope` (`JumpsStayOutOfScopes`): no jump of the code that runs
leads into the scope of a local it did not start in, its first instruction included, as in
`goto a; local x; ::a::`. The compiler does not know scopes, only register
tops, so `Scoped`, the last part of `Regular`, says what the tops stand for: a local whose register
lies below the top of a waiting jump was declared before that jump, a local above the top of a
target was declared after it, and no target that can still be jumped to lies in a scope that has ended. A
scope begins behind all that was placed so far, for the instruction emitted before a declaration is the write of
the variable, or the step of the loop, and no jump (`Behind`). When a
jump meets its label at equal tops (`jump_target`), it can then enter no scope, and no scope that begins
later reaches back to it.

`UpvalueProofs` proves `UpvalueNotOverwritten` (`UpvaluesStayIntact`), about the code when it runs: no
instruction writes a register that holds an open upvalue. The code is emitted before anyone knows what the
rest of a block will capture; a block owns an upvalue or not, a jump that waits closes or
not, and all else is left to the order of things. Three invariants on top of `CompilerInv` show
that this is enough:

- `Guards` is about the walk. `Guarded(g, b)`, its first part, says of the code emitted so far, the scopes that
  have ended and the locals still there: no instruction in the scope of a local writes its
  register; a closure captures a local in scope, and the innermost block that holds the local is
  marked; a jump that waits and has left the scope of a captured local is marked;
  control leaves a scope that has ended only through an instruction that closes the upvalue or to one that
  does. A jump back, as of `repeat`, may leave locals that are still there: those from register b
  on, which the end of their block drops. The other parts (`Fenced`) say that the code does
  not end in a test, which would skip the closing instruction (`Settled`), that a `for` loop's
  first jump waits for its test in the scope of no local but those below (`LoopsWait`), and that labels are
  placed once, so that a break and a jump to the end of a construct go forward (`Labelled`). Each
  construct keeps this at its start and its end
  (`ConstructFences`, `ElseFences`, `ElseIfFences`, `ConstructFenced`).
- `Sealed` is what is left of it at the end of the chunk (`ChunkSeals`): no jump waits, no
  local is left, and control stays in the code.
- `Running` is about the run: an open upvalue is that of a captured local in whose scope the
  next instruction is, or the next instruction is the one that closes it. `ExecuteRuns` goes
  from each to the next, and `RunningIntact` is the conclusion.

It has `ForwardGotos` as a third hypothesis, no goto to a label already placed: the jump back
closes by the blocks that own an upvalue when it is emitted, and a capture that comes later comes
too late (see Known mismatches). The jumps back of loops are not concerned: the block whose
locals they leave ends right after them.

All theorems about `LuaScopes` have these two:

- `RoomForNext`, no statement may reach the last register: the code does not check for it
  (`register_allocator.rs:86`, see Known mismatches). `BoundedCompilerSound` derives it
  from the size of the text;
- `SoundFeatures`, without the two uses of jumps that do make an assertion fail (see Known
  mismatches; `scopes_goto_panics` shows the first). `CompilerSound` and `JumpsStayOutOfScopes`
  include a goto backward.

`LuaTableProofs` proves for any keys, values, widths and lengths that `#t` is a border
(`LengthAlwaysBorder`), that no operation panics or loses a traversal
(`TableDoesNotFail`), and that the two parts implement the map of `TableContract`
(`TableImplementsContract`). `Types` says how the parts fit: keys that fit the array
part are not in the map as live entries. `WalkInv` says that a traversal stands on a
key whose entry is in its place still, which is why removed entries stay. The searches of
`#t` are recursive functions; what they return is proved of the smallest interval, in
the well-founded order of the naturals, on which they would be wrong. Two theorems
have hypotheses, and the code needs both:

- `KeysCounted`, no integer key above 2^(`UsizeBits` - 1), for `TableDoesNotFail`: beyond,
  the counts of `table/raw.rs:204` are indexed out of bounds (see Known mismatches);
- `KeysAddressed`, every integer key below 2^`UsizeBits`, for the refinement:
  `table.insert` and `table.remove` cast the length to `usize`.

On 64 bits every integer of a program meets both.

`OpfsFilesProofs` proves for any tree, sessions and requests that a move which no other
session disturbs never loses the bytes, whatever call fails and whenever its tab ends
(`MovesLoseNothing`). The list of calls of a move is counted from its end: with n calls
left, the file is at its old path while n > 0, the bytes are in memory once it was
loaded, and they are at the new path once the commit is done, before the first of the calls
that delete. In between, no call replaces the old file by a directory, for the new path does
not lie below it: `getDirectoryHandle` would have failed. The hypothesis
`NoMoveOntoItself` is needed: `fs.move(p, p)` destroys the file (see Known mismatches).

Under the same hypothesis it proves `AsIfAlone` (`UndisturbedAsDocumented`): each of the thirteen
operations, run as its list of calls, does what `fs.*` documents as one step, unless another session
disturbs it. The assumption `OriginAssumption` says what the hosts and the browser guarantee: the
request is one of the thirteen, only data and the algorithm of a hash can be unsound, and in the tree at the
beginning what holds a file or a directory is a directory. A list of calls depends on the depth of its paths, so
the proof speaks of the set `done` of calls made so far:

- `Follows` says what must be in `done` before a call, and every plan is a list in which
  each call follows (`PlanIs`, `SecondPlanIs`);
- the tree is `After(r, t, done)`, the tree t of the beginning with the deeds of `done`, and the
  session holds the bytes, the position and the copy that `done` gave it (`Holds`); each kind of call keeps this
  (`WorkDone`);
- a call goes through just when t itself allowed it (`PossibleIs`): what the operation has
  done before never stands in its own way. The documentation promises success just when t allows
  every call of a plan (`PromisedIs`), and all deeds of a plan make the documented tree
  (`EffectIs`), byte by byte for `append` and `update`.

`Course` puts these together for a session at work, `Solo` for one that is at work or has ended.
`SolosInv` is inductive: a step of the session keeps its course, turns to the second plan of `stat`,
`exists` and `append` with nothing done yet, or ends as documented; a step of another either
changes nothing the session sees or marks it as disturbed (`OthersSolo`).

`PageProofs` proves `ActsAsAnswered` for any page and any number of
documents. Its invariant says of a command that nothing was done before it was
handled (`NothingYet`), that only actions are sent as messages (`SendsActions`),
that an answer under way tells the truth (`AnswerTrue`), and that a document has
at most one listener, without which one message would act twice.

It also proves `LastEditOnItsWay` of `AutoSave` for any number of edits, pages and
saves. What it needs besides is that numbers of edits only grow, so that a
notebook just made is never taken for the rendered one.

Only model-checked:

- liveness (`StepTerminates`, `CallSettles`, the fairness of `RequestService`), which
  the prover has no rules for;
- the part of `LuaScopes` in `LanguageTypeOK`, which also types a function whose compilation
  has failed; the invariants above are about those without an error;
- `ArgumentsArrive`, `ParamsUnderstood` and `Portable`: the tables of `HostCall` are finite and
  TLC checks all of them.

## Known mismatches

Met while modelling. Those with the name of a run behind them are what that run
finds violated; the others are named exceptions of the properties, bounds of a
run, or outside of the models.

Interpreter.
- A host call inside a coroutine hands over a command while the cell runs to its
  end (`resume_not_suspended`); a command of a cut cell is handed over by the next
  (`stale_command`); a goto that leaves a `for` panics (`scopes_goto_panics`).
- A `while` whose body ends with a return may make a break be refused as a jump
  into a scope, and a goto backward may write the register of a captured local
  while its upvalue is open (`Features`).
- On 32 bits `t[2147483649] = 1` panics in the counts of `table/raw.rs:204`; the
  float key 2^63 is taken for `math.maxinteger` (`raw.rs:607`). The keys of the
  run stay below.
- `table.remove({})` ignores `t[0]`.
- A push that ends at register 255 wraps (`register_allocator.rs:86`).

Calls.
- The extension refuses `web.sleep` and `web.fetch` (`sleep_refused`), has no
  global `sleep`, refuses `web.notifications.create`, `web.clipboard.write` and
  `sidepanel.unhover` always, and loses the arguments listed in `Dropped`.
- `page.enter()` raises on the web host though its argument is optional
  (`js/API.md:711-713`); `tab.url()` without an id gives nil though it "defaults to
  current tab".
- `stopWith` takes the aliases away until the next `reset`.
- `page.fetch` and `page.wait_for_load` are two commands, between which the active
  tab may change; a load that ends between `tabs.get` and `addListener` is waited
  for until the timeout; the timer of `performFetch` is cleared before the body is
  read.

Pages. A handle may name an element of an older snapshot (`stale_handle`); a
document restored from the cache of the browser keeps its old numbers.

Files. `fs.move(p, p)` destroys the file (the run asks for no such move);
concurrent appends lose data, and so do two moves that swap; a failed write leaves
its stream open and the file locked until it is collected; listing a file gives
`E_NOT_FILE`; the sum of offset and length of a range wraps in `usize` and the slice
panics.

Web UI. Edits made before the stored notebook has loaded are replaced by it; a
page that is left before that stores the default notebook over the stored one;
opening the showcase stores it over the notebook. Stop does not hold back the next
cell of Run All once its timeout is set; the result of a stopped cell overwrites the
status `stopped` and takes the next cell from the queue of a new Run All; a call
that rejects leaves its cell `running` and the queue where it is. A WebSession is
borrowed while a cell runs (wasm-bindgen), so Stop on the web host throws instead
of setting the abort flag, and a second cell is rejected.

## Plan

1. Session, executor, relay, compiler, tables, calls, files, pages and the
   automatic save (done).
2. Theorems: the frame discipline and the thread chain of the executor; the two
   parts of a table; the messages of the relay, counted; the operations on files; the
   assertions of the compiler, where its jumps lead and what its code does to upvalues (done).
3. The kernel hooks with the Run All queue; the chrome listeners of the runner;
   metamethods and the conversions of the numeric `for`.

## Not modelled

- The glue to gc-arena (finalizers, stash, registry): the semantics is that of the
  library, which is not in the repository.
- The lexer, the parser, the expression compiler and the encoding of opcodes; what
  single VM instructions compute; strings and patterns of the standard library:
  sequential functions of one input, better tested than enumerated.
- Two cells in flight on one session: the object is borrowed by the first.
- The libraries a session runs when it is built (`lua_library`): only tests register one.
- Wire formats, rendering, the text of messages and cryptographic functions.
