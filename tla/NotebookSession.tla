--------------------------- MODULE NotebookSession ---------------------------
(***************************************************************************)
(* The session of crates/web-lua-core (session.rs): one Lua state, at most *)
(* one stored executor, the HostState it shares with the Lua callbacks,    *)
(* and the operations a host calls on it: run_cell, resume_cell, cancel,   *)
(* reset, set_fuel_limit, restore_pending_command.                         *)
(*                                                                         *)
(* A call of run_cell or resume_cell is synchronous, but what Lua does in  *)
(* it is not known: pc is "step" while Executor::step loops, "returned"    *)
(* between its return and the checks of the session, "idle" between two    *)
(* calls.  The executor is abstracted to what the session observes of it   *)
(* (module PiccoloExecutor models it in full): its mode, the kind of the   *)
(* result it holds, and the depth of the stack of coroutines above the     *)
(* main thread.                                                            *)
(***************************************************************************)
EXTENDS Integers, FiniteSets

CONSTANTS
    FuelLimits,        \* the values set_fuel_limit is called with
    DefaultFuelLimit,  \* the limit of SessionBuilder::default
    Slices,            \* VM instructions run by one call of run_vm
    MaxDepth,          \* bound: coroutines nested above the main thread
    MaxCells,          \* bound: run_cell calls between two resets
    MaxCalls,          \* bound: async calls between two resets
    MaxEpochs,         \* bound: resets
    NoCommand

FUEL_PER_CALLBACK == 8
FUEL_PER_STEP == 4

(* An async command: the reset epoch and the cell it was issued in, its    *)
(* call_id, and how many coroutines deep the Lua code that issued it was.  *)
Command == [epoch : Nat, cell : Nat, call_id : Nat, depth : Nat]

ASSUME ConstantsAssumption ==
    /\ FuelLimits \subseteq Int
    /\ DefaultFuelLimit \in Int
    /\ Slices \subseteq Nat
    /\ MaxDepth \in Nat
    /\ MaxCells \in Nat
    /\ MaxCalls \in Nat
    /\ MaxEpochs \in Nat
    /\ NoCommand \notin Command

VARIABLES
    executor,               \* NotebookSession.executor and its mode
    depth,                  \* threads above the main one in the executor
    execution_count,
    fuel_limit,
    cancelled,
    pending_async_command,  \* HostState
    async_call_counter,     \* HostState
    fuel_exhausted,         \* HostState
    cell_errors,            \* HostState: the first error recorded, or "None"
    fuel,                   \* the Fuel of the call in progress
    pc,                     \* where the call in progress stands
    done,                   \* what Executor::step returned
    result,                 \* the RunResult of the last call that returned
    epoch,                  \* history: the number of resets
    yielder,                \* history: the call the main thread yielded in
    handed,                 \* history: commands the host holds or has held
    cut,                    \* history: cells stopped by fuel or by cancel
    givenBack               \* history: commands the host has given back

hostState == <<pending_async_command, async_call_counter, fuel_exhausted,
               cell_errors>>
call == <<fuel, pc, done>>
history == <<epoch, yielder, handed, cut, givenBack>>
vars == <<executor, depth, execution_count, fuel_limit, cancelled, hostState,
          call, result, history>>

(* "Returned", "Errored" and "Yielded" are ExecutorMode::Result with the   *)
(* three kinds of result; the other values name an ExecutorMode.           *)
ResultModes == {"Returned", "Errored", "Yielded"}
Executors == ResultModes \cup {"None", "Normal", "Suspended", "Stopped"}

ThisCell == <<epoch, execution_count>>
CellOf(c) == <<c.epoch, c.cell>>

RunResult(status, error, command, exhausted, count) ==
    [status |-> status, error |-> error, pending_command |-> command,
     fuel_exhausted |-> exhausted, execution_count |-> count]

(* RunResult::err and RunResult::with_partial_output: no command, Done.    *)
Failed(error, count) == RunResult("Done", error, NoCommand, FALSE, count)

(* A session as the hosts build it.  SessionBuilder::finish also runs the  *)
(* libraries that lua_library registered, and sets the count of cells back *)
(* to 0; outside of tests nothing registers one.                           *)
Init ==
    /\ executor = "None"
    /\ depth = 0
    /\ execution_count = 0
    /\ fuel_limit = DefaultFuelLimit
    /\ cancelled = FALSE
    /\ pending_async_command = NoCommand
    /\ async_call_counter = 0
    /\ fuel_exhausted = FALSE
    /\ cell_errors = "None"
    /\ fuel = 0
    /\ pc = "idle"
    /\ done = FALSE
    /\ result = RunResult("Done", "None", NoCommand, FALSE, 0)
    /\ epoch = 0
    /\ yielder = NoCommand
    /\ handed = {}
    /\ cut = {}
    /\ givenBack = {}

-----------------------------------------------------------------------------
(* The operations of the host.                                             *)

EnterStep == pc' = "step" /\ fuel' = fuel_limit /\ done' = FALSE
LeaveCall == pc' = "idle" /\ fuel' = 0 /\ done' = FALSE

(* The part of run_cell before the loop.  The pending command and the      *)
(* counter of async calls are not among what it clears.                    *)
ResetHostStateKeepsFuelFlag ==
    fuel_exhausted' = fuel_exhausted /\ cell_errors' = "None"  \* mutant

ResetHostState == fuel_exhausted' = FALSE /\ cell_errors' = "None"

(* run_cell of a chunk that compiles: a new executor replaces the old one, *)
(* whatever the old one was doing.                                         *)
RunCell ==
    /\ pc = "idle" /\ execution_count < MaxCells
    /\ ResetHostState
    /\ execution_count' = execution_count + 1
    /\ executor' = "Normal" /\ depth' = 0
    /\ yielder' = NoCommand
    /\ EnterStep
    /\ UNCHANGED <<fuel_limit, cancelled, pending_async_command,
                   async_call_counter, result, epoch, handed, cut, givenBack>>

(* run_cell of a chunk that does not compile keeps the old executor.       *)
RunCellCompileError ==
    /\ pc = "idle" /\ execution_count < MaxCells
    /\ ResetHostState
    /\ execution_count' = execution_count + 1
    /\ result' = Failed("Compile", execution_count + 1)
    /\ UNCHANGED <<executor, depth, fuel_limit, cancelled,
                   pending_async_command, async_call_counter, call, history>>

(* Executor::take_result: only an executor in a Result mode changes.       *)
AfterTakeResult ==
    CASE executor \in {"Returned", "Errored"} -> "Stopped"
      [] executor = "Yielded" -> "Suspended"
      [] OTHER -> executor

(* The host answers the command it was handed by the last call, as         *)
(* run_cell_async_loop does: it never resumes a cell that is Done.         *)
AwaitsAnswer == pc = "idle" /\ result.status = "AsyncPending"

ResumeWithoutExecutor ==
    /\ AwaitsAnswer /\ executor = "None"
    /\ result' = Failed("Internal", execution_count)
    /\ UNCHANGED <<executor, depth, execution_count, fuel_limit, cancelled,
                   hostState, call, history>>

(* A response that does not parse is refused before anything changes.      *)
ResumeInvalidJson ==
    /\ AwaitsAnswer /\ executor # "None"
    /\ result' = Failed("Internal", execution_count)
    /\ UNCHANGED <<executor, depth, execution_count, fuel_limit, cancelled,
                   hostState, call, history>>

(* Resuming puts the values (ok) or an error (not ok) where the main       *)
(* thread yielded.  With no frame under the yield the thread is finished   *)
(* at once.                                                                *)
ResumeSuspended(ok) ==
    /\ AwaitsAnswer /\ executor # "None"
    /\ AfterTakeResult = "Suspended"
    /\ pending_async_command' = NoCommand
    /\ executor' \in {"Normal", IF ok THEN "Returned" ELSE "Errored"}
    /\ yielder' = NoCommand
    /\ EnterStep
    /\ UNCHANGED <<depth, execution_count, fuel_limit, cancelled,
                   async_call_counter, fuel_exhausted, cell_errors, result,
                   epoch, handed, cut, givenBack>>

(* The executor is not suspended: the pending command and the result it    *)
(* held are gone by then, and resume reports an internal error.            *)
ResumeNotSuspended ==
    /\ AwaitsAnswer /\ executor # "None"
    /\ AfterTakeResult # "Suspended"
    /\ pending_async_command' = NoCommand
    /\ executor' = AfterTakeResult
    /\ result' = Failed("Internal", execution_count)
    /\ UNCHANGED <<depth, execution_count, fuel_limit, cancelled,
                   async_call_counter, fuel_exhausted, cell_errors, call,
                   history>>

(* The same with an error response: resume_err's result is unwrapped.      *)
ResumeErrNotSuspended ==
    /\ AwaitsAnswer /\ executor # "None"
    /\ AfterTakeResult # "Suspended"
    /\ pending_async_command' = NoCommand
    /\ executor' = AfterTakeResult
    /\ pc' = "panicked"
    /\ UNCHANGED <<depth, execution_count, fuel_limit, cancelled,
                   async_call_counter, fuel_exhausted, cell_errors, fuel,
                   done, result, history>>

Cancel ==
    /\ pc = "idle"
    /\ cancelled' = TRUE
    /\ UNCHANGED <<executor, depth, execution_count, fuel_limit, hostState,
                   call, result, history>>

(* A new Lua state and a new HostState; the fuel limit is kept.            *)
Reset ==
    /\ pc = "idle" /\ epoch < MaxEpochs
    /\ executor' = "None" /\ depth' = 0
    /\ execution_count' = 0
    /\ cancelled' = FALSE
    /\ pending_async_command' = NoCommand
    /\ async_call_counter' = 0
    /\ fuel_exhausted' = FALSE
    /\ cell_errors' = "None"
    /\ epoch' = epoch + 1
    /\ yielder' = NoCommand
    /\ UNCHANGED <<fuel_limit, call, result, handed, cut, givenBack>>

SetFuelLimit(limit) ==
    /\ pc = "idle"
    /\ fuel_limit' = limit
    /\ UNCHANGED <<executor, depth, execution_count, cancelled, hostState,
                   call, result, history>>

(* The host gives the command it was handed, and has not answered, back    *)
(* for a later call.                                                       *)
RestorePendingCommand ==
    LET c == result.pending_command
    IN  /\ AwaitsAnswer
        /\ pending_async_command' = c
        /\ handed' = handed \ {c}
        /\ givenBack' = givenBack \cup {c}
        /\ UNCHANGED <<executor, depth, execution_count, fuel_limit,
                       cancelled, async_call_counter, fuel_exhausted,
                       cell_errors, call, result, epoch, yielder, cut>>

-----------------------------------------------------------------------------
(* Executor::step, as the session sees it: iterations that run Lua, each   *)
(* of which burns fuel, until the main thread has no more work (true) or   *)
(* the fuel is gone (false).                                               *)

Running == pc = "step" /\ executor = "Normal"

BurnNothing(n) == UNCHANGED call  \* mutant: no fuel is consumed

Burn(n) ==
    /\ fuel' = fuel - (n + FUEL_PER_STEP)
    /\ IF fuel' > 0 THEN UNCHANGED <<pc, done>>
                    ELSE pc' = "returned" /\ done' = FALSE

LuaSliceBelowMain(n) ==  \* mutant: the main thread is popped as well
    /\ Running
    /\ depth' = depth - 1
    /\ Burn(n)
    /\ UNCHANGED <<executor, execution_count, fuel_limit, cancelled,
                   hostState, result, history>>

(* A slice of Lua: one run_vm, or callbacks with no effect on the session. *)
(* It may end in the return or the yield of a coroutine.                   *)
LuaSlice(n) ==
    /\ Running
    /\ depth' \in {depth, depth - 1} \cap Nat
    /\ Burn(n)
    /\ UNCHANGED <<executor, execution_count, fuel_limit, cancelled,
                   hostState, result, history>>

(* coroutine.resume or coroutine.continue of a suspended coroutine.        *)
ResumeCoroutine ==
    /\ Running /\ depth < MaxDepth
    /\ depth' = depth + 1
    /\ Burn(FUEL_PER_CALLBACK)
    /\ UNCHANGED <<executor, execution_count, fuel_limit, cancelled,
                   hostState, result, history>>

HostCallYieldsMain ==  \* mutant: a yield always reaches the host
    LET c == [epoch |-> epoch, cell |-> execution_count,
              call_id |-> async_call_counter + 1, depth |-> depth]
    IN  /\ Running /\ async_call_counter < MaxCalls
        /\ async_call_counter' = async_call_counter + 1
        /\ pending_async_command' = c
        /\ executor' = "Yielded" /\ yielder' = c
        /\ Burn(FUEL_PER_CALLBACK)
        /\ UNCHANGED <<depth, execution_count, fuel_limit, cancelled,
                       fuel_exhausted, cell_errors, result, epoch, handed, cut,
                       givenBack>>

(* A callback that waits for the host: it records the command and yields.  *)
(* On the main thread the yield leaves the executor with a result; in a    *)
(* coroutine it goes to whoever resumed the coroutine.                     *)
HostCall ==
    LET c == [epoch |-> epoch, cell |-> execution_count,
              call_id |-> async_call_counter + 1, depth |-> depth]
    IN  /\ Running /\ async_call_counter < MaxCalls
        /\ async_call_counter' = async_call_counter + 1
        /\ pending_async_command' = c
        /\ IF depth = 0
           THEN executor' = "Yielded" /\ yielder' = c /\ depth' = 0
           ELSE depth' = depth - 1 /\ UNCHANGED <<executor, yielder>>
        /\ Burn(FUEL_PER_CALLBACK)
        /\ UNCHANGED <<execution_count, fuel_limit, cancelled, fuel_exhausted,
                       cell_errors, result, epoch, handed, cut, givenBack>>

(* coroutine.yield on the main thread, with no command of its own.         *)
PlainYield ==
    /\ Running /\ depth = 0
    /\ executor' = "Yielded" /\ yielder' = NoCommand
    /\ Burn(FUEL_PER_CALLBACK)
    /\ UNCHANGED <<depth, execution_count, fuel_limit, cancelled, hostState,
                   result, epoch, handed, cut, givenBack>>

(* The cell's chunk returns, or an error nothing caught reaches its end.   *)
Finish(n) ==
    /\ Running /\ depth = 0
    /\ executor' \in {"Returned", "Errored"}
    /\ Burn(n)
    /\ UNCHANGED <<depth, execution_count, fuel_limit, cancelled, hostState,
                   result, history>>

(* The strict-mode callback records an error and raises it; Lua may catch  *)
(* it, the record stays.                                                   *)
StrictModeError ==
    /\ Running
    /\ cell_errors' = IF cell_errors = "None" THEN "StrictMode" ELSE cell_errors
    /\ Burn(FUEL_PER_CALLBACK)
    /\ UNCHANGED <<executor, depth, execution_count, fuel_limit, cancelled,
                   pending_async_command, async_call_counter, fuel_exhausted,
                   result, history>>

(* The head of the loop finds the main thread with nothing to run.         *)
StepReturnsTrue ==
    /\ pc = "step" /\ executor # "Normal"
    /\ pc' = "returned" /\ done' = TRUE
    /\ UNCHANGED <<executor, depth, execution_count, fuel_limit, cancelled,
                   hostState, fuel, result, history>>

-----------------------------------------------------------------------------
(* The session after step, the same for run_cell and resume_cell.          *)

ReturnCancelled ==
    /\ pc = "returned" /\ cancelled
    /\ result' = Failed("Cancelled", execution_count)
    /\ cut' = cut \cup {ThisCell}
    /\ LeaveCall
    /\ UNCHANGED <<executor, depth, execution_count, fuel_limit, cancelled,
                   hostState, epoch, yielder, handed, givenBack>>

HandOver ==
    /\ result' = RunResult("AsyncPending", "None", pending_async_command,
                           FALSE, execution_count)
    /\ handed' = handed \cup {pending_async_command}
    /\ LeaveCall
    /\ UNCHANGED <<depth, execution_count, fuel_limit, cancelled,
                   async_call_counter, fuel_exhausted, cell_errors, epoch,
                   yielder, cut, givenBack>>

ReturnAsyncPendingKeepsCommand ==  \* mutant: the command is not taken
    /\ pc = "returned" /\ ~cancelled
    /\ done /\ pending_async_command # NoCommand
    /\ HandOver
    /\ UNCHANGED <<executor, pending_async_command>>

ReturnAsyncPendingTakesResult ==  \* mutant: the executor's result is taken
    /\ pc = "returned" /\ ~cancelled
    /\ done /\ pending_async_command # NoCommand
    /\ pending_async_command' = NoCommand
    /\ executor' = AfterTakeResult
    /\ HandOver

ReturnAsyncPendingWhenCancelled ==  \* mutant: done is tested before cancelled
    /\ pc = "returned"
    /\ done /\ pending_async_command # NoCommand
    /\ pending_async_command' = NoCommand
    /\ HandOver
    /\ UNCHANGED executor

(* The cell waits: the host is handed the command, whoever issued it.      *)
ReturnAsyncPending ==
    /\ pc = "returned" /\ ~cancelled
    /\ done /\ pending_async_command # NoCommand
    /\ pending_async_command' = NoCommand
    /\ HandOver
    /\ UNCHANGED executor

CompleteCell ==
    /\ fuel_exhausted' = (fuel_exhausted \/ ~done)
    /\ executor' = AfterTakeResult
    /\ cell_errors' = IF executor = "Errored" /\ cell_errors = "None"
                      THEN "Runtime" ELSE cell_errors
    /\ result' = RunResult("Done",
                           IF fuel_exhausted' THEN "FuelExhausted"
                                              ELSE cell_errors',
                           NoCommand, fuel_exhausted', execution_count)
    /\ cut' = IF done THEN cut ELSE cut \cup {ThisCell}
    /\ LeaveCall
    /\ UNCHANGED <<depth, execution_count, fuel_limit, cancelled,
                   pending_async_command, async_call_counter, epoch, yielder,
                   handed, givenBack>>

ReturnDoneIgnoresPending ==  \* mutant: the pending command is not looked at
    /\ pc = "returned" /\ ~cancelled
    /\ CompleteCell

(* The result is taken and the cell is Done: FuelExhausted if step         *)
(* returned false, otherwise with the first error the cell recorded.       *)
ReturnDone ==
    /\ pc = "returned" /\ ~cancelled
    /\ ~done \/ pending_async_command = NoCommand
    /\ CompleteCell

-----------------------------------------------------------------------------

HostStep ==
    \/ RunCell
    \/ RunCellCompileError
    \/ ResumeWithoutExecutor
    \/ ResumeInvalidJson
    \/ \E ok \in BOOLEAN : ResumeSuspended(ok)
    \/ ResumeNotSuspended
    \/ ResumeErrNotSuspended
    \/ Cancel
    \/ Reset
    \/ \E limit \in FuelLimits : SetFuelLimit(limit)
    \/ RestorePendingCommand

LuaStep ==
    \/ \E n \in Slices : LuaSlice(n) \/ Finish(n)
    \/ ResumeCoroutine
    \/ HostCall
    \/ PlainYield
    \/ StrictModeError

SessionStep ==
    \/ StepReturnsTrue
    \/ ReturnCancelled
    \/ ReturnAsyncPending
    \/ ReturnDone

Next == HostStep \/ LuaStep \/ SessionStep

Spec == Init /\ [][Next]_vars

(* A call that has begun runs on: it is synchronous code of one thread.    *)
FairSpec == Spec /\ WF_vars(LuaStep \/ SessionStep)

-----------------------------------------------------------------------------
(* Properties.                                                             *)

DoneResults ==
    [status : {"Done"},
     error : {"None", "Compile", "Runtime", "StrictMode", "FuelExhausted",
              "Internal", "Cancelled"},
     pending_command : {NoCommand},
     fuel_exhausted : BOOLEAN,
     execution_count : Nat]

AsyncPendingResults ==
    [status : {"AsyncPending"}, error : {"None"}, pending_command : Command,
     fuel_exhausted : {FALSE}, execution_count : Nat]

(* Every variable has its type.                                            *)
TypeOK ==
    /\ executor \in Executors
    /\ depth \in Nat
    /\ execution_count \in Nat
    /\ fuel_limit \in Int
    /\ cancelled \in BOOLEAN
    /\ pending_async_command \in Command \cup {NoCommand}
    /\ async_call_counter \in Nat
    /\ fuel_exhausted \in BOOLEAN
    /\ cell_errors \in {"None", "StrictMode", "Runtime"}
    /\ fuel \in Int
    /\ pc \in {"idle", "step", "returned", "panicked"}
    /\ done \in BOOLEAN
    /\ result \in DoneResults \cup AsyncPendingResults
    /\ epoch \in Nat
    /\ yielder \in Command \cup {NoCommand}
    /\ handed \subseteq Command
    /\ cut \subseteq Nat \X Nat
    /\ givenBack \subseteq Command

(* When the host is handed a command that the main thread of this very     *)
(* cell issued, the executor waits in the call that issued it: the answer  *)
(* resumes that call and no other (session.rs, resume_cell: "Now resume    *)
(* the executor").                                                         *)
FreshCommandResumable ==
    /\ pc = "idle"
    /\ result.status = "AsyncPending"
    /\ CellOf(result.pending_command) = ThisCell
    /\ result.pending_command.depth = 0
    => /\ executor = "Yielded"
       /\ yielder = result.pending_command

(* A command still pending between two calls was left there by a cell that *)
(* fuel or cancel cut short, or given back by the host: a cell that runs   *)
(* to its end hands over or clears every command of its own.               *)
LeftoverOnlyFromCutCell ==
    pc = "idle" /\ pending_async_command # NoCommand
    => \/ CellOf(pending_async_command) \in cut
       \/ pending_async_command \in givenBack

(* The host is handed a command at most once, unless it gave it back: no   *)
(* side effect is asked for twice, across cells and resets.                *)
HandedAtMostOnce ==
    [][ ReturnAsyncPending => pending_async_command \notin handed ]_vars

(* From cancel to the next reset no cell hands the host a command and none *)
(* completes.                                                              *)
CancelledSessionOnlyFails ==
    [][ /\ cancelled /\ cancelled'
        /\ result' # result
        => result'.error \in {"Cancelled", "Compile", "Internal"} ]_vars

(* A cell reports fuel exhaustion only when the fuel of that very call ran *)
(* out, not that of an earlier cell.                                       *)
FuelErrorOnlyWhenCut ==
    [][ result' # result /\ result'.fuel_exhausted => fuel <= 0 ]_vars

(* Every call leaves Executor::step: fuel bounds any Lua program.          *)
StepTerminates == pc = "step" ~> pc # "step"

abstractStep ==
    CASE pc = "step" -> "running"
      [] pc = "returned" -> IF done THEN "true" ELSE "false"
      [] OTHER -> "idle"

Contract == INSTANCE ExecutorContract WITH step <- abstractStep

(* The session assumes of the executor no more than ExecutorContract       *)
(* promises, and drives it only by the operations the contract has.        *)
UsesContract == Contract!Spec


(* session.rs:286, in run_cell: "Reset host state for this run": what a    *)
(* cell hands to the host is a command of that cell, or one the host gave  *)
(* back.                                                                   *)
CommandOfThisRun ==
    [][ ReturnAsyncPending => \/ CellOf(pending_async_command) = ThisCell
                              \/ pending_async_command \in givenBack ]_vars

=============================================================================
