------------------------ MODULE NotebookSessionProofs ------------------------
(* Proofs about NotebookSession: its type invariant and its safety         *)
(* properties, for every value of the constants.                           *)
EXTENDS NotebookSession, TLAPS

-----------------------------------------------------------------------------
(* The inductive invariant.                                                *)

Pending == pending_async_command # NoCommand
InCall == pc \in {"step", "returned"}

(* Commands bear an epoch, a cell and a call_id that have been reached, and *)
(* a pending command is not in the hands of the host.                      *)
Reached(c) ==
    /\ c.epoch <= epoch
    /\ c.epoch = epoch => /\ c.cell <= execution_count
                          /\ c.call_id <= async_call_counter

CommandsReached ==
    /\ Pending => /\ Reached(pending_async_command)
                  /\ pending_async_command \notin handed
    /\ \A c \in handed \cup givenBack : Reached(c)
    /\ result.status = "AsyncPending" =>
          Reached(result.pending_command)

(* During a call, a command of this cell issued on the main thread has     *)
(* left the executor in the yield of that very command.                    *)
MainCallYielded ==
    InCall /\ Pending /\ CellOf(pending_async_command) = ThisCell
           /\ pending_async_command.depth = 0
    => executor = "Yielded" /\ yielder = pending_async_command

(* During a call a pending command is a leftover, was given back, or is of *)
(* this cell.                                                              *)
PendingAccounted ==
    InCall /\ Pending
    => \/ CellOf(pending_async_command) \in cut
       \/ pending_async_command \in givenBack
       \/ CellOf(pending_async_command) = ThisCell

(* The flag of fuel exhaustion is down during a call and while a command   *)
(* is with the host; step returns false only without fuel.                 *)
FuelFlag ==
    /\ InCall \/ AwaitsAnswer => ~fuel_exhausted
    /\ pc = "returned" /\ ~done => fuel <= 0

IInv ==
    /\ TypeOK
    /\ CommandsReached
    /\ MainCallYielded
    /\ PendingAccounted
    /\ FuelFlag
    /\ FreshCommandResumable
    /\ LeftoverOnlyFromCutCell

-----------------------------------------------------------------------------
(* Types.                                                                  *)

(* A failed call (RunResult::err) returns one of DoneResults.              *)
LEMMA FailedType ==
  ASSUME NEW error \in {"Compile", "Internal", "Cancelled"}, NEW count \in Nat
  PROVE  Failed(error, count) \in DoneResults
  BY Zenon DEF Failed, RunResult, DoneResults

(* A result that hands the host a command is one of AsyncPendingResults.   *)
LEMMA AsyncPendingType ==
  ASSUME NEW command \in Command, NEW count \in Nat
  PROVE  RunResult("AsyncPending", "None", command, FALSE, count)
             \in AsyncPendingResults
  BY Zenon DEF RunResult, AsyncPendingResults

(* A result of a completed cell is one of DoneResults.                     *)
LEMMA DoneType ==
  ASSUME NEW error \in {"None", "Runtime", "StrictMode", "FuelExhausted"},
         NEW exhausted, exhausted \in BOOLEAN, NEW count \in Nat
  PROVE  RunResult("Done", error, NoCommand, exhausted, count) \in DoneResults
  BY Zenon DEF RunResult, DoneResults

(* What an iteration of step does to the state of the call.                *)
LEMMA BurnType ==
  ASSUME TypeOK, NEW n \in Nat, Burn(n)
  PROVE  /\ fuel' \in Int
         /\ pc' \in {"idle", "step", "returned", "panicked"}
         /\ done' \in BOOLEAN
  <1>1. fuel' \in Int
    BY DEF TypeOK, Burn, FUEL_PER_STEP
  <1>2. pc' \in {"idle", "step", "returned", "panicked"}
    BY DEF TypeOK, Burn
  <1>3. done' \in BOOLEAN
    BY DEF TypeOK, Burn
  <1> QED
    BY <1>1, <1>2, <1>3

(* Entering step types the state of the call.                              *)
LEMMA EnterStepType ==
  ASSUME TypeOK, EnterStep
  PROVE  /\ fuel' \in Int
         /\ pc' \in {"idle", "step", "returned", "panicked"}
         /\ done' \in BOOLEAN
  <1>1. fuel' \in Int
    BY DEF TypeOK, EnterStep
  <1>2. pc' \in {"idle", "step", "returned", "panicked"}
    BY DEF EnterStep
  <1>3. done' \in BOOLEAN
    BY DEF EnterStep
  <1> QED
    BY <1>1, <1>2, <1>3

(* Leaving a call types the state of the call.                             *)
LEMMA LeaveCallType ==
  ASSUME LeaveCall
  PROVE  /\ fuel' \in Int
         /\ pc' \in {"idle", "step", "returned", "panicked"}
         /\ done' \in BOOLEAN
  <1>1. fuel' \in Int
    BY DEF LeaveCall
  <1>2. pc' \in {"idle", "step", "returned", "panicked"}
    BY DEF LeaveCall
  <1>3. done' \in BOOLEAN
    BY DEF LeaveCall
  <1> QED
    BY <1>1, <1>2, <1>3

(* The initial state of the session is typed.                              *)
LEMMA TypeInit == Init => TypeOK
  <1> SUFFICES ASSUME Init PROVE TypeOK
    OBVIOUS
  <1>1. result \in DoneResults
    <2>1. RunResult("Done", "None", NoCommand, FALSE, 0) \in DoneResults
      BY DoneType
    <2> QED
      BY <2>1 DEF Init
  <1>2. /\ executor \in Executors
        /\ depth \in Nat /\ execution_count \in Nat /\ epoch \in Nat
        /\ async_call_counter \in Nat /\ fuel \in Int /\ fuel_limit \in Int
    BY ConstantsAssumption
    DEF ConstantsAssumption, Init, Executors, ResultModes
  <1>3. /\ cancelled \in BOOLEAN /\ fuel_exhausted \in BOOLEAN /\ done \in
           BOOLEAN
        /\ cell_errors \in {"None", "StrictMode", "Runtime"}
        /\ pc \in {"idle", "step", "returned", "panicked"}
    BY DEF Init
  <1>4. /\ pending_async_command \in Command \cup {NoCommand}
        /\ yielder \in Command \cup {NoCommand}
        /\ handed \subseteq Command /\ givenBack \subseteq Command
        /\ cut \subseteq Nat \X Nat
    BY DEF Init
  <1> QED
    BY <1>1, <1>2, <1>3, <1>4 DEF TypeOK

(* Every operation of the session and every step of Lua keeps the types.   *)
LEMMA TypeStep == TypeOK /\ [Next]_vars => TypeOK'
  <1> SUFFICES ASSUME TypeOK, [Next]_vars PROVE TypeOK'
    OBVIOUS
  <1> USE ConstantsAssumption
      DEF ConstantsAssumption, TypeOK, hostState, call, history,
          FUEL_PER_CALLBACK, FUEL_PER_STEP
  <1>1. CASE RunCell
    <2>1. /\ fuel' \in Int
          /\ pc' \in {"idle", "step", "returned", "panicked"}
          /\ done' \in BOOLEAN
      BY <1>1, EnterStepType DEF RunCell
    <2>2. /\ fuel_exhausted' \in BOOLEAN
          /\ cell_errors' \in {"None", "StrictMode", "Runtime"}
      BY <1>1 DEF RunCell, ResetHostState
    <2>3. /\ executor' \in Executors /\ depth' \in Nat
          /\ execution_count' \in Nat
      BY <1>1 DEF RunCell, Executors, ResultModes
    <2> QED
      BY <1>1, <2>1, <2>2, <2>3 DEF RunCell
  <1>2. CASE RunCellCompileError
    <2>1. execution_count' \in Nat /\ result' \in DoneResults
      BY <1>2, FailedType DEF RunCellCompileError
    <2>2. /\ fuel_exhausted' \in BOOLEAN
          /\ cell_errors' \in {"None", "StrictMode", "Runtime"}
      BY <1>2 DEF RunCellCompileError, ResetHostState
    <2> QED
      BY <1>2, <2>1, <2>2 DEF RunCellCompileError
  <1>3. CASE ResumeWithoutExecutor
    BY <1>3, FailedType DEF ResumeWithoutExecutor, AwaitsAnswer
  <1>4. CASE ResumeInvalidJson
    BY <1>4, FailedType DEF ResumeInvalidJson, AwaitsAnswer
  <1>5. ASSUME NEW ok \in BOOLEAN, ResumeSuspended(ok) PROVE TypeOK'
    BY <1>5, EnterStepType
    DEF ResumeSuspended, AwaitsAnswer, AfterTakeResult, Executors, ResultModes
  <1>6. CASE ResumeNotSuspended
    BY <1>6, FailedType
    DEF ResumeNotSuspended, AwaitsAnswer, AfterTakeResult, Executors,
        ResultModes
  <1>7. CASE ResumeErrNotSuspended
    BY <1>7
    DEF ResumeErrNotSuspended, AwaitsAnswer, AfterTakeResult, Executors,
        ResultModes
  <1>8. CASE Cancel
    BY <1>8 DEF Cancel
  <1>9. CASE Reset
    <2>1. /\ executor' \in Executors
          /\ depth' \in Nat /\ execution_count' \in Nat /\ epoch' \in Nat
          /\ async_call_counter' \in Nat
      BY <1>9 DEF Reset, Executors, ResultModes
    <2>2. /\ cancelled' \in BOOLEAN /\ fuel_exhausted' \in BOOLEAN
          /\ cell_errors' \in {"None", "StrictMode", "Runtime"}
      BY <1>9 DEF Reset
    <2>3. /\ pending_async_command' \in Command \cup {NoCommand}
          /\ yielder' \in Command \cup {NoCommand}
      BY <1>9 DEF Reset
    <2> QED
      BY <1>9, <2>1, <2>2, <2>3 DEF Reset
  <1>10. ASSUME NEW limit \in FuelLimits, SetFuelLimit(limit) PROVE TypeOK'
    BY <1>10 DEF SetFuelLimit
  <1>11. CASE RestorePendingCommand
    <2>1. result.pending_command \in Command
      BY <1>11
      DEF RestorePendingCommand, AwaitsAnswer, DoneResults, AsyncPendingResults
    <2>2. /\ pending_async_command' \in Command \cup {NoCommand}
          /\ handed' \subseteq Command
          /\ givenBack' \subseteq Command
      BY <1>11, <2>1 DEF RestorePendingCommand, AwaitsAnswer
    <2> QED
      BY <1>11, <2>2 DEF RestorePendingCommand
  <1>12. ASSUME NEW n \in Slices, LuaSlice(n) PROVE TypeOK'
    BY <1>12, BurnType DEF LuaSlice, Running
  <1>13. ASSUME NEW n \in Slices, Finish(n) PROVE TypeOK'
    BY <1>13, BurnType DEF Finish, Running, Executors, ResultModes
  <1>14. CASE ResumeCoroutine
    BY <1>14, BurnType DEF ResumeCoroutine, Running
  <1>15. CASE HostCall
    <2> DEFINE c == [epoch |-> epoch, cell |-> execution_count,
                     call_id |-> async_call_counter + 1, depth |-> depth]
    <2>1. c \in Command
      BY DEF Command
    <2>2. /\ fuel' \in Int
          /\ pc' \in {"idle", "step", "returned", "panicked"}
          /\ done' \in BOOLEAN
      BY <1>15, BurnType DEF HostCall
    <2>3. /\ pending_async_command' = c /\ async_call_counter' \in Nat
          /\ IF depth = 0
             THEN executor' = "Yielded" /\ yielder' = c /\ depth' = 0
             ELSE depth' = depth - 1 /\ UNCHANGED <<executor, yielder>>
      BY <1>15 DEF HostCall
    <2>4. executor' \in Executors /\ yielder' \in Command \cup {NoCommand}
      BY <2>1, <2>3 DEF Executors, ResultModes
    <2>5. depth' \in Nat
      BY <2>3
    <2> HIDE DEF c
    <2> QED
      BY <1>15, <2>1, <2>2, <2>3, <2>4, <2>5 DEF HostCall
  <1>16. CASE PlainYield
    BY <1>16, BurnType DEF PlainYield, Running, Executors, ResultModes
  <1>17. CASE StrictModeError
    BY <1>17, BurnType DEF StrictModeError, Running
  <1>18. CASE StepReturnsTrue
    BY <1>18 DEF StepReturnsTrue
  <1>19. CASE ReturnCancelled
    <2>1. result' \in DoneResults /\ cut' \subseteq Nat \X Nat
      BY <1>19, FailedType DEF ReturnCancelled, ThisCell
    <2>2. /\ fuel' \in Int
          /\ pc' \in {"idle", "step", "returned", "panicked"}
          /\ done' \in BOOLEAN
      BY <1>19, LeaveCallType DEF ReturnCancelled
    <2> QED
      BY <1>19, <2>1, <2>2 DEF ReturnCancelled
  <1>20. CASE ReturnAsyncPending
    <2>1. /\ result' \in AsyncPendingResults /\ handed' \subseteq Command
          /\ pending_async_command' \in Command \cup {NoCommand}
      BY <1>20, AsyncPendingType DEF ReturnAsyncPending, HandOver
    <2>2. /\ fuel' \in Int
          /\ pc' \in {"idle", "step", "returned", "panicked"}
          /\ done' \in BOOLEAN
      BY <1>20, LeaveCallType DEF ReturnAsyncPending, HandOver
    <2> QED
      BY <1>20, <2>1, <2>2 DEF ReturnAsyncPending, HandOver
  <1>21. CASE ReturnDone
    <2>1. fuel_exhausted' \in BOOLEAN
      BY <1>21 DEF ReturnDone, CompleteCell
    <2>2. cell_errors' \in {"None", "StrictMode", "Runtime"}
      BY <1>21 DEF ReturnDone, CompleteCell
    <2>3. result' \in DoneResults
      <3> DEFINE error == IF fuel_exhausted' THEN "FuelExhausted" ELSE
             cell_errors'
      <3>1. error \in {"None", "Runtime", "StrictMode", "FuelExhausted"}
        BY <2>2
      <3>2. result' = RunResult("Done", error, NoCommand, fuel_exhausted',
               execution_count)
        BY <1>21 DEF ReturnDone, CompleteCell
      <3> QED
        BY <2>1, <3>1, <3>2, DoneType
    <2>4. executor' \in Executors
      BY <1>21
      DEF ReturnDone, CompleteCell, AfterTakeResult, Executors, ResultModes
    <2>5. /\ fuel' \in Int
          /\ pc' \in {"idle", "step", "returned", "panicked"}
          /\ done' \in BOOLEAN
      BY <1>21, LeaveCallType DEF ReturnDone, CompleteCell
    <2>6. cut' \subseteq Nat \X Nat
      BY <1>21 DEF ReturnDone, CompleteCell, ThisCell
    <2> QED
      BY <1>21, <2>1, <2>2, <2>3, <2>4, <2>5, <2>6 DEF ReturnDone, CompleteCell
  <1>22. CASE UNCHANGED vars
    BY <1>22 DEF vars
  <1>q. QED
    BY <1>1, <1>2, <1>3, <1>4, <1>5, <1>6, <1>7, <1>8, <1>9, <1>10, <1>11,
       <1>12, <1>13, <1>14, <1>15, <1>16, <1>17, <1>18, <1>19, <1>20, <1>21,
       <1>22
    DEF Next, HostStep, LuaStep, SessionStep

(* No step raises the flag of fuel exhaustion inside a call: run_cell      *)
(* lowers it and only the return of a Done cell raises it.                 *)
LEMMA FuelFlagStep ==
  ASSUME TypeOK, TypeOK', FuelFlag, [Next]_vars
  PROVE  FuelFlag'
  <1> USE DEF FuelFlag, TypeOK, AfterTakeResult, FUEL_PER_STEP, hostState,
              call, history, Pending, InCall, AwaitsAnswer, CellOf, ThisCell
  <1>1. CASE RunCell
    BY <1>1 DEF RunCell, EnterStep, ResetHostState
  <1>2. CASE RunCellCompileError
    BY <1>2 DEF RunCellCompileError, ResetHostState, Failed, RunResult
  <1>3. CASE ResumeWithoutExecutor
    BY <1>3 DEF ResumeWithoutExecutor, Failed, RunResult
  <1>4. CASE ResumeInvalidJson
    BY <1>4 DEF ResumeInvalidJson, Failed, RunResult
  <1>5. ASSUME NEW ok \in BOOLEAN, ResumeSuspended(ok) PROVE FuelFlag'
    BY <1>5 DEF ResumeSuspended, EnterStep
  <1>6. CASE ResumeNotSuspended
    BY <1>6 DEF ResumeNotSuspended, Failed, RunResult
  <1>7. CASE ResumeErrNotSuspended
    BY <1>7 DEF ResumeErrNotSuspended
  <1>8. CASE Cancel
    BY <1>8 DEF Cancel
  <1>9. CASE Reset
    BY <1>9 DEF Reset
  <1>10. ASSUME NEW limit \in FuelLimits, SetFuelLimit(limit) PROVE FuelFlag'
    BY <1>10 DEF SetFuelLimit
  <1>11. CASE RestorePendingCommand
    BY <1>11 DEF RestorePendingCommand
  <1>12. ASSUME NEW n \in Slices, LuaSlice(n) PROVE FuelFlag'
    BY <1>12 DEF LuaSlice, Running, Burn
  <1>13. ASSUME NEW n \in Slices, Finish(n) PROVE FuelFlag'
    BY <1>13 DEF Finish, Running, Burn
  <1>14. CASE ResumeCoroutine
    BY <1>14 DEF ResumeCoroutine, Running, Burn
  <1>15. CASE HostCall
    BY <1>15 DEF HostCall, Running, Burn
  <1>16. CASE PlainYield
    BY <1>16 DEF PlainYield, Running, Burn
  <1>17. CASE StrictModeError
    BY <1>17 DEF StrictModeError, Running, Burn
  <1>18. CASE StepReturnsTrue
    BY <1>18 DEF StepReturnsTrue
  <1>19. CASE ReturnCancelled
    BY <1>19 DEF ReturnCancelled, Failed, RunResult, LeaveCall
  <1>20. CASE ReturnAsyncPending
    BY <1>20 DEF ReturnAsyncPending, HandOver, LeaveCall, RunResult
  <1>21. CASE ReturnDone
    BY <1>21 DEF ReturnDone, CompleteCell, LeaveCall, RunResult
  <1>22. CASE UNCHANGED vars
    BY <1>22 DEF vars
  <1> QED
    BY <1>1, <1>2, <1>3, <1>4, <1>5, <1>6, <1>7, <1>8, <1>9, <1>10, <1>11,
       <1>12, <1>13, <1>14, <1>15, <1>16, <1>17, <1>18, <1>19, <1>20, <1>21,
       <1>22
    DEF Next, HostStep, LuaStep, SessionStep

(* Only HostCall on the main thread records a command of depth 0, and it   *)
(* leaves the executor in that yield until the call returns.               *)
LEMMA MainCallYieldedStep ==
  ASSUME TypeOK, TypeOK', CommandsReached, MainCallYielded, [Next]_vars
  PROVE  MainCallYielded'
  <1> USE DEF MainCallYielded, CommandsReached, Reached, TypeOK,
              AfterTakeResult, Command, hostState, call, history, Pending,
              InCall, AwaitsAnswer, CellOf, ThisCell
  <1>1. CASE RunCell
    BY <1>1 DEF RunCell, EnterStep, ResetHostState
  <1>2. CASE RunCellCompileError
    BY <1>2 DEF RunCellCompileError, ResetHostState, Failed, RunResult
  <1>3. CASE ResumeWithoutExecutor
    BY <1>3 DEF ResumeWithoutExecutor, Failed, RunResult
  <1>4. CASE ResumeInvalidJson
    BY <1>4 DEF ResumeInvalidJson, Failed, RunResult
  <1>5. ASSUME NEW ok \in BOOLEAN, ResumeSuspended(ok) PROVE MainCallYielded'
    BY <1>5 DEF ResumeSuspended, EnterStep
  <1>6. CASE ResumeNotSuspended
    BY <1>6 DEF ResumeNotSuspended, Failed, RunResult
  <1>7. CASE ResumeErrNotSuspended
    BY <1>7 DEF ResumeErrNotSuspended
  <1>8. CASE Cancel
    BY <1>8 DEF Cancel
  <1>9. CASE Reset
    BY <1>9 DEF Reset
  <1>10. ASSUME NEW limit \in FuelLimits, SetFuelLimit(limit)
         PROVE  MainCallYielded'
    BY <1>10 DEF SetFuelLimit
  <1>11. CASE RestorePendingCommand
    BY <1>11 DEF RestorePendingCommand
  <1>12. ASSUME NEW n \in Slices, LuaSlice(n) PROVE MainCallYielded'
    BY <1>12 DEF LuaSlice, Running, Burn
  <1>13. ASSUME NEW n \in Slices, Finish(n) PROVE MainCallYielded'
    BY <1>13 DEF Finish, Running, Burn
  <1>14. CASE ResumeCoroutine
    BY <1>14 DEF ResumeCoroutine, Running, Burn
  <1>15. CASE HostCall
    BY <1>15 DEF HostCall, Running, Burn
  <1>16. CASE PlainYield
    BY <1>16 DEF PlainYield, Running, Burn
  <1>17. CASE StrictModeError
    BY <1>17 DEF StrictModeError, Running, Burn
  <1>18. CASE StepReturnsTrue
    BY <1>18 DEF StepReturnsTrue
  <1>19. CASE ReturnCancelled
    BY <1>19 DEF ReturnCancelled, Failed, RunResult, LeaveCall
  <1>20. CASE ReturnAsyncPending
    BY <1>20 DEF ReturnAsyncPending, HandOver, LeaveCall, RunResult
  <1>21. CASE ReturnDone
    BY <1>21 DEF ReturnDone, CompleteCell, LeaveCall, RunResult
  <1>22. CASE UNCHANGED vars
    BY <1>22 DEF vars
  <1> QED
    BY <1>1, <1>2, <1>3, <1>4, <1>5, <1>6, <1>7, <1>8, <1>9, <1>10, <1>11,
       <1>12, <1>13, <1>14, <1>15, <1>16, <1>17, <1>18, <1>19, <1>20, <1>21,
       <1>22
    DEF Next, HostStep, LuaStep, SessionStep

(* A command pending in a call has a known origin after every step of it.  *)
LEMMA PendingAccountedStep ==
  ASSUME TypeOK, TypeOK', PendingAccounted, LeftoverOnlyFromCutCell,
     [Next]_vars
  PROVE  PendingAccounted'
  <1> USE DEF PendingAccounted, LeftoverOnlyFromCutCell, AfterTakeResult,
              hostState, call, history, Pending, InCall, AwaitsAnswer,
              CellOf, ThisCell
  <1>1. CASE RunCell
    BY <1>1 DEF RunCell, EnterStep, ResetHostState
  <1>2. CASE RunCellCompileError
    BY <1>2 DEF RunCellCompileError, ResetHostState, Failed, RunResult
  <1>3. CASE ResumeWithoutExecutor
    BY <1>3 DEF ResumeWithoutExecutor, Failed, RunResult
  <1>4. CASE ResumeInvalidJson
    BY <1>4 DEF ResumeInvalidJson, Failed, RunResult
  <1>5. ASSUME NEW ok \in BOOLEAN, ResumeSuspended(ok) PROVE PendingAccounted'
    BY <1>5 DEF ResumeSuspended, EnterStep
  <1>6. CASE ResumeNotSuspended
    BY <1>6 DEF ResumeNotSuspended, Failed, RunResult
  <1>7. CASE ResumeErrNotSuspended
    BY <1>7 DEF ResumeErrNotSuspended
  <1>8. CASE Cancel
    BY <1>8 DEF Cancel
  <1>9. CASE Reset
    BY <1>9 DEF Reset
  <1>10. ASSUME NEW limit \in FuelLimits, SetFuelLimit(limit)
         PROVE  PendingAccounted'
    BY <1>10 DEF SetFuelLimit
  <1>11. CASE RestorePendingCommand
    BY <1>11 DEF RestorePendingCommand
  <1>12. ASSUME NEW n \in Slices, LuaSlice(n) PROVE PendingAccounted'
    BY <1>12 DEF LuaSlice, Running, Burn
  <1>13. ASSUME NEW n \in Slices, Finish(n) PROVE PendingAccounted'
    BY <1>13 DEF Finish, Running, Burn
  <1>14. CASE ResumeCoroutine
    BY <1>14 DEF ResumeCoroutine, Running, Burn
  <1>15. CASE HostCall
    BY <1>15 DEF HostCall, Running, Burn
  <1>16. CASE PlainYield
    BY <1>16 DEF PlainYield, Running, Burn
  <1>17. CASE StrictModeError
    BY <1>17 DEF StrictModeError, Running, Burn
  <1>18. CASE StepReturnsTrue
    BY <1>18 DEF StepReturnsTrue
  <1>19. CASE ReturnCancelled
    BY <1>19 DEF ReturnCancelled, Failed, RunResult, LeaveCall
  <1>20. CASE ReturnAsyncPending
    BY <1>20 DEF ReturnAsyncPending, HandOver, LeaveCall, RunResult
  <1>21. CASE ReturnDone
    BY <1>21 DEF ReturnDone, CompleteCell, LeaveCall, RunResult
  <1>22. CASE UNCHANGED vars
    BY <1>22 DEF vars
  <1> QED
    BY <1>1, <1>2, <1>3, <1>4, <1>5, <1>6, <1>7, <1>8, <1>9, <1>10, <1>11,
       <1>12, <1>13, <1>14, <1>15, <1>16, <1>17, <1>18, <1>19, <1>20, <1>21,
       <1>22
    DEF Next, HostStep, LuaStep, SessionStep

(* A call that returns Done with a command pending has cut its cell short. *)
LEMMA LeftoverStep ==
  ASSUME TypeOK, TypeOK', PendingAccounted, LeftoverOnlyFromCutCell,
     [Next]_vars
  PROVE  LeftoverOnlyFromCutCell'
  <1> USE DEF PendingAccounted, LeftoverOnlyFromCutCell, AfterTakeResult,
              hostState, call, history, Pending, InCall, AwaitsAnswer,
              CellOf, ThisCell
  <1>1. CASE RunCell
    BY <1>1 DEF RunCell, EnterStep, ResetHostState
  <1>2. CASE RunCellCompileError
    BY <1>2 DEF RunCellCompileError, ResetHostState, Failed, RunResult
  <1>3. CASE ResumeWithoutExecutor
    BY <1>3 DEF ResumeWithoutExecutor, Failed, RunResult
  <1>4. CASE ResumeInvalidJson
    BY <1>4 DEF ResumeInvalidJson, Failed, RunResult
  <1>5. ASSUME NEW ok \in BOOLEAN, ResumeSuspended(ok)
        PROVE  LeftoverOnlyFromCutCell'
    BY <1>5 DEF ResumeSuspended, EnterStep
  <1>6. CASE ResumeNotSuspended
    BY <1>6 DEF ResumeNotSuspended, Failed, RunResult
  <1>7. CASE ResumeErrNotSuspended
    BY <1>7 DEF ResumeErrNotSuspended
  <1>8. CASE Cancel
    BY <1>8 DEF Cancel
  <1>9. CASE Reset
    BY <1>9 DEF Reset
  <1>10. ASSUME NEW limit \in FuelLimits, SetFuelLimit(limit)
         PROVE  LeftoverOnlyFromCutCell'
    BY <1>10 DEF SetFuelLimit
  <1>11. CASE RestorePendingCommand
    BY <1>11 DEF RestorePendingCommand
  <1>12. ASSUME NEW n \in Slices, LuaSlice(n) PROVE LeftoverOnlyFromCutCell'
    BY <1>12 DEF LuaSlice, Running, Burn
  <1>13. ASSUME NEW n \in Slices, Finish(n) PROVE LeftoverOnlyFromCutCell'
    BY <1>13 DEF Finish, Running, Burn
  <1>14. CASE ResumeCoroutine
    BY <1>14 DEF ResumeCoroutine, Running, Burn
  <1>15. CASE HostCall
    BY <1>15 DEF HostCall, Running, Burn
  <1>16. CASE PlainYield
    BY <1>16 DEF PlainYield, Running, Burn
  <1>17. CASE StrictModeError
    BY <1>17 DEF StrictModeError, Running, Burn
  <1>18. CASE StepReturnsTrue
    BY <1>18 DEF StepReturnsTrue
  <1>19. CASE ReturnCancelled
    BY <1>19 DEF ReturnCancelled, Failed, RunResult, LeaveCall
  <1>20. CASE ReturnAsyncPending
    BY <1>20 DEF ReturnAsyncPending, HandOver, LeaveCall, RunResult
  <1>21. CASE ReturnDone
    BY <1>21 DEF ReturnDone, CompleteCell, LeaveCall, RunResult
  <1>22. CASE UNCHANGED vars
    BY <1>22 DEF vars
  <1> QED
    BY <1>1, <1>2, <1>3, <1>4, <1>5, <1>6, <1>7, <1>8, <1>9, <1>10, <1>11,
       <1>12, <1>13, <1>14, <1>15, <1>16, <1>17, <1>18, <1>19, <1>20, <1>21,
       <1>22
    DEF Next, HostStep, LuaStep, SessionStep

(* A command handed over is answered in the yield it came from: the host   *)
(* changes neither the executor nor the cell before it answers.            *)
LEMMA FreshStep ==
  ASSUME TypeOK, TypeOK', CommandsReached, MainCallYielded,
     FreshCommandResumable, [Next]_vars
  PROVE  FreshCommandResumable'
  <1> USE DEF MainCallYielded, CommandsReached, Reached,
              FreshCommandResumable, TypeOK, AfterTakeResult, Command,
              hostState, call, history, Pending, InCall, AwaitsAnswer,
              CellOf, ThisCell
  <1>1. CASE RunCell
    BY <1>1 DEF RunCell, EnterStep, ResetHostState
  <1>2. CASE RunCellCompileError
    BY <1>2 DEF RunCellCompileError, ResetHostState, Failed, RunResult
  <1>3. CASE ResumeWithoutExecutor
    BY <1>3 DEF ResumeWithoutExecutor, Failed, RunResult
  <1>4. CASE ResumeInvalidJson
    BY <1>4 DEF ResumeInvalidJson, Failed, RunResult
  <1>5. ASSUME NEW ok \in BOOLEAN, ResumeSuspended(ok)
        PROVE  FreshCommandResumable'
    BY <1>5 DEF ResumeSuspended, EnterStep
  <1>6. CASE ResumeNotSuspended
    BY <1>6 DEF ResumeNotSuspended, Failed, RunResult
  <1>7. CASE ResumeErrNotSuspended
    BY <1>7 DEF ResumeErrNotSuspended
  <1>8. CASE Cancel
    BY <1>8 DEF Cancel
  <1>9. CASE Reset
    BY <1>9 DEF Reset
  <1>10. ASSUME NEW limit \in FuelLimits, SetFuelLimit(limit)
         PROVE  FreshCommandResumable'
    BY <1>10 DEF SetFuelLimit
  <1>11. CASE RestorePendingCommand
    BY <1>11 DEF RestorePendingCommand
  <1>12. ASSUME NEW n \in Slices, LuaSlice(n) PROVE FreshCommandResumable'
    BY <1>12 DEF LuaSlice, Running, Burn
  <1>13. ASSUME NEW n \in Slices, Finish(n) PROVE FreshCommandResumable'
    BY <1>13 DEF Finish, Running, Burn
  <1>14. CASE ResumeCoroutine
    BY <1>14 DEF ResumeCoroutine, Running, Burn
  <1>15. CASE HostCall
    BY <1>15 DEF HostCall, Running, Burn
  <1>16. CASE PlainYield
    BY <1>16 DEF PlainYield, Running, Burn
  <1>17. CASE StrictModeError
    BY <1>17 DEF StrictModeError, Running, Burn
  <1>18. CASE StepReturnsTrue
    BY <1>18 DEF StepReturnsTrue
  <1>19. CASE ReturnCancelled
    BY <1>19 DEF ReturnCancelled, Failed, RunResult, LeaveCall
  <1>20. CASE ReturnAsyncPending
    BY <1>20 DEF ReturnAsyncPending, HandOver, LeaveCall, RunResult
  <1>21. CASE ReturnDone
    BY <1>21 DEF ReturnDone, CompleteCell, LeaveCall, RunResult
  <1>22. CASE UNCHANGED vars
    BY <1>22 DEF vars
  <1> QED
    BY <1>1, <1>2, <1>3, <1>4, <1>5, <1>6, <1>7, <1>8, <1>9, <1>10, <1>11,
       <1>12, <1>13, <1>14, <1>15, <1>16, <1>17, <1>18, <1>19, <1>20, <1>21,
       <1>22
    DEF Next, HostStep, LuaStep, SessionStep

(* No step invents a command: call_ids only grow within an epoch, so a new *)
(* command differs from those handed over and those given back.            *)
LEMMA CommandsStep ==
  ASSUME TypeOK, TypeOK', CommandsReached, [Next]_vars
  PROVE  CommandsReached'
  <1> USE DEF CommandsReached, Reached, TypeOK, AfterTakeResult, Command,
              hostState, call, history, Pending, InCall, AwaitsAnswer,
              CellOf, ThisCell
  <1>1. CASE RunCell
    <2>1. /\ execution_count' = execution_count + 1
          /\ UNCHANGED <<pending_async_command, async_call_counter, result,
                         epoch, handed, givenBack>>
      BY <1>1 DEF RunCell
    <2>2. \A c \in Command : Reached(c) => Reached(c)'
      BY <2>1
    <2>3. result.status = "AsyncPending" => result.pending_command \in Command
      BY DEF DoneResults, AsyncPendingResults
    <2> QED
      BY <2>1, <2>2, <2>3
  <1>2. CASE RunCellCompileError
    BY <1>2 DEF RunCellCompileError, ResetHostState, Failed, RunResult
  <1>3. CASE ResumeWithoutExecutor
    BY <1>3 DEF ResumeWithoutExecutor, Failed, RunResult
  <1>4. CASE ResumeInvalidJson
    BY <1>4 DEF ResumeInvalidJson, Failed, RunResult
  <1>5. ASSUME NEW ok \in BOOLEAN, ResumeSuspended(ok) PROVE CommandsReached'
    BY <1>5 DEF ResumeSuspended, EnterStep
  <1>6. CASE ResumeNotSuspended
    BY <1>6 DEF ResumeNotSuspended, Failed, RunResult
  <1>7. CASE ResumeErrNotSuspended
    BY <1>7 DEF ResumeErrNotSuspended
  <1>8. CASE Cancel
    BY <1>8 DEF Cancel
  <1>9. CASE Reset
    <2>1. /\ epoch' = epoch + 1 /\ pending_async_command' = NoCommand
          /\ UNCHANGED <<result, handed, givenBack>>
      BY <1>9 DEF Reset
    <2>2. \A c \in Command : Reached(c) => Reached(c)'
      BY <2>1
    <2>3. result.status = "AsyncPending" => result.pending_command \in Command
      BY DEF DoneResults, AsyncPendingResults
    <2> QED
      BY <2>1, <2>2, <2>3
  <1>10. ASSUME NEW limit \in FuelLimits, SetFuelLimit(limit)
         PROVE  CommandsReached'
    BY <1>10 DEF SetFuelLimit
  <1>11. CASE RestorePendingCommand
    BY <1>11 DEF RestorePendingCommand
  <1>12. ASSUME NEW n \in Slices, LuaSlice(n) PROVE CommandsReached'
    BY <1>12 DEF LuaSlice, Running, Burn
  <1>13. ASSUME NEW n \in Slices, Finish(n) PROVE CommandsReached'
    BY <1>13 DEF Finish, Running, Burn
  <1>14. CASE ResumeCoroutine
    BY <1>14 DEF ResumeCoroutine, Running, Burn
  <1>15. CASE HostCall
    <2>1. /\ pending_async_command'
                = [epoch |-> epoch, cell |-> execution_count,
                   call_id |-> async_call_counter + 1, depth |-> depth]
          /\ async_call_counter' = async_call_counter + 1
          /\ UNCHANGED <<execution_count, result, epoch, handed, givenBack>>
      BY <1>15 DEF HostCall
    <2>2. \A c \in Command : Reached(c) => Reached(c)'
      BY <2>1
    <2>3. pending_async_command' \notin handed
      BY <2>1
    <2>4. Reached(pending_async_command)'
      BY <2>1
    <2>5. result.status = "AsyncPending" => result.pending_command \in Command
      BY DEF DoneResults, AsyncPendingResults
    <2> QED
      BY <2>1, <2>2, <2>3, <2>4, <2>5
  <1>16. CASE PlainYield
    BY <1>16 DEF PlainYield, Running, Burn
  <1>17. CASE StrictModeError
    BY <1>17 DEF StrictModeError, Running, Burn
  <1>18. CASE StepReturnsTrue
    BY <1>18 DEF StepReturnsTrue
  <1>19. CASE ReturnCancelled
    BY <1>19 DEF ReturnCancelled, Failed, RunResult, LeaveCall
  <1>20. CASE ReturnAsyncPending
    BY <1>20 DEF ReturnAsyncPending, HandOver, LeaveCall, RunResult
  <1>21. CASE ReturnDone
    BY <1>21 DEF ReturnDone, CompleteCell, LeaveCall, RunResult
  <1>22. CASE UNCHANGED vars
    BY <1>22 DEF vars
  <1> QED
    BY <1>1, <1>2, <1>3, <1>4, <1>5, <1>6, <1>7, <1>8, <1>9, <1>10, <1>11,
       <1>12, <1>13, <1>14, <1>15, <1>16, <1>17, <1>18, <1>19, <1>20, <1>21,
       <1>22
    DEF Next, HostStep, LuaStep, SessionStep

-----------------------------------------------------------------------------
(* The theorems.                                                           *)

(* The inductive invariant holds of a session just built.                  *)
LEMMA IInvInit == Init => IInv
  <1> SUFFICES ASSUME Init PROVE IInv
    OBVIOUS
  <1>1. TypeOK
    BY TypeInit
  <1>2. CommandsReached /\ MainCallYielded /\ PendingAccounted
    BY DEF Init, CommandsReached, MainCallYielded, PendingAccounted, Pending,
           InCall, RunResult
  <1>3. FuelFlag /\ FreshCommandResumable /\ LeftoverOnlyFromCutCell
    BY DEF Init, FuelFlag, FreshCommandResumable, LeftoverOnlyFromCutCell,
           InCall, AwaitsAnswer, RunResult
  <1> QED
    BY <1>1, <1>2, <1>3 DEF IInv

(* The inductive invariant is preserved: the conjuncts support each other. *)
LEMMA IInvStep == IInv /\ [Next]_vars => IInv'
  <1> SUFFICES ASSUME IInv, [Next]_vars PROVE IInv'
    OBVIOUS
  <1>1. TypeOK'
    BY TypeStep DEF IInv
  <1> QED
    BY <1>1, CommandsStep, MainCallYieldedStep, PendingAccountedStep,
       FuelFlagStep, FreshStep, LeftoverStep
    DEF IInv

(* The conjunction of the invariants is inductive, and so holds always.    *)
THEOREM Invariance == Spec => []IInv
  <1>1. Init => IInv
    BY IInvInit
  <1>2. IInv /\ [Next]_vars => IInv'
    BY IInvStep
  <1> QED
    BY <1>1, <1>2, PTL DEF Spec

(* Every variable has its type in every reachable state.                   *)
THEOREM TypeCorrect == Spec => []TypeOK
  <1>1. IInv => TypeOK
    BY DEF IInv
  <1> QED
    BY <1>1, Invariance, PTL

(* A command of this cell issued on the main thread is answered where it   *)
(* was issued.                                                             *)
THEOREM FreshCommandCorrect == Spec => []FreshCommandResumable
  <1>1. IInv => FreshCommandResumable
    BY DEF IInv
  <1> QED
    BY <1>1, Invariance, PTL

(* Only cells cut short and the host leave a command behind.               *)
THEOREM LeftoverCorrect == Spec => []LeftoverOnlyFromCutCell
  <1>1. IInv => LeftoverOnlyFromCutCell
    BY DEF IInv
  <1> QED
    BY <1>1, Invariance, PTL

(* No command is handed to the host twice.                                 *)
THEOREM HandedOnceCorrect == Spec => HandedAtMostOnce
  <1>1. IInv /\ [Next]_vars
        => [ReturnAsyncPending => pending_async_command \notin handed]_vars
    BY DEF IInv, CommandsReached, Pending, ReturnAsyncPending
  <1> QED
    BY <1>1, Invariance, PTL DEF Spec, HandedAtMostOnce

(* No cell of a cancelled session completes or asks the host for anything. *)
THEOREM CancelCorrect == Spec => CancelledSessionOnlyFails
  <1>1. [Next]_vars
        => [ /\ cancelled /\ cancelled'
             /\ result' # result
             => result'.error \in {"Cancelled", "Compile", "Internal"} ]_vars
    BY DEF Next, HostStep, LuaStep, SessionStep, vars, hostState, call,
           history, RunCell, RunCellCompileError, ResumeWithoutExecutor,
           ResumeInvalidJson, ResumeSuspended, ResumeNotSuspended,
           ResumeErrNotSuspended, Cancel, Reset, SetFuelLimit,
           RestorePendingCommand, LuaSlice, Finish, ResumeCoroutine, HostCall,
           PlainYield, StrictModeError, StepReturnsTrue, ReturnCancelled,
           ReturnAsyncPending, ReturnDone, Failed, RunResult
  <1> QED
    BY <1>1, PTL DEF Spec, CancelledSessionOnlyFails

(* Fuel exhaustion is reported of the call whose fuel ran out.             *)
THEOREM FuelErrorCorrect == Spec => FuelErrorOnlyWhenCut
  <1>1. IInv /\ [Next]_vars
        => [ result' # result /\ result'.fuel_exhausted => fuel <= 0 ]_vars
    <2> SUFFICES ASSUME IInv, Next, result' # result, result'.fuel_exhausted
                 PROVE  fuel <= 0
      BY DEF vars
    <2>1. ReturnDone
      BY DEF Next, HostStep, LuaStep, SessionStep, hostState, call,
           history, RunCell, RunCellCompileError, ResumeWithoutExecutor,
           ResumeInvalidJson, ResumeSuspended, ResumeNotSuspended,
           ResumeErrNotSuspended, Cancel, Reset, SetFuelLimit,
           RestorePendingCommand, LuaSlice, Finish, ResumeCoroutine, HostCall,
           PlainYield, StrictModeError, StepReturnsTrue, ReturnCancelled,
           ReturnAsyncPending, HandOver, Failed, RunResult
    <2>2. ~fuel_exhausted
      BY <2>1 DEF IInv, FuelFlag, InCall, ReturnDone
    <2>3. result'.fuel_exhausted = (fuel_exhausted \/ ~done)
      BY <2>1 DEF ReturnDone, CompleteCell, RunResult
    <2> QED
      BY <2>1, <2>2, <2>3 DEF IInv, FuelFlag, ReturnDone
  <1> QED
    BY <1>1, Invariance, PTL DEF Spec, FuelErrorOnlyWhenCut

(* Executor::take_result takes a result or changes nothing.                *)
LEMMA TakesOrKeeps ==
    \/ AfterTakeResult = executor
    \/ executor = "Yielded" /\ AfterTakeResult = "Suspended"
    \/ executor \in {"Returned", "Errored"} /\ AfterTakeResult = "Stopped"
  BY DEF AfterTakeResult

(* Every step of the session maps to an operation of the abstract executor *)
(* or leaves the executor alone.                                           *)
LEMMA ContractStep ==
    TypeOK /\ [Next]_vars => [Contract!Next]_(Contract!vars)
  <1> SUFFICES ASSUME TypeOK, [Next]_vars
               PROVE  Contract!Next \/ UNCHANGED Contract!vars
    OBVIOUS
  <1> USE DEF Contract!Next, Contract!vars, Contract!HostCalls, abstractStep
  <1>1. CASE RunCell
    BY <1>1 DEF RunCell, EnterStep, Contract!Start
  <1>2. CASE \E ok \in BOOLEAN : ResumeSuspended(ok)
    <2>1. executor \in {"Suspended", "Yielded"}
      BY <1>2 DEF ResumeSuspended, AfterTakeResult
    <2> QED
      BY <1>2, <2>1 DEF ResumeSuspended, AwaitsAnswer, EnterStep,
                        Contract!Resume
  <1>3. CASE ResumeNotSuspended \/ ResumeErrNotSuspended
    BY <1>3, TakesOrKeeps
    DEF ResumeNotSuspended, ResumeErrNotSuspended, AwaitsAnswer, call,
        Contract!TakeResult
  <1>4. CASE ReturnDone
    BY <1>4, TakesOrKeeps
    DEF ReturnDone, CompleteCell, LeaveCall, Contract!TakeResult,
        Contract!Seen
  <1>5. CASE Reset
    BY <1>5 DEF Reset, call, Contract!Drop
  <1>6. CASE \E n \in Slices : LuaSlice(n) \/ Finish(n)
    BY <1>6 DEF LuaSlice, Finish, Running, Burn, Contract!Iterate,
                Contract!ResultModes
  <1>7. CASE ResumeCoroutine
    BY <1>7 DEF ResumeCoroutine, Running, Burn, TypeOK, Contract!Iterate
  <1>8. CASE HostCall
    BY <1>8 DEF HostCall, Running, Burn, TypeOK, Contract!Iterate,
                Contract!ResultModes
  <1>9. CASE PlainYield
    BY <1>9 DEF PlainYield, Running, Burn, Contract!Iterate,
                Contract!ResultModes
  <1>10. CASE StrictModeError
    BY <1>10 DEF StrictModeError, Running, Burn, TypeOK, Contract!Iterate
  <1>11. CASE StepReturnsTrue
    BY <1>11 DEF StepReturnsTrue, Contract!ReturnTrue
  <1>12. CASE ReturnCancelled \/ ReturnAsyncPending
    BY <1>12 DEF ReturnCancelled, ReturnAsyncPending, HandOver, LeaveCall,
                 Contract!Seen
  <1>13. CASE \/ RunCellCompileError \/ ResumeWithoutExecutor
              \/ ResumeInvalidJson \/ Cancel \/ RestorePendingCommand
              \/ \E limit \in FuelLimits : SetFuelLimit(limit)
              \/ UNCHANGED vars
    BY <1>13 DEF RunCellCompileError, ResumeWithoutExecutor,
                 ResumeInvalidJson, Cancel, RestorePendingCommand,
                 SetFuelLimit, call, vars
  <1> QED
    BY <1>1, <1>2, <1>3, <1>4, <1>5, <1>6, <1>7, <1>8, <1>9, <1>10, <1>11,
       <1>12, <1>13
    DEF Next, HostStep, LuaStep, SessionStep

(* The session drives the executor as ExecutorContract allows, and assumes *)
(* no more of it.                                                          *)
THEOREM SessionUsesContract == Spec => UsesContract
  <1>1. Init => Contract!Init
    BY DEF Init, Contract!Init, abstractStep
  <1> QED
    BY <1>1, ContractStep, TypeCorrect, PTL DEF Spec, UsesContract, Contract!Spec

=============================================================================
