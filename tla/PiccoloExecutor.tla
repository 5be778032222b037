--------------------------- MODULE PiccoloExecutor ---------------------------
(***************************************************************************)
(* crates/piccolo/src/thread: threads (coroutines), their stacks of frames *)
(* and values, and the executor that drives a stack of threads.  One       *)
(* action is one iteration of the loop of Executor::step, by the kind of   *)
(* frame it finds and by what the frame does; which callback, sequence or  *)
(* Lua code runs is not known, so each outcome the types allow may occur.  *)
(*                                                                         *)
(* Values are abstracted to how many lie on the stack of a thread.  The    *)
(* registers of a Lua frame are one slot, at its bottom; what lies above   *)
(* the bottom of a callback or a sequence is its own affair and counts     *)
(* only once it hands it over.  Fuel is abstracted to the choice, after    *)
(* every iteration, whether the loop goes on.                              *)
(***************************************************************************)
EXTENDS Integers, SequencesExt

CONSTANTS
    Threads,    \* the threads that may exist at one time
    MaxFrames,  \* bound: Lua, Callback and Sequence frames of a thread
    MaxBottom,  \* bound: the bottom of a frame pushed by a call
    MaxValues   \* bound: values a frame hands over

ASSUME ConstantsAssumption ==
    /\ MaxFrames \in Nat \ {0}
    /\ MaxBottom \in Nat
    /\ MaxValues \in Nat

VARIABLES
    thread_stack,  \* ExecutorState.thread_stack, the main thread first
    state,         \* the ThreadState of each thread
    step,          \* "running", or what the last step returned, or "idle"
    abandoned      \* history: unfinished threads of replaced executors

vars == <<thread_stack, state, step, abandoned>>

-----------------------------------------------------------------------------
(* Threads.                                                                *)

FrameKinds == {"Lua", "Callback", "Sequence", "Start", "Yielded",
               "WaitThread", "Result", "Error"}

(* pending is expected_return.is_some() of a Lua frame, and                *)
(* pending_error.is_some() of a Sequence; handed is history: where the     *)
(* values began that a Sequence handed over last.                          *)
Frame(kind, bottom) ==
    [kind |-> kind, bottom |-> bottom, pending |-> FALSE, handed |-> bottom]

Marked(frame) == [frame EXCEPT !.pending = TRUE]

NewThread == [frames |-> <<>>, stack |-> 0, open |-> {}]

Push(ts, frame) == [ts EXCEPT !.frames = Append(@, frame)]
Pop(ts) == [ts EXCEPT !.frames = Front(@)]
Truncate(ts, bottom) == [ts EXCEPT !.stack = bottom]
Give(ts, n) == [ts EXCEPT !.stack = @ + n]
CloseUpvalues(ts, bottom) == [ts EXCEPT !.open = {i \in @ : i < bottom}]

Mode(ts) ==
    IF ts.frames = <<>> THEN "Stopped" ELSE
    CASE Last(ts.frames).kind \in {"Lua", "Callback", "Sequence"} -> "Normal"
      [] Last(ts.frames).kind \in {"Start", "Yielded"} -> "Suspended"
      [] Last(ts.frames).kind = "WaitThread" -> "Waiting"
      [] Last(ts.frames).kind = "Result" -> "Result"
      [] Last(ts.frames).kind = "Error" ->
            IF Len(ts.frames) = 1 THEN "Result" ELSE "Normal"

(* The values of a frame that runs: its registers, or nothing that counts. *)
Settled(ts) ==
    LET frame == Last(ts.frames)
    IN  Truncate(ts, frame.bottom + IF frame.kind = "Lua" THEN 1 ELSE 0)

PushCall(ts, bottom, function) == Settled(Push(ts, Frame(function, bottom)))

(* The values from bottom on are the results.  A Lua frame takes them and  *)
(* expects no more, a sequence finds them there; without a frame they are  *)
(* the result of the thread.                                               *)
ReturnTo(ts, bottom) ==
    IF ts.frames = <<>> THEN Push(ts, Frame("Result", bottom)) ELSE
    IF Last(ts.frames).kind = "Lua"
    THEN Settled(Push(Pop(ts), Frame("Lua", Last(ts.frames).bottom)))
    ELSE Truncate(ts, bottom)

TakeResultOf(ts) ==
    IF Last(ts.frames).kind = "Result"
    THEN Truncate(Pop(ts), Last(ts.frames).bottom)
    ELSE Pop(ts)

(* Thread::resume of a suspended thread with n values.                     *)
Resumed(ts, n, function) ==
    LET woken == Give(Pop(ts), n)
    IN  IF Last(ts.frames).kind = "Start" THEN PushCall(woken, 0, function)
                                          ELSE ReturnTo(woken, ts.stack)

Fits(ts) == Len(ts.frames) <= MaxFrames /\ Last(ts.frames).bottom <= MaxBottom

Free(t) == state[t] = NewThread /\ t \notin ToSet(thread_stack)

Init ==
    /\ thread_stack = <<>>
    /\ state = [t \in Threads |-> NewThread]
    /\ step = "idle"
    /\ abandoned = {}

-----------------------------------------------------------------------------
(* One iteration of Executor::step.                                        *)

Top == Last(thread_stack)
TopFrame == Last(state[Top].frames)
Under == Pop(state[Top])

Stepping(kinds) ==
    /\ step = "running"
    /\ Mode(state[Top]) = "Normal"
    /\ TopFrame.kind \in kinds

(* The fuel lasts for another iteration, or not.                           *)
EndIteration == step' \in {"running", "false"} /\ UNCHANGED abandoned

SetTop(ts) == state' = [state EXCEPT ![Top] = ts]

(* A callback or a poll of a sequence is over: n values lie above the      *)
(* bottom of its frame.                                                    *)
Left(n) == Truncate(Under, TopFrame.bottom + n)

(* It may hand control on for good, or keep a Sequence frame to come back  *)
(* to; a sequence that stays chooses which values it hands on, a callback  *)
(* hands on all of them.                                                   *)
Handovers ==
    LET b == TopFrame.bottom
        offsets(n) == IF TopFrame.kind = "Callback" THEN {0} ELSE 0..n
    IN  UNION {
          {[ts |-> Left(n), bottom |-> b]} \cup
          {[ts |-> Push(Left(n), [Frame("Sequence", b) EXCEPT !.handed = b + r]),
            bottom |-> b + r] : r \in offsets(n)} : n \in 0..MaxValues}

HostReturn(n) ==
    /\ Stepping({"Callback", "Sequence"})
    /\ SetTop(ReturnTo(Left(n), TopFrame.bottom))
    /\ EndIteration /\ UNCHANGED thread_stack

(* CallbackReturn::Sequence, SequencePoll::Pending.                        *)
HostContinues ==
    /\ Stepping({"Callback", "Sequence"})
    /\ SetTop(Push(Left(0), Frame("Sequence", TopFrame.bottom)))
    /\ EndIteration /\ UNCHANGED thread_stack

HostCalls(h, function) ==
    /\ Stepping({"Callback", "Sequence"})
    /\ LET ts == PushCall(h.ts, h.bottom, function)
       IN  Fits(ts) /\ SetTop(ts)
    /\ EndIteration /\ UNCHANGED thread_stack

HostErrorKeepsValues ==  \* mutant: the values above the bottom stay
    /\ Stepping({"Callback", "Sequence"})
    /\ SetTop(Push(Left(MaxValues), Frame("Error", 0)))
    /\ EndIteration /\ UNCHANGED thread_stack

HostError ==
    /\ Stepping({"Callback", "Sequence"})
    /\ SetTop(Push(Left(0), Frame("Error", 0)))
    /\ EndIteration /\ UNCHANGED thread_stack

(* coroutine.create: the callback returns a new suspended thread.          *)
CreateCoroutine(u) ==
    /\ Stepping({"Callback"})
    /\ Free(u)
    /\ state' = [state EXCEPT ![Top] = ReturnTo(Left(1), TopFrame.bottom),
                              ![u] = Push(NewThread, Frame("Start", 0))]
    /\ EndIteration /\ UNCHANGED thread_stack

(* A yield to whoever resumed the thread: the values are its result.       *)
HostYields(h) ==
    /\ Stepping({"Callback", "Sequence"})
    /\ SetTop(Push(Push(h.ts, Frame("Yielded", 0)), Frame("Result", h.bottom)))
    /\ EndIteration /\ UNCHANGED thread_stack

(* The thread on top is borrowed while it runs: its mode is Running.       *)
Resumable(u) == u # Top /\ Mode(state[u]) = "Suspended"

(* A thread that cannot be resumed is an error of the caller.  The values  *)
(* are gone from its stack in any case.                                    *)
HostResumeFails(h, u) ==
    /\ Stepping({"Callback", "Sequence"})
    /\ ~Resumable(u)
    /\ SetTop(Push(Truncate(h.ts, h.bottom), Frame("Error", 0)))
    /\ EndIteration /\ UNCHANGED thread_stack

(* The values go to u; the caller keeps those below, and ts of its frames. *)
HandOn(h, u, function, ts) ==
    /\ state' = [state EXCEPT
                   ![Top] = Truncate(ts, h.bottom),
                   ![u] = Resumed(@, h.ts.stack - h.bottom, function)]
    /\ EndIteration

HostYieldsToKeepsThread(h, u, function) ==  \* mutant: the yielder stays below
    /\ Stepping({"Callback", "Sequence"})
    /\ Resumable(u)
    /\ HandOn(h, u, function, Push(h.ts, Frame("Yielded", 0)))
    /\ thread_stack' = Append(thread_stack, u)

(* do_yield to another thread, which takes the place of this one.          *)
HostYieldsTo(h, u, function) ==
    /\ Stepping({"Callback", "Sequence"})
    /\ Resumable(u)
    /\ HandOn(h, u, function, Push(h.ts, Frame("Yielded", 0)))
    /\ thread_stack' = Append(Front(thread_stack), u)

HostResumesAlwaysTail(h, u, function) ==  \* mutant: always a tail call
    /\ Stepping({"Callback", "Sequence"})
    /\ Resumable(u)
    /\ HandOn(h, u, function, h.ts)
    /\ thread_stack' = Append(Front(thread_stack), u)

(* do_resume: the thread waits for the other one, unless it has nothing    *)
(* left to do.                                                             *)
HostResumes(h, u, function) ==
    /\ Stepping({"Callback", "Sequence"})
    /\ Resumable(u)
    /\ IF h.ts.frames = <<>>
       THEN /\ HandOn(h, u, function, h.ts)
            /\ thread_stack' = Append(Front(thread_stack), u)
       ELSE /\ HandOn(h, u, function, Push(h.ts, Frame("WaitThread", 0)))
            /\ thread_stack' = Append(thread_stack, u)

(* A slice of Lua that calls nothing; it may open an upvalue in its        *)
(* registers, or close those it opened.                                    *)
LuaSlice ==
    /\ Stepping({"Lua"})
    /\ \/ UNCHANGED state
       \/ SetTop([state[Top] EXCEPT !.open = @ \cup {TopFrame.bottom}])
       \/ SetTop(CloseUpvalues(state[Top], TopFrame.bottom))
    /\ EndIteration /\ UNCHANGED thread_stack

LuaCallsUnmarked(bottom, function) ==  \* mutant: expected_return is not set
    /\ Stepping({"Lua"})
    /\ bottom \in {TopFrame.bottom, TopFrame.bottom + 1}
    /\ bottom \notin state[Top].open
    /\ LET ts == PushCall(state[Top], bottom, function)
       IN  Fits(ts) /\ SetTop(ts)
    /\ EndIteration /\ UNCHANGED thread_stack

(* call_function, call_function_keep, call_meta_function: the function     *)
(* lies in a register above every captured one, or above the registers.    *)
LuaCalls(bottom, function) ==
    /\ Stepping({"Lua"})
    /\ bottom \in {TopFrame.bottom, TopFrame.bottom + 1}
    /\ bottom \notin state[Top].open
    /\ LET ts == PushCall(Push(Under, Marked(TopFrame)), bottom, function)
       IN  Fits(ts) /\ SetTop(ts)
    /\ EndIteration /\ UNCHANGED thread_stack

(* tail_call_function, return_upper: the frame is gone, its upvalues are   *)
(* closed, the arguments or results are moved down to its bottom.          *)
LuaLeaves(n) == CloseUpvalues(Left(n), TopFrame.bottom)

LuaTailCalls(function) ==
    /\ Stepping({"Lua"})
    /\ SetTop(PushCall(LuaLeaves(0), TopFrame.bottom, function))
    /\ EndIteration /\ UNCHANGED thread_stack

LuaReturns(n) ==
    /\ Stepping({"Lua"})
    /\ SetTop(ReturnTo(LuaLeaves(n), TopFrame.bottom))
    /\ EndIteration /\ UNCHANGED thread_stack

LuaError ==
    /\ Stepping({"Lua"})
    /\ SetTop(Push(state[Top], Frame("Error", 0)))
    /\ EndIteration /\ UNCHANGED thread_stack

UnwoundLeavesOpen(frame, ts) ==  \* mutant: open upvalues are not closed
    IF frame.kind = "Lua"
    THEN Push(Truncate(ts, frame.bottom), Frame("Error", 0))
    ELSE Push(ts, Marked(frame))

Unwound(frame, ts) ==
    IF frame.kind = "Lua"
    THEN Push(Truncate(CloseUpvalues(ts, frame.bottom), frame.bottom),
              Frame("Error", 0))
    ELSE Push(ts, Marked(frame))

(* An error unwinds one frame: a Lua frame is dropped, a sequence is given *)
(* the error.                                                              *)
Unwind ==
    /\ Stepping({"Error"})
    /\ SetTop(Unwound(Last(Under.frames), Pop(Under)))
    /\ EndIteration /\ UNCHANGED thread_stack

DeliveredAsValues(from, to) ==  \* mutant: an error is delivered as a value
    ReturnTo(Give(Pop(to), 1), to.stack)

(* The head of the loop finds a finished thread above another: its result  *)
(* or its error goes to the thread that waits for it.  The same iteration  *)
(* then runs that thread, so the fuel is not looked at in between.         *)
Delivered(from, to) ==
    IF Last(from.frames).kind = "Error"
    THEN Push(Pop(to), Frame("Error", 0))
    ELSE LET vals == from.stack - Last(from.frames).bottom
         IN  ReturnTo(Give(Pop(to), vals), to.stack)

Deliver ==
    LET lower == Front(thread_stack)
    IN  /\ step = "running"
        /\ Mode(state[Top]) = "Result" /\ Len(thread_stack) > 1
        /\ thread_stack' = lower
        /\ state' = [state EXCEPT ![Top] = TakeResultOf(@),
                       ![Last(lower)] = Delivered(state[Top], @)]
        /\ UNCHANGED <<step, abandoned>>

StepReturnsTrueEarly ==  \* mutant: the threads below are not looked at
    /\ step = "running"
    /\ Mode(state[Top]) \in {"Stopped", "Suspended", "Result"}
    /\ step' = "true"
    /\ UNCHANGED <<thread_stack, state, abandoned>>

(* The main thread has nothing to run: step returns true.                  *)
StepReturnsTrue ==
    /\ step = "running"
    /\ Mode(state[Top]) \in {"Stopped", "Suspended", "Result"}
    /\ Len(thread_stack) = 1
    /\ step' = "true"
    /\ UNCHANGED <<thread_stack, state, abandoned>>

-----------------------------------------------------------------------------
(* The host, between two calls of step.                                    *)

Idle == step # "running" /\ step' = "idle"

Step ==
    /\ step # "running" /\ thread_stack # <<>>
    /\ step' = "running"
    /\ UNCHANGED <<thread_stack, state, abandoned>>

Unfinished == {"Normal", "Waiting", "Result"}

(* The executor now drives the threads of stack; those it or an earlier    *)
(* one left unfinished are driven by none.                                 *)
Abandon(stack) ==
    abandoned' = {t \in (abandoned \cup ToSet(thread_stack)) \ ToSet(stack) :
                    Mode(state'[t]) \in Unfinished}

(* Executor::start, with a new executor and a new thread.                  *)
Start(t, function) ==
    /\ Idle /\ Free(t)
    /\ state' = [state EXCEPT ![t] = PushCall(NewThread, 0, function)]
    /\ thread_stack' = <<t>>
    /\ Abandon(<<t>>)

(* Executor::run and Executor::reset of an existing thread.                *)
RunThread(t) ==
    /\ Idle /\ Mode(state[t]) # "Waiting"
    /\ UNCHANGED state
    /\ thread_stack' = <<t>>
    /\ Abandon(<<t>>)

Main == Head(thread_stack)

HostTakesResult ==
    /\ Idle /\ Len(thread_stack) = 1
    /\ Mode(state[Main]) = "Result"
    /\ state' = [state EXCEPT ![Main] = TakeResultOf(@)]
    /\ UNCHANGED <<thread_stack, abandoned>>

HostSuspended ==
    /\ Idle /\ Len(thread_stack) = 1
    /\ Mode(state[Main]) = "Suspended"

Resume(n, function) ==
    /\ HostSuspended
    /\ state' = [state EXCEPT ![Main] = Resumed(@, n, function)]
    /\ UNCHANGED <<thread_stack, abandoned>>

ResumeErr ==
    /\ HostSuspended
    /\ state' = [state EXCEPT ![Main] = Push(Pop(@), Frame("Error", 0))]
    /\ UNCHANGED <<thread_stack, abandoned>>

(* ThreadState::reset of the main thread alone.                            *)
Stop ==
    /\ Idle /\ thread_stack # <<>>
    /\ state' = [state EXCEPT ![Main] = NewThread]
    /\ thread_stack' = <<Main>>
    /\ Abandon(<<Main>>)

Restart(function) ==
    /\ Idle /\ thread_stack # <<>>
    /\ state' = [state EXCEPT ![Main] = PushCall(NewThread, 0, function)]
    /\ thread_stack' = <<Main>>
    /\ Abandon(<<Main>>)

(* The garbage collector drops a thread no executor drives.                *)
Collect(t) ==
    /\ t \notin ToSet(thread_stack) /\ state[t] # NewThread
    /\ state' = [state EXCEPT ![t] = NewThread]
    /\ abandoned' = abandoned \ {t}
    /\ UNCHANGED <<thread_stack, step>>

-----------------------------------------------------------------------------

Functions == {"Lua", "Callback"}

HostFrameStep ==
    \/ \E n \in 0..MaxValues : HostReturn(n)
    \/ HostContinues
    \/ HostError
    \/ \E u \in Threads : CreateCoroutine(u)
    \/ \E h \in Handovers :
         \/ HostYields(h)
         \/ \E function \in Functions : HostCalls(h, function)
         \/ \E u \in Threads : HostResumeFails(h, u)
         \/ \E u \in Threads, function \in Functions :
              HostYieldsTo(h, u, function) \/ HostResumes(h, u, function)

LuaFrameStep ==
    \/ LuaSlice
    \/ \E bottom \in 0..MaxBottom, function \in Functions :
         LuaCalls(bottom, function)
    \/ \E function \in Functions : LuaTailCalls(function)
    \/ \E n \in 0..MaxValues : LuaReturns(n)
    \/ LuaError

ExecutorStep ==
    \/ step = "running" /\ Mode(state[Top]) = "Normal" /\ HostFrameStep
    \/ LuaFrameStep
    \/ Unwind
    \/ Deliver
    \/ StepReturnsTrue

HostStep ==
    \/ Step
    \/ \E t \in Threads : RunThread(t)
    \/ HostTakesResult
    \/ \E function \in Functions :
         \/ \E t \in Threads : Start(t, function)
         \/ \E n \in 0..MaxValues : Resume(n, function)
         \/ Restart(function)
    \/ ResumeErr
    \/ Stop

Next == ExecutorStep \/ HostStep \/ \E t \in Threads : Collect(t)

Spec == Init /\ [][Next]_vars

-----------------------------------------------------------------------------
(* Properties.                                                             *)

FrameSet ==
    [kind : FrameKinds, bottom : Nat, pending : BOOLEAN, handed : Nat]

ThreadState == [frames : Seq(FrameSet), stack : Nat, open : SUBSET Nat]

(* Every variable has its type (a part of FrameDiscipline).                 *)
TypeOK ==
    /\ thread_stack \in Seq(Threads)
    /\ state \in [Threads -> ThreadState]
    /\ step \in {"idle", "running", "true", "false"}
    /\ abandoned \subseteq Threads

TopOnly(frame) ==
    \/ frame.kind \in {"Callback", "WaitThread", "Result", "Error"}
    \/ frame.kind = "Sequence" /\ frame.pending

InOrder(fs) ==
    \A i \in DOMAIN fs :
      /\ TopOnly(fs[i]) => i = Len(fs)
      /\ fs[i].kind = "Start" => Len(fs) = 1
      /\ fs[i].kind = "Yielded" /\ i < Len(fs)
           => i + 1 = Len(fs) /\ fs[i+1].kind = "Result"
      /\ fs[i].kind = "Lua" =>
           \/ fs[i].pending <=> i < Len(fs)
           \/ i + 1 = Len(fs) /\ fs[i+1].kind = "Error"
      /\ fs[i].kind \in {"WaitThread", "Result", "Error"} /\ i > 1
           => fs[i-1].kind \in {"Lua", "Sequence", "Yielded"}

(* The frames of a thread stand in the order thread.rs:299-324 requires of *)
(* them, and a Lua frame below another expects its results.  The asserts   *)
(* and panics of return_to, take_result, resume and of unwinding are       *)
(* unreachable where it holds.                                             *)
FrameDiscipline == TypeOK /\ \A t \in Threads : InOrder(state[t].frames)

HasBottom(frame) == frame.kind \in {"Lua", "Callback", "Sequence", "Result"}

WithBottom(fs) == {i \in DOMAIN fs : HasBottom(fs[i])}

InBounds(ts) ==
    LET fs == ts.frames
    IN  /\ \A i \in WithBottom(fs) : /\ fs[i].bottom <= ts.stack
                                     /\ i = 1 => fs[i].bottom = 0
        /\ \A i, j \in WithBottom(fs) : i < j => fs[i].bottom <= fs[j].bottom
        /\ \A x \in ts.open :
             /\ x < ts.stack
             /\ \E i \in WithBottom(fs) : fs[i].kind = "Lua" /\ fs[i].bottom = x
        /\ (\A i \in DOMAIN fs : fs[i].kind = "Error")
             => ts.stack = 0 /\ ts.open = {}

(* The bottoms of a thread's frames rise from zero to the height of its    *)
(* stack, an open upvalue points to a register of a live Lua frame, and a  *)
(* thread with no frame, or with an error only, has no value and no open   *)
(* upvalue (asserts of ThreadState::mode and take_result).                 *)
ValueDiscipline == \A t \in Threads : InBounds(state[t])

(* A sequence that is polled again finds the results of the call, yield or *)
(* resumption it asked for, and nothing else, where it handed over the     *)
(* arguments; given an error, it finds its stack cut back to that place    *)
(* (callback.rs:245-260).                                                  *)
SequenceStack ==
    \A t \in Threads :
      LET fs == state[t].frames
      IN  fs # <<>> /\ Last(fs).kind = "Sequence"
            => state[t].stack = Last(fs).handed

(* No thread is twice on the stack of threads, the threads below the top   *)
(* wait, and the one on top does not: step never finds a bad thread mode   *)
(* (executor.rs:177, "cannot be violated from Lua").                       *)
ThreadChain ==
    /\ \A i, j \in DOMAIN thread_stack :
         thread_stack[i] = thread_stack[j] => i = j
    /\ \A i \in DOMAIN thread_stack :
         LET mode == Mode(state[thread_stack[i]])
         IN  IF i < Len(thread_stack) THEN mode = "Waiting"
             ELSE mode \in {"Normal", "Result"}
                    \cup IF i = 1 THEN {"Stopped", "Suspended"} ELSE {}

(* A thread that runs, waits or holds a result is driven by the executor,  *)
(* unless the host replaced the executor that drove it: no coroutine is    *)
(* left where Lua can neither resume nor reach it.                         *)
NoLostThread ==
    \A t \in Threads :
      Mode(state[t]) \in Unfinished => t \in ToSet(thread_stack) \cup abandoned

(* A thread stops waiting when the thread it resumed last, or one that one *)
(* yielded to, has finished: it is given an error if and only if that      *)
(* thread failed.                                                          *)
ResultGoesToResumer ==
    [][ \A i \in DOMAIN thread_stack :
          LET t == thread_stack[i]
          IN  /\ step = "running"
              /\ Mode(state[t]) = "Waiting" /\ Mode(state'[t]) # "Waiting"
              => /\ i = Len(thread_stack) - 1
                 /\ Mode(state[Top]) = "Result"
                 /\ (TopFrame.kind = "Error")
                      <=> (Last(state'[t].frames).kind = "Error") ]_vars

(* The executor as the session sees it: the mode of its main thread, the   *)
(* Result mode split by the kind of result.  A coroutine that has finished *)
(* and whose result is not yet delivered no longer counts.                 *)
ModeSeen(ts) ==
    IF Mode(ts) # "Result" THEN Mode(ts)
    ELSE IF Last(ts.frames).kind = "Error" THEN "Errored"
    ELSE IF Len(ts.frames) > 1 THEN "Yielded"
    ELSE "Returned"

abstractExecutor ==
    IF thread_stack = <<>> THEN "None"
    ELSE IF Len(thread_stack) > 1 THEN "Normal" ELSE ModeSeen(state[Main])

abstractDepth ==
    IF Len(thread_stack) < 2 THEN 0
    ELSE Len(thread_stack) - (IF Mode(state[Top]) = "Result" THEN 2 ELSE 1)

Contract == INSTANCE ExecutorContract
              WITH executor <- abstractExecutor, depth <- abstractDepth

(* Threads, frames and unwinding implement the executor the session relies *)
(* on.                                                                     *)
ImplementsContract == Contract!Spec

=============================================================================
