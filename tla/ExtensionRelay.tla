--------------------------- MODULE ExtensionRelay ---------------------------
(***************************************************************************)
(* The extension session between the page and its Web Worker: the proxy    *)
(* and its pending calls (js/index.ts), the message handler, the pending   *)
(* relays and their timers (js/worker.ts), and the loop of runCellAsync    *)
(* that waits for a relay (extension-lua/src/session.rs).                  *)
(*                                                                         *)
(* Both threads run JavaScript: a message, a timer or a user action is     *)
(* handled to its end, and the promises it resolved run their reactions    *)
(* (`"ready"' cells) before the worker takes the next message or timer.    *)
(* Answers to messages without an id, which the proxy ignores, are left    *)
(* out, and so is the length of timeouts: a timer fires at any time.       *)
(***************************************************************************)
EXTENDS Naturals, Sequences, FiniteSets

CONSTANTS
    Calls,      \* ids of the calls of the proxy that return a promise
    Commands,   \* async commands, relayed or for the file system; a bound
    NoCommand,
    MaxQueue,   \* bound on the messages to the worker when the user acts
    Overlap     \* what a method of the wasm object does while a cell is in
                \* flight on it: run ("ok"), or throw as the object is
                \* in use ("throws")

ASSUME ConstantsAssumption ==
    /\ MaxQueue \in Nat
    /\ Overlap \subseteq {"ok", "throws"}
    /\ Overlap # {}
    /\ NoCommand \notin Commands

VARIABLES
    \* the proxy, on the main thread
    pendingCalls,   \* Map of the calls waiting for the worker
    outcome,        \* of the promise of each call
    disposed,       \* stopWith was called
    worker,         \* "alive" or "terminated"
    executing,      \* commands the runner executes
    \* messages
    toWorker,
    toMain,
    \* the worker
    cancelled,      \* of the notebook session
    pendingRelays,  \* Map of the relays not settled
    timers,         \* relays whose timer has not fired
    cell,           \* where runCellAsync is, for each call
    awaits,         \* the command it awaits
    issued          \* commands issued so far

proxyVars == <<pendingCalls, outcome, disposed, worker, executing>>
workerVars == <<cancelled, pendingRelays, timers, cell, awaits, issued>>
vars == <<proxyVars, toWorker, toMain, workerVars>>

Requests == {"runCell", "reset", "query"}
Replies == {"result", "error"}

Message(type, id) == [type |-> type, id |-> id]
Stop == Message("stop", NoCommand)

MessagesToWorker ==
    [type : Requests, id : Calls]
        \union [type : {"asyncRelayResult"}, id : Commands] \union {Stop}
MessagesToMain ==
    [type : Replies, id : Calls] \union [type : {"asyncRelay"}, id : Commands]

\* A cell is in flight from its first poll until its promise settles.
\* "panicked": the poll trapped, and the promise never settles.
InFlight == {"waits", "fs", "panicked"}

TypeOK ==
    /\ pendingCalls \subseteq Calls
    /\ outcome \in [Calls -> {"none", "pending", "resolved", "rejected"}]
    /\ disposed \in BOOLEAN
    /\ worker \in {"alive", "terminated"}
    /\ executing \subseteq Commands
    /\ toWorker \in Seq(MessagesToWorker)
    /\ toMain \in Seq(MessagesToMain)
    /\ worker = "terminated" => toWorker = <<>>
    /\ cancelled \in BOOLEAN
    /\ pendingRelays \subseteq Commands
    /\ timers \subseteq Commands
    /\ cell \in [Calls -> {"none", "ready", "ended"} \union InFlight]
    /\ awaits \in [Calls -> Commands \union {NoCommand}]
    /\ issued \subseteq Commands

Init ==
    /\ pendingCalls = {}
    /\ outcome = [c \in Calls |-> "none"]
    /\ disposed = FALSE
    /\ worker = "alive"
    /\ executing = {}
    /\ toWorker = <<>>
    /\ toMain = <<>>
    /\ cancelled = FALSE
    /\ pendingRelays = {}
    /\ timers = {}
    /\ cell = [c \in Calls |-> "none"]
    /\ awaits = [c \in Calls |-> NoCommand]
    /\ issued = {}

-----------------------------------------------------------------------------
(* The proxy.                                                              *)

\* runCellAsync, reset, and the calls without effect on this state
\* (inspectGlobals, loadLibrary): postAndWait, accepted.
PostAndWait(c, type) ==
    /\ outcome[c] = "none" /\ ~disposed
    /\ Len(toWorker) < MaxQueue
    /\ pendingCalls' = pendingCalls \union {c}
    /\ outcome' = [outcome EXCEPT ![c] = "pending"]
    /\ toWorker' = Append(toWorker, Message(type, c))
    /\ UNCHANGED <<disposed, worker, executing, toMain, workerVars>>

\* postAndWait of a session that has been stopped.
PostAndWaitDisposed(c) ==
    /\ outcome[c] = "none" /\ disposed
    /\ outcome' = [outcome EXCEPT ![c] = "rejected"]
    /\ UNCHANGED <<pendingCalls, disposed, worker, executing, toWorker,
                   toMain, workerVars>>

Cancel ==
    /\ ~disposed
    /\ Len(toWorker) < MaxQueue
    /\ toWorker' = Append(toWorker, Stop)
    /\ UNCHANGED <<proxyVars, toMain, workerVars>>

\* stopWith, up to its wait for the pending calls.
StopWith ==
    /\ ~disposed
    /\ disposed' = TRUE
    /\ toWorker' = Append(toWorker, Stop)
    /\ UNCHANGED <<pendingCalls, outcome, worker, executing, toMain,
                   workerVars>>

RejectNone == outcome  \* mutant: the map is cleared, its promises left alone

RejectAll == [c \in Calls |->
                IF c \in pendingCalls THEN "rejected" ELSE outcome[c]]

\* stopWith after that wait, which ends when no call is pending or 5 seconds
\* have passed. Messages of a terminated worker may arrive or be lost.
TerminateWorker ==
    /\ disposed /\ worker = "alive"
    /\ outcome' = RejectAll
    /\ pendingCalls' = {}
    /\ worker' = "terminated"
    /\ toWorker' = <<>>
    /\ toMain' \in {toMain, <<>>}
    /\ UNCHANGED <<disposed, executing, workerVars>>

HandleReplyKeepsEntry ==  \* mutant: the entry is not deleted
    /\ toMain # <<>> /\ Head(toMain).type \in Replies
    /\ outcome' = [outcome EXCEPT ![Head(toMain).id] =
                     IF Head(toMain).type = "result" THEN "resolved" ELSE "rejected"]
    /\ toMain' = Tail(toMain)
    /\ UNCHANGED <<pendingCalls, disposed, worker, executing, toWorker,
                   workerVars>>

HandleReply ==
    /\ toMain # <<>> /\ Head(toMain).type \in Replies
    /\ LET c == Head(toMain).id
           o == IF Head(toMain).type = "result" THEN "resolved" ELSE "rejected"
       IN outcome' = IF c \in pendingCalls
                       THEN [outcome EXCEPT ![c] = o] ELSE outcome
    /\ pendingCalls' = pendingCalls \ {Head(toMain).id}
    /\ toMain' = Tail(toMain)
    /\ UNCHANGED <<disposed, worker, executing, toWorker, workerVars>>

HandleAsyncRelay ==
    /\ toMain # <<>> /\ Head(toMain).type = "asyncRelay"
    /\ executing' = executing \union {Head(toMain).id}
    /\ toMain' = Tail(toMain)
    /\ UNCHANGED <<pendingCalls, outcome, disposed, worker, toWorker,
                   workerVars>>

FinishCommandUnchecked(r) ==  \* mutant: posts to a worker that is gone
    /\ r \in executing
    /\ executing' = executing \ {r}
    /\ toWorker' = Append(toWorker, Message("asyncRelayResult", r))
    /\ UNCHANGED <<pendingCalls, outcome, disposed, worker, toMain,
                   workerVars>>

FinishCommandTwice(r) ==  \* mutant: catch answers again what then answered
    /\ r \in executing
    /\ executing' = executing \ {r}
    /\ toWorker' = IF worker = "alive"
                     THEN toWorker \o <<Message("asyncRelayResult", r),
                                        Message("asyncRelayResult", r)>>
                     ELSE toWorker
    /\ UNCHANGED <<pendingCalls, outcome, disposed, worker, toMain,
                   workerVars>>

\* executeMainThreadCommand settled: either way its outcome goes to the worker,
\* if there is one.
FinishCommand(r) ==
    /\ r \in executing
    /\ executing' = executing \ {r}
    /\ toWorker' = IF worker = "alive"
                     THEN Append(toWorker, Message("asyncRelayResult", r))
                     ELSE toWorker
    /\ UNCHANGED <<pendingCalls, outcome, disposed, worker, toMain,
                   workerVars>>

-----------------------------------------------------------------------------
(* The worker.                                                             *)

Busy == \E c \in Calls : cell[c] \in InFlight

\* What a call of a method of the session may do now.
MethodOutcomes == IF Busy THEN Overlap ELSE {"ok"}

\* The cells that wait for one of the relays R resume.
Wake(R) == [c \in Calls |->
              IF cell[c] = "waits" /\ awaits[c] \in R THEN "ready" ELSE cell[c]]

Idle == worker = "alive" /\ \A c \in Calls : cell[c] # "ready"

Receive(type) ==
    /\ Idle
    /\ toWorker # <<>> /\ Head(toWorker).type = type
    /\ toWorker' = Tail(toWorker)

\* The cell is polled once the handler has returned.
HandleRunCell ==
    /\ Receive("runCell")
    /\ "ok" \in MethodOutcomes
    /\ cell' = [cell EXCEPT ![Head(toWorker).id] = "ready"]
    /\ UNCHANGED <<proxyVars, toMain, cancelled, pendingRelays, timers, awaits,
                   issued>>

HandleRunCellThrowsClears ==  \* mutant: the map is cleared, nobody resumed
    /\ Receive("runCell")
    /\ "throws" \in MethodOutcomes
    /\ pendingRelays' = {}
    /\ toMain' = Append(toMain, Message("error", Head(toWorker).id))
    /\ UNCHANGED <<proxyVars, cancelled, timers, cell, awaits, issued>>

\* Whichever cell owns them, the pending relays are rejected.
HandleRunCellThrows ==
    /\ Receive("runCell")
    /\ "throws" \in MethodOutcomes
    /\ cell' = Wake(pendingRelays)
    /\ pendingRelays' = {}
    /\ toMain' = Append(toMain, Message("error", Head(toWorker).id))
    /\ UNCHANGED <<proxyVars, cancelled, timers, awaits, issued>>

HandleReset ==
    /\ Receive("reset")
    /\ \/ /\ "ok" \in MethodOutcomes
          /\ cancelled' = FALSE
          /\ toMain' = Append(toMain, Message("result", Head(toWorker).id))
       \/ /\ "throws" \in MethodOutcomes
          /\ toMain' = Append(toMain, Message("error", Head(toWorker).id))
          /\ UNCHANGED cancelled
    /\ UNCHANGED <<proxyVars, pendingRelays, timers, cell, awaits, issued>>

HandleQuery ==
    /\ Receive("query")
    /\ \E o \in MethodOutcomes :
         toMain' = Append(toMain, Message(IF o = "ok" THEN "result" ELSE "error",
                                          Head(toWorker).id))
    /\ UNCHANGED <<proxyVars, workerVars>>

HandleStopRejectsNothing ==  \* mutant: cancels without rejecting the relays
    /\ Receive("stop")
    /\ "ok" \in MethodOutcomes
    /\ cancelled' = TRUE
    /\ UNCHANGED <<proxyVars, toMain, pendingRelays, timers, cell, awaits,
                   issued>>

HandleStop ==
    /\ Receive("stop")
    /\ \/ /\ "ok" \in MethodOutcomes
          /\ cancelled' = TRUE
          /\ cell' = Wake(pendingRelays)
          /\ pendingRelays' = {}
       \/ /\ "throws" \in MethodOutcomes
          /\ UNCHANGED <<cancelled, cell, pendingRelays>>
    /\ UNCHANGED <<proxyVars, toMain, timers, awaits, issued>>

\* A late answer finds no relay.
HandleRelayResult ==
    /\ Receive("asyncRelayResult")
    /\ LET r == {Head(toWorker).id} \intersect pendingRelays
       IN /\ cell' = Wake(r)
          /\ pendingRelays' = pendingRelays \ r
    /\ UNCHANGED <<proxyVars, toMain, cancelled, timers, awaits, issued>>

FireTimerKeepsEntry(r) ==  \* mutant: the timed out relay stays in the map
    /\ Idle
    /\ r \in timers
    /\ timers' = timers \ {r}
    /\ cell' = Wake({r} \intersect pendingRelays)
    /\ UNCHANGED <<proxyVars, toWorker, toMain, cancelled, pendingRelays,
                   awaits, issued>>

FireTimer(r) ==
    /\ Idle
    /\ r \in timers
    /\ timers' = timers \ {r}
    /\ cell' = Wake({r} \intersect pendingRelays)
    /\ pendingRelays' = pendingRelays \ {r}
    /\ UNCHANGED <<proxyVars, toWorker, toMain, cancelled, awaits, issued>>

\* An operation on files, done by the worker itself, comes to its end.
FsCompletes(c) ==
    /\ Idle
    /\ cell[c] = "fs"
    /\ cell' = [cell EXCEPT ![c] = "ready"]
    /\ UNCHANGED <<proxyVars, toWorker, toMain, cancelled, pendingRelays,
                   timers, awaits, issued>>

-----------------------------------------------------------------------------
(* One poll of runCellAsync: the notebook session runs until the cell ends *)
(* or hands over a command. A cancelled session hands over none.           *)

Polled(c) == worker = "alive" /\ cell[c] = "ready"

CellEnds(c) ==
    /\ Polled(c)
    /\ cell' = [cell EXCEPT ![c] = "ended"]
    /\ toMain' = Append(toMain, Message("result", c))
    /\ UNCHANGED <<proxyVars, toWorker, cancelled, pendingRelays, timers,
                   awaits, issued>>

CellRelaysUntimed(c, r) ==  \* mutant: no timer is armed
    /\ Polled(c) /\ ~cancelled
    /\ r \notin issued
    /\ issued' = issued \union {r}
    /\ pendingRelays' = pendingRelays \union {r}
    /\ toMain' = Append(toMain, Message("asyncRelay", r))
    /\ cell' = [cell EXCEPT ![c] = "waits"]
    /\ awaits' = [awaits EXCEPT ![c] = r]
    /\ UNCHANGED <<proxyVars, toWorker, cancelled, timers>>

\* __extension_lua_relay, called with the session borrowed by the cell. If
\* getRelayTimeoutMs throws, the promise is rejected at once: the command is
\* on its way, its entry in the map stays and has no timer.
CellRelays(c, r) ==
    /\ Polled(c) /\ ~cancelled
    /\ r \notin issued
    /\ issued' = issued \union {r}
    /\ pendingRelays' = pendingRelays \union {r}
    /\ toMain' = Append(toMain, Message("asyncRelay", r))
    /\ \/ /\ "ok" \in Overlap
          /\ timers' = timers \union {r}
          /\ cell' = [cell EXCEPT ![c] = "waits"]
          /\ awaits' = [awaits EXCEPT ![c] = r]
       \/ /\ "throws" \in Overlap
          /\ UNCHANGED <<timers, cell, awaits>>
    /\ UNCHANGED <<proxyVars, toWorker, cancelled>>

CellCallsFs(c, r) ==
    /\ Polled(c) /\ ~cancelled
    /\ r \notin issued
    /\ issued' = issued \union {r}
    /\ cell' = [cell EXCEPT ![c] = "fs"]
    /\ UNCHANGED <<proxyVars, toWorker, toMain, cancelled, pendingRelays,
                   timers, awaits>>

CellPanics(c) ==
    /\ Polled(c)
    /\ cell' = [cell EXCEPT ![c] = "panicked"]
    /\ UNCHANGED <<proxyVars, toWorker, toMain, cancelled, pendingRelays,
                   timers, awaits, issued>>

Poll(c) ==
    \/ CellEnds(c)
    \/ \E r \in Commands : CellRelays(c, r) \/ CellCallsFs(c, r)
    \/ CellPanics(c)

-----------------------------------------------------------------------------
ProxyStep ==
    \/ \E c \in Calls, type \in Requests : PostAndWait(c, type)
    \/ \E c \in Calls : PostAndWaitDisposed(c)
    \/ Cancel
    \/ StopWith
    \/ TerminateWorker
    \/ HandleReply
    \/ HandleAsyncRelay
    \/ \E r \in Commands : FinishCommand(r)

HandleMessage ==
    \/ HandleRunCell
    \/ HandleRunCellThrows
    \/ HandleReset
    \/ HandleQuery
    \/ HandleStop
    \/ HandleRelayResult

WorkerStep ==
    \/ HandleMessage
    \/ \E r \in Commands : FireTimer(r)
    \/ \E c \in Calls : FsCompletes(c) \/ Poll(c)

Next == ProxyStep \/ WorkerStep

Spec == Init /\ [][Next]_vars

\* Event loops deliver their messages and fire their timers, and file
\* operations end. Nothing is assumed of the user or of the commands the
\* runner executes. Commands being finite, every cell stops asking for them.
Fairness ==
    /\ WF_vars(HandleMessage)
    /\ WF_vars(HandleReply \/ HandleAsyncRelay)
    /\ WF_vars(TerminateWorker)
    /\ \A r \in Commands : WF_vars(FireTimer(r))
    /\ \A c \in Calls : WF_vars(FsCompletes(c)) /\ WF_vars(Poll(c))

FairSpec == Spec /\ Fairness

-----------------------------------------------------------------------------
(* Safety.                                                                 *)

Ids(queue, types) ==
    {i \in DOMAIN queue : queue[i].type \in types}

RequestsOf(c) == {i \in Ids(toWorker, Requests) : toWorker[i].id = c}
RepliesOf(c) == {i \in Ids(toMain, Replies) : toMain[i].id = c}
AtWorker(c) == cell[c] \in {"ready"} \union InFlight

\* Until the worker is terminated, a pending call is in exactly one place: on
\* its way to the worker, in a cell there, or on its way back; and a call that
\* is not pending is nowhere (postAndWait, onmessage, handleWorkerMessage).
CallInOnePlace ==
    worker = "alive" =>
        \A c \in Calls :
            Cardinality(RequestsOf(c)) + Cardinality(RepliesOf(c))
              + (IF AtWorker(c) THEN 1 ELSE 0)
            = (IF c \in pendingCalls THEN 1 ELSE 0)

\* A cell that waits can be woken: its relay is in the map, with a timer armed
\* (__extension_lua_relay, rejectPendingRelays and the ways a relay settles).
WaitingCellCanWake ==
    \A c \in Calls : cell[c] = "waits" => awaits[c] \in pendingRelays \intersect timers

\* A relay in the map has not been answered: its command is on its way to the
\* runner, being executed, or its answer on its way back, and just once.
UnansweredInOnePlace ==
    worker = "alive" =>
        \A r \in pendingRelays :
            Cardinality({i \in Ids(toMain, {"asyncRelay"}) : toMain[i].id = r})
              + Cardinality({i \in Ids(toWorker, {"asyncRelayResult"}) : toWorker[i].id = r})
              + (IF r \in executing THEN 1 ELSE 0)
            = 1

\* Nobody waits in a cancelled session, and nobody starts to: the stop handler
\* rejects the relays it finds, and a poll after it hands over none.
NobodyWaitsCancelled ==
    cancelled => \A c \in Calls : cell[c] # "waits"

\* A cell that stops to wait for a relay, by an answer, a timeout or a
\* rejection, leaves no entry of it in the map.
NoRelayLeaked ==
    [][\A c \in Calls : cell[c] = "waits" /\ cell'[c] # "waits"
                            => awaits[c] \notin pendingRelays']_vars

\* The promises of the proxy settle once, a closed session accepts no call, and
\* its pending calls are settled in the end (stopWith).
Service == INSTANCE RequestService WITH status <- outcome, open <- ~disposed
ImplementsService == Service!Spec

(* Liveness.                                                               *)

\* The promise of a call settles, unless the cell panicked: a relay the runner
\* never answers times out, and stop leaves no cell behind.
CallSettles ==
    \A c \in Calls :
        outcome[c] = "pending" ~> (outcome[c] # "pending" \/ cell[c] = "panicked")
=============================================================================
