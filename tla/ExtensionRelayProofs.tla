------------------------ MODULE ExtensionRelayProofs ------------------------
(***************************************************************************)
(* Theorems about ExtensionRelay, for every number of calls and commands   *)
(* and for both outcomes of a call of a busy session: types, that a        *)
(* waiting cell can be woken, that nobody waits in a cancelled session,    *)
(* that every call and every command is in exactly one place on its way    *)
(* round the worker, and that the promises of the proxy behave as          *)
(* RequestService says.                                                    *)
(***************************************************************************)
EXTENDS ExtensionRelay, Integers, FiniteSetTheorems, TLAPS

-----------------------------------------------------------------------------
(* Types. The conjuncts of TypeOK are split by who writes them.            *)

QueueTypes ==
    /\ toWorker \in Seq(MessagesToWorker)
    /\ toMain \in Seq(MessagesToMain)
    /\ worker = "terminated" => toWorker = <<>>

ProxyTypes ==
    /\ pendingCalls \subseteq Calls
    /\ outcome \in [Calls -> {"none", "pending", "resolved", "rejected"}]
    /\ disposed \in BOOLEAN
    /\ worker \in {"alive", "terminated"}
    /\ executing \subseteq Commands

WorkerTypes ==
    /\ cancelled \in BOOLEAN
    /\ pendingRelays \subseteq Commands
    /\ timers \subseteq Commands
    /\ cell \in [Calls -> {"none", "ready", "ended"} \union InFlight]
    /\ awaits \in [Calls -> Commands \union {NoCommand}]
    /\ issued \subseteq Commands

\* The message at the head of a queue is of one of its kinds, with the id that
\* goes with it; the rest is a queue again.
LEMMA HeadToWorker ==
    ASSUME toWorker \in Seq(MessagesToWorker), toWorker # <<>>
    PROVE  /\ Tail(toWorker) \in Seq(MessagesToWorker)
           /\ Head(toWorker).type \in Requests => Head(toWorker).id \in Calls
<1>1. Head(toWorker) \in MessagesToWorker /\ Tail(toWorker) \in Seq(MessagesToWorker)
  OBVIOUS
<1>2. ASSUME NEW m \in MessagesToWorker, m.type \in Requests
      PROVE  m.id \in Calls
  BY <1>2 DEF MessagesToWorker, Stop, Message, Requests
<1> QED
  BY <1>1, <1>2

LEMMA HeadToMain ==
    ASSUME toMain \in Seq(MessagesToMain), toMain # <<>>
    PROVE  /\ Tail(toMain) \in Seq(MessagesToMain)
           /\ Head(toMain).type \in Replies => Head(toMain).id \in Calls
           /\ Head(toMain).type = "asyncRelay" => Head(toMain).id \in Commands
<1>1. Head(toMain) \in MessagesToMain /\ Tail(toMain) \in Seq(MessagesToMain)
  OBVIOUS
<1>2. ASSUME NEW m \in MessagesToMain
      PROVE  /\ m.type \in Replies => m.id \in Calls
             /\ m.type = "asyncRelay" => m.id \in Commands
  BY DEF MessagesToMain, Replies
<1> QED
  BY <1>1, <1>2

LEMMA EmptyQueue ==
    ASSUME NEW S
    PROVE  <<>> \in Seq(S)
  OBVIOUS

\* The messages the actions send are of these kinds.
LEMMA MessagesSent ==
    /\ \A c \in Calls : \A t \in Requests : Message(t, c) \in MessagesToWorker
    /\ \A r \in Commands : Message("asyncRelayResult", r) \in MessagesToWorker
    /\ Stop \in MessagesToWorker
    /\ \A c \in Calls : Message("result", c) \in MessagesToMain
    /\ \A c \in Calls : Message("error", c) \in MessagesToMain
    /\ \A r \in Commands : Message("asyncRelay", r) \in MessagesToMain
  BY DEF Message, Stop, MessagesToWorker, MessagesToMain, Requests, Replies

\* The actions of the worker happen to a worker that is alive.
LEMMA WorkerStepAlive ==
    ASSUME WorkerStep
    PROVE  worker = "alive" /\ UNCHANGED proxyVars
  BY DEF WorkerStep, HandleMessage, HandleRunCell, HandleRunCellThrows,
         HandleReset, HandleQuery, HandleStop, HandleRelayResult, FireTimer,
         FsCompletes, Poll, CellEnds, CellRelays, CellCallsFs, CellPanics,
         Receive, Idle, Polled

-----------------------------------------------------------------------------
(* The inductive invariant.                                                *)

\* Only stopWith terminates the worker.
TerminatedDisposed == worker = "terminated" => disposed

\* The map of pending calls holds the promises that are pending.
PendingInMap == \A c \in Calls : outcome[c] = "pending" <=> c \in pendingCalls

IInv ==
    /\ TypeOK
    /\ TerminatedDisposed
    /\ PendingInMap
    /\ WaitingCellCanWake
    /\ NobodyWaitsCancelled

LEMMA QueueTypesStep ==
    ASSUME TypeOK, TerminatedDisposed, Next
    PROVE  QueueTypes'
<1> USE DEF TypeOK, QueueTypes
<1>1. ASSUME ProxyStep PROVE QueueTypes'
  <2>1. ASSUME NEW c \in Calls, NEW type \in Requests, PostAndWait(c, type)
        PROVE  QueueTypes'
    BY <2>1, MessagesSent DEF PostAndWait, TerminatedDisposed
  <2>2. ASSUME NEW c \in Calls, PostAndWaitDisposed(c) PROVE QueueTypes'
    BY <2>2 DEF PostAndWaitDisposed
  <2>3. CASE Cancel
    BY <2>3, MessagesSent DEF Cancel, TerminatedDisposed, proxyVars
  <2>4. CASE StopWith
    BY <2>4, MessagesSent DEF StopWith, TerminatedDisposed
  <2>5. CASE TerminateWorker
    BY <2>5, EmptyQueue DEF TerminateWorker
  <2>6. CASE HandleReply
    BY <2>6, HeadToMain DEF HandleReply
  <2>7. CASE HandleAsyncRelay
    BY <2>7, HeadToMain DEF HandleAsyncRelay
  <2>8. ASSUME NEW r \in Commands, FinishCommand(r) PROVE QueueTypes'
    BY <2>8, MessagesSent DEF FinishCommand
  <2> QED
    BY <1>1, <2>1, <2>2, <2>3, <2>4, <2>5, <2>6, <2>7, <2>8 DEF ProxyStep
<1>2. ASSUME WorkerStep PROVE QueueTypes'
  <2> USE WorkerStepAlive, <1>2 DEF proxyVars
  <2>1. CASE HandleRunCell
    BY <2>1, HeadToWorker DEF HandleRunCell, Receive
  <2>2. CASE HandleRunCellThrows
    BY <2>2, HeadToWorker, MessagesSent
       DEF HandleRunCellThrows, Receive, Requests
  <2>3. CASE HandleReset
    <3>1. /\ Head(toWorker).id \in Calls
          /\ toWorker' \in Seq(MessagesToWorker)
      BY <2>3, HeadToWorker DEF HandleReset, Receive, Requests
    <3>2. \/ toMain' = Append(toMain, Message("result", Head(toWorker).id))
          \/ toMain' = Append(toMain, Message("error", Head(toWorker).id))
      BY <2>3 DEF HandleReset
    <3>3. toMain' \in Seq(MessagesToMain)
      <4>1. PICK m \in MessagesToMain : toMain' = Append(toMain, m)
        BY <3>1, <3>2, MessagesSent, Zenon
      <4> QED
        BY <4>1
    <3> QED
      BY <3>1, <3>3
  <2>4. CASE HandleQuery
    BY <2>4, HeadToWorker, MessagesSent DEF HandleQuery, Receive, Requests
  <2>5. CASE HandleStop
    BY <2>5, HeadToWorker DEF HandleStop, Receive
  <2>6. CASE HandleRelayResult
    BY <2>6, HeadToWorker DEF HandleRelayResult, Receive
  <2>7. ASSUME NEW r \in Commands, FireTimer(r) PROVE QueueTypes'
    BY <2>7 DEF FireTimer
  <2>8. ASSUME NEW c \in Calls, FsCompletes(c) PROVE QueueTypes'
    BY <2>8 DEF FsCompletes
  <2>9. ASSUME NEW c \in Calls, CellEnds(c) PROVE QueueTypes'
    BY <2>9, MessagesSent DEF CellEnds
  <2>10. ASSUME NEW c \in Calls, NEW r \in Commands, CellRelays(c, r)
         PROVE  QueueTypes'
    BY <2>10, MessagesSent DEF CellRelays
  <2>11. ASSUME NEW c \in Calls, NEW r \in Commands, CellCallsFs(c, r)
         PROVE  QueueTypes'
    BY <2>11 DEF CellCallsFs
  <2>12. ASSUME NEW c \in Calls, CellPanics(c) PROVE QueueTypes'
    BY <2>12 DEF CellPanics
  <2> QED
    BY <2>1, <2>2, <2>3, <2>4, <2>5, <2>6, <2>7, <2>8, <2>9, <2>10, <2>11,
       <2>12 DEF WorkerStep, HandleMessage, Poll
<1> QED
  BY <1>1, <1>2 DEF Next

LEMMA ProxyTypesStep ==
    ASSUME TypeOK, Next
    PROVE  ProxyTypes'
<1> USE DEF TypeOK, ProxyTypes
<1>1. ASSUME NEW c \in Calls, NEW type \in Requests, PostAndWait(c, type)
      PROVE  ProxyTypes'
  BY <1>1 DEF PostAndWait
<1>2. ASSUME NEW c \in Calls, PostAndWaitDisposed(c) PROVE ProxyTypes'
  BY <1>2 DEF PostAndWaitDisposed
<1>3. CASE Cancel
  BY <1>3 DEF Cancel, proxyVars
<1>4. CASE StopWith
  BY <1>4 DEF StopWith
<1>5. CASE TerminateWorker
  BY <1>5 DEF TerminateWorker, RejectAll
<1>6. CASE HandleReply
  BY <1>6, HeadToMain DEF HandleReply
<1>7. CASE HandleAsyncRelay
  BY <1>7, HeadToMain DEF HandleAsyncRelay
<1>8. ASSUME NEW r \in Commands, FinishCommand(r) PROVE ProxyTypes'
  BY <1>8 DEF FinishCommand
<1>9. CASE WorkerStep
  BY <1>9, WorkerStepAlive DEF proxyVars
<1> QED
  BY <1>1, <1>2, <1>3, <1>4, <1>5, <1>6, <1>7, <1>8, <1>9
     DEF Next, ProxyStep

\* The actions of the proxy leave the worker alone.
LEMMA ProxyStepWorker ==
    ASSUME ProxyStep
    PROVE  UNCHANGED workerVars
  BY DEF ProxyStep, PostAndWait, PostAndWaitDisposed, Cancel, StopWith,
         TerminateWorker, HandleReply, HandleAsyncRelay, FinishCommand

LEMMA WakeType ==
    ASSUME TypeOK, NEW R
    PROVE  Wake(R) \in [Calls -> {"none", "ready", "ended"} \union InFlight]
  BY DEF TypeOK, Wake, InFlight

LEMMA WorkerTypesStep ==
    ASSUME TypeOK, Next
    PROVE  WorkerTypes'
<1> USE DEF TypeOK, WorkerTypes
<1>1. CASE ProxyStep
  BY <1>1, ProxyStepWorker DEF workerVars
<1>2. CASE HandleRunCell
  BY <1>2 DEF HandleRunCell
<1>3. CASE HandleRunCellThrows
  BY <1>3, WakeType DEF HandleRunCellThrows
<1>4. CASE HandleReset
  BY <1>4 DEF HandleReset
<1>5. CASE HandleQuery
  BY <1>5 DEF HandleQuery, workerVars
<1>6. CASE HandleStop
  BY <1>6, WakeType DEF HandleStop
<1>7. CASE HandleRelayResult
  BY <1>7, WakeType DEF HandleRelayResult
<1>8. ASSUME NEW r \in Commands, FireTimer(r) PROVE WorkerTypes'
  BY <1>8, WakeType DEF FireTimer
<1>9. ASSUME NEW c \in Calls, FsCompletes(c) PROVE WorkerTypes'
  BY <1>9 DEF FsCompletes
<1>10. ASSUME NEW c \in Calls, CellEnds(c) PROVE WorkerTypes'
  BY <1>10 DEF CellEnds
<1>11. ASSUME NEW c \in Calls, NEW r \in Commands, CellRelays(c, r)
       PROVE  WorkerTypes'
  BY <1>11 DEF CellRelays, InFlight
<1>12. ASSUME NEW c \in Calls, NEW r \in Commands, CellCallsFs(c, r)
       PROVE  WorkerTypes'
  BY <1>12 DEF CellCallsFs, InFlight
<1>13. ASSUME NEW c \in Calls, CellPanics(c) PROVE WorkerTypes'
  BY <1>13 DEF CellPanics, InFlight
<1> QED
  BY <1>1, <1>2, <1>3, <1>4, <1>5, <1>6, <1>7, <1>8, <1>9, <1>10, <1>11,
     <1>12, <1>13 DEF Next, WorkerStep, HandleMessage, Poll

LEMMA TypeOKSplit ==
    QueueTypes /\ ProxyTypes /\ WorkerTypes <=> TypeOK
  BY DEF QueueTypes, ProxyTypes, WorkerTypes, TypeOK

-----------------------------------------------------------------------------
(* The conjuncts of the invariant about the proxy.                         *)

LEMMA ProxyInvStep ==
    ASSUME TypeOK, TerminatedDisposed, PendingInMap, Next
    PROVE  TerminatedDisposed' /\ PendingInMap'
<1> USE DEF TypeOK, TerminatedDisposed, PendingInMap
<1>1. ASSUME NEW c \in Calls, NEW type \in Requests, PostAndWait(c, type)
      PROVE  TerminatedDisposed' /\ PendingInMap'
  BY <1>1 DEF PostAndWait
<1>2. ASSUME NEW c \in Calls, PostAndWaitDisposed(c)
      PROVE  TerminatedDisposed' /\ PendingInMap'
  BY <1>2 DEF PostAndWaitDisposed
<1>3. CASE Cancel
  BY <1>3 DEF Cancel, proxyVars
<1>4. CASE StopWith
  BY <1>4 DEF StopWith
<1>5. CASE TerminateWorker
  BY <1>5 DEF TerminateWorker, RejectAll
<1>6. CASE HandleReply
  BY <1>6, HeadToMain DEF HandleReply
<1>7. CASE HandleAsyncRelay
  BY <1>7 DEF HandleAsyncRelay
<1>8. ASSUME NEW r \in Commands, FinishCommand(r)
      PROVE  TerminatedDisposed' /\ PendingInMap'
  BY <1>8 DEF FinishCommand
<1>9. CASE WorkerStep
  BY <1>9, WorkerStepAlive DEF proxyVars
<1> QED
  BY <1>1, <1>2, <1>3, <1>4, <1>5, <1>6, <1>7, <1>8, <1>9
     DEF Next, ProxyStep

-----------------------------------------------------------------------------
(* The conjuncts of the invariant about the worker.                        *)

\* Once the relays R are settled, the cells that still wait wait for others.
LEMMA WakeWakes ==
    ASSUME TypeOK, NEW R, NEW c \in Calls, Wake(R)[c] = "waits"
    PROVE  cell[c] = "waits" /\ awaits[c] \notin R
  BY DEF TypeOK, Wake

LEMMA WorkerInvStep ==
    ASSUME TypeOK, WaitingCellCanWake, NobodyWaitsCancelled, Next
    PROVE  WaitingCellCanWake' /\ NobodyWaitsCancelled'
<1> USE DEF TypeOK, WaitingCellCanWake, NobodyWaitsCancelled
<1>1. CASE ProxyStep
  BY <1>1, ProxyStepWorker DEF workerVars
<1>2. CASE HandleRunCell
  BY <1>2 DEF HandleRunCell
<1>3. CASE HandleRunCellThrows
  BY <1>3, WakeWakes DEF HandleRunCellThrows
<1>4. CASE HandleReset
  BY <1>4 DEF HandleReset
<1>5. CASE HandleQuery
  BY <1>5 DEF HandleQuery, workerVars
<1>6. CASE HandleStop
  BY <1>6, WakeWakes DEF HandleStop
<1>7. CASE HandleRelayResult
  BY <1>7, WakeWakes DEF HandleRelayResult
<1>8. ASSUME NEW r \in Commands, FireTimer(r)
      PROVE  WaitingCellCanWake' /\ NobodyWaitsCancelled'
  BY <1>8, WakeWakes DEF FireTimer
<1>9. ASSUME NEW c \in Calls, FsCompletes(c)
      PROVE  WaitingCellCanWake' /\ NobodyWaitsCancelled'
  BY <1>9 DEF FsCompletes
<1>10. ASSUME NEW c \in Calls, CellEnds(c)
       PROVE  WaitingCellCanWake' /\ NobodyWaitsCancelled'
  BY <1>10 DEF CellEnds
<1>11. ASSUME NEW c \in Calls, NEW r \in Commands, CellRelays(c, r)
       PROVE  WaitingCellCanWake' /\ NobodyWaitsCancelled'
  BY <1>11 DEF CellRelays
<1>12. ASSUME NEW c \in Calls, NEW r \in Commands, CellCallsFs(c, r)
       PROVE  WaitingCellCanWake' /\ NobodyWaitsCancelled'
  BY <1>12 DEF CellCallsFs
<1>13. ASSUME NEW c \in Calls, CellPanics(c)
       PROVE  WaitingCellCanWake' /\ NobodyWaitsCancelled'
  BY <1>13 DEF CellPanics
<1> QED
  BY <1>1, <1>2, <1>3, <1>4, <1>5, <1>6, <1>7, <1>8, <1>9, <1>10, <1>11,
     <1>12, <1>13 DEF Next, WorkerStep, HandleMessage, Poll

-----------------------------------------------------------------------------
LEMMA InvariantInit == Init => IInv
  BY EmptyQueue DEF Init, IInv, TypeOK, TerminatedDisposed, 
         PendingInMap, WaitingCellCanWake, NobodyWaitsCancelled, InFlight

LEMMA InvariantStep ==
    ASSUME IInv, [Next]_vars
    PROVE  IInv'
<1>1. CASE Next
  <2>1. TypeOK'
    BY <1>1, QueueTypesStep, ProxyTypesStep, WorkerTypesStep, TypeOKSplit
       DEF IInv, QueueTypes, ProxyTypes, WorkerTypes, TypeOK
  <2> QED
    BY <1>1, <2>1, ProxyInvStep, WorkerInvStep DEF IInv
<1>2. CASE UNCHANGED vars
  BY <1>2 DEF IInv, TypeOK, TerminatedDisposed, PendingInMap,
              WaitingCellCanWake, NobodyWaitsCancelled, vars, proxyVars,
              workerVars
<1> QED
  BY <1>1, <1>2

\* The inductive invariant holds.
THEOREM Invariance == Spec => []IInv
  BY InvariantInit, InvariantStep, PTL DEF Spec

\* Every variable keeps its type: each message in a queue is of a kind its
\* receiver handles, and nothing is posted to a terminated worker.
THEOREM TypeCorrect == Spec => []TypeOK
<1>1. IInv => TypeOK
  BY DEF IInv
<1> QED
  BY Invariance, <1>1, PTL

\* A cell that waits for a relay has its resolve function in the map and a
\* timer that will call it, whatever was stopped, reset, thrown or timed out.
THEOREM WaitersCanWake == Spec => []WaitingCellCanWake
<1>1. IInv => WaitingCellCanWake
  BY DEF IInv
<1> QED
  BY Invariance, <1>1, PTL

\* After the stop handler has cancelled the session no cell waits for a relay,
\* until reset clears the flag.
THEOREM CancelledSessionNobodyWaits == Spec => []NobodyWaitsCancelled
<1>1. IInv => NobodyWaitsCancelled
  BY DEF IInv
<1> QED
  BY Invariance, <1>1, PTL

-----------------------------------------------------------------------------
(* The proxy implements RequestService, fairness left aside.               *)

LEMMA ServiceStep ==
    ASSUME IInv, [Next]_vars
    PROVE  [Service!Next]_(Service!vars)
<1> USE DEF IInv, TypeOK, PendingInMap
<1>1. ASSUME NEW c \in Calls, NEW type \in Requests, PostAndWait(c, type)
      PROVE  Service!Request(c)
  BY <1>1 DEF PostAndWait, Service!Request
<1>2. ASSUME NEW c \in Calls, PostAndWaitDisposed(c)
      PROVE  Service!Request(c)
  BY <1>2 DEF PostAndWaitDisposed, Service!Request
<1>3. CASE StopWith
  <2> Service!Close
    BY <1>3 DEF StopWith, Service!Close
  <2> QED
    BY DEF Service!Next
<1>4. CASE TerminateWorker
  <2>1. CASE pendingCalls = {}
    <3> UNCHANGED <<outcome, disposed>>
      BY <1>4, <2>1 DEF TerminateWorker, RejectAll
    <3> QED
      BY DEF Service!vars
  <2>2. CASE pendingCalls # {}
    <3> Service!Shut
      BY <1>4, <2>2 DEF TerminateWorker, RejectAll, Service!Shut
    <3> QED
      BY DEF Service!Next
  <2> QED
    BY <2>1, <2>2
<1>5. CASE HandleReply
  <2> DEFINE c == Head(toMain).id
  <2>1. c \in Calls
    BY <1>5, HeadToMain DEF HandleReply
  <2>2. CASE c \in pendingCalls
    <3> Service!Settle(c)
      BY <1>5, <2>1, <2>2 DEF HandleReply, Service!Settle
    <3> QED
      BY <2>1 DEF Service!Next
  <2>3. CASE c \notin pendingCalls
    BY <1>5, <2>3 DEF HandleReply, Service!vars
  <2> QED
    BY <2>2, <2>3
<1>6. CASE Cancel \/ HandleAsyncRelay \/ \E r \in Commands : FinishCommand(r)
  BY <1>6 DEF Cancel, HandleAsyncRelay, FinishCommand, proxyVars, Service!vars
<1>7. CASE WorkerStep
  BY <1>7, WorkerStepAlive DEF proxyVars, Service!vars
<1>8. CASE UNCHANGED vars
  BY <1>8 DEF vars, proxyVars, Service!vars
<1> QED
  BY <1>1, <1>2, <1>3, <1>4, <1>5, <1>6, <1>7, <1>8
     DEF Next, ProxyStep, Service!Next

\* The promise of a call settles at most once, only pending ones settle, and
\* none becomes pending once stopWith was called.
THEOREM RelayImplementsService ==
    Spec => Service!Init /\ [][Service!Next]_(Service!vars)
<1>1. Init => Service!Init
  BY DEF Init, Service!Init
<1> QED
  BY <1>1, Invariance, ServiceStep, PTL DEF Spec
-----------------------------------------------------------------------------
(* How many messages of a kind a queue holds.                              *)

Matching(q, M) == {i \in DOMAIN q : q[i] \in M}
HowMany(q, M) == Cardinality(Matching(q, M))

LEMMA MatchingFinite ==
    ASSUME NEW S, NEW q \in Seq(S), NEW M
    PROVE  /\ Matching(q, M) = {i \in 1..Len(q) : q[i] \in M}
           /\ IsFiniteSet(Matching(q, M)) /\ HowMany(q, M) \in Nat
<1>1. /\ Len(q) \in Nat
      /\ Matching(q, M) = {i \in 1..Len(q) : q[i] \in M}
  BY DEF Matching
<1>2. IsFiniteSet(1..Len(q))
  BY <1>1, FS_Interval
<1>3. Matching(q, M) \in SUBSET (1..Len(q))
  BY <1>1
<1>4. IsFiniteSet(Matching(q, M))
  BY <1>2, <1>3, FS_Subset
<1> QED
  BY <1>1, <1>4, FS_CardinalityType DEF HowMany

LEMMA NoneInEmpty ==
    ASSUME NEW M
    PROVE  HowMany(<<>>, M) = 0
<1>1. Matching(<<>>, M) = {}
  BY DEF Matching
<1> QED
  BY <1>1, FS_EmptySet DEF HowMany

\* A message that is sent is counted from now on.
LEMMA OneMoreSent ==
    ASSUME NEW S, NEW q \in Seq(S), NEW m \in S, NEW M
    PROVE  HowMany(Append(q, m), M) = HowMany(q, M) + IF m \in M THEN 1 ELSE 0
<1> DEFINE n == Len(q) + 1
           p == Append(q, m)
<1>1. /\ p \in Seq(S) /\ Len(p) = n /\ p[n] = m /\ Len(q) \in Nat
      /\ \A i \in 1..Len(q) : p[i] = q[i]
  OBVIOUS
<1>2. /\ Matching(q, M) = {i \in 1..Len(q) : q[i] \in M}
      /\ IsFiniteSet(Matching(q, M)) /\ HowMany(q, M) \in Nat
  BY MatchingFinite
<1>3. Matching(p, M) = {i \in 1..n : p[i] \in M}
  BY <1>1, MatchingFinite
<1> HIDE DEF p
<1>4. n \notin Matching(q, M)
  BY <1>1, <1>2
<1>5. CASE m \in M
  <2>1. Matching(p, M) = Matching(q, M) \union {n}
    BY <1>1, <1>2, <1>3, <1>5
  <2> QED
    BY <1>2, <1>4, <1>5, <2>1, FS_AddElement DEF HowMany, p
<1>6. CASE m \notin M
  <2>1. Matching(p, M) = Matching(q, M)
    BY <1>1, <1>2, <1>3, <1>6
  <2> QED
    BY <1>2, <1>6, <2>1 DEF HowMany, p
<1> QED
  BY <1>5, <1>6

\* A message that is taken is not.
LEMMA OneLessTaken ==
    ASSUME NEW S, NEW q \in Seq(S), q # <<>>, NEW M
    PROVE  HowMany(q, M) = HowMany(Tail(q), M) + IF Head(q) \in M THEN 1 ELSE 0
<1> DEFINE n == Len(q)
           p == Tail(q)
           shifted == {i \in 2..n : q[i] \in M}
           f == [i \in Matching(p, M) |-> i + 1]
<1>1. /\ p \in Seq(S) /\ Len(p) = n - 1 /\ n \in Nat \ {0} /\ Head(q) = q[1]
      /\ \A i \in 1..n - 1 : p[i] = q[i + 1]
  OBVIOUS
<1>2. /\ Matching(q, M) = {i \in 1..n : q[i] \in M}
      /\ IsFiniteSet(Matching(q, M)) /\ HowMany(q, M) \in Nat
  BY MatchingFinite
<1> HIDE DEF n, p
<1>3. /\ Matching(p, M) = {i \in 1..n - 1 : p[i] \in M}
      /\ IsFiniteSet(Matching(p, M)) /\ HowMany(p, M) \in Nat
  <2>1. /\ Matching(p, M) = {i \in 1..Len(p) : p[i] \in M}
        /\ IsFiniteSet(Matching(p, M)) /\ HowMany(p, M) \in Nat
    BY <1>1, MatchingFinite
  <2> QED
    BY <1>1, <2>1
<1>4. ExistsBijection(Matching(p, M), shifted)
  <2>1. \A i \in Matching(p, M) : f[i] \in shifted
    BY <1>1, <1>3
  <2>2. \A i, j \in Matching(p, M) : f[i] = f[j] => i = j
    BY <1>3
  <2>3. \A j \in shifted : \E i \in Matching(p, M) : f[i] = j
    <3>1. SUFFICES ASSUME NEW j \in shifted
                   PROVE  j - 1 \in Matching(p, M) /\ f[j - 1] = j
      OBVIOUS
    <3>2. j \in 2..n /\ q[j] \in M /\ j - 1 \in 1..n - 1 /\ (j - 1) + 1 = j
      BY <1>1
    <3>3. j - 1 \in Matching(p, M)
      BY <1>1, <1>3, <3>2
    <3> QED
      BY <3>2, <3>3
  <2>4. f \in [Matching(p, M) -> shifted]
    BY <2>1
  <2> QED
    BY <2>2, <2>3, <2>4
    DEF ExistsBijection, Bijection, Injection, Surjection, IsInjective
<1>5. IsFiniteSet(shifted) /\ Cardinality(shifted) = HowMany(p, M)
  BY <1>3, <1>4, FS_Bijection DEF HowMany
<1>6. 1 \notin shifted
  OBVIOUS
<1>7. CASE Head(q) \in M
  <2>1. Matching(q, M) = shifted \union {1}
    BY <1>1, <1>2, <1>7
  <2> HIDE DEF shifted
  <2> QED
    BY <1>5, <1>6, <1>7, <2>1, FS_AddElement DEF HowMany, p
<1>8. CASE Head(q) \notin M
  <2>1. Matching(q, M) = shifted
    BY <1>1, <1>2, <1>8
  <2> HIDE DEF shifted
  <2> QED
    BY <1>3, <1>5, <1>8, <2>1 DEF HowMany, p
<1> QED
  BY <1>7, <1>8
-----------------------------------------------------------------------------
(* Where the calls and the commands are.                                   *)

RequestMessages(c) == [type : Requests, id : {c}]
ReplyMessages(c) == [type : Replies, id : {c}]
RelayMessages(r) == [type : {"asyncRelay"}, id : {r}]
AnswerMessages(r) == [type : {"asyncRelayResult"}, id : {r}]

One(b) == IF b THEN 1 ELSE 0

CallPlaces(c) ==
    HowMany(toWorker, RequestMessages(c)) + HowMany(toMain, ReplyMessages(c))
      + One(AtWorker(c))

CommandPlaces(r) ==
    HowMany(toMain, RelayMessages(r)) + HowMany(toWorker, AnswerMessages(r))
      + One(r \in executing)

\* A pending call is in one place, and so is the command of a relay in the map;
\* a command that was not issued is in none.
CallsPlaced ==
    worker = "alive" =>
        \A c \in Calls : CallPlaces(c) = One(c \in pendingCalls)

CommandsPlaced ==
    worker = "alive" =>
        \A r \in Commands :
          /\ r \in pendingRelays => CommandPlaces(r) = 1
          /\ r \notin issued => CommandPlaces(r) = 0

\* The kinds are told apart by type and id.
LEMMA KindOfMessage ==
    /\ \A m \in MessagesToWorker :
         /\ \A c : m \in RequestMessages(c) <=> m.type \in Requests /\ m.id = c
         /\ \A r : m \in AnswerMessages(r)
                     <=> m.type = "asyncRelayResult" /\ m.id = r
    /\ \A m \in MessagesToMain :
         /\ \A c : m \in ReplyMessages(c) <=> m.type \in Replies /\ m.id = c
         /\ \A r : m \in RelayMessages(r) <=> m.type = "asyncRelay" /\ m.id = r
  BY DEF MessagesToWorker, MessagesToMain, Stop, Message, RequestMessages,
         ReplyMessages, RelayMessages, AnswerMessages

LEMMA PlacesByKind ==
    ASSUME TypeOK
    PROVE  /\ \A c : /\ Cardinality(RequestsOf(c))
                          = HowMany(toWorker, RequestMessages(c))
                     /\ Cardinality(RepliesOf(c)) = HowMany(toMain, ReplyMessages(c))
           /\ \A r : /\ Cardinality({i \in Ids(toMain, {"asyncRelay"}) : toMain[i].id = r})
                          = HowMany(toMain, RelayMessages(r))
                     /\ Cardinality({i \in Ids(toWorker, {"asyncRelayResult"}) :
                                        toWorker[i].id = r})
                          = HowMany(toWorker, AnswerMessages(r))
<1>1. /\ \A i \in DOMAIN toWorker : toWorker[i] \in MessagesToWorker
      /\ \A i \in DOMAIN toMain : toMain[i] \in MessagesToMain
  BY DEF TypeOK
<1>2. \A c : /\ RequestsOf(c) = Matching(toWorker, RequestMessages(c))
             /\ RepliesOf(c) = Matching(toMain, ReplyMessages(c))
  BY <1>1, KindOfMessage DEF RequestsOf, RepliesOf, Ids, Matching
<1>3. \A r : /\ {i \in Ids(toMain, {"asyncRelay"}) : toMain[i].id = r}
                  = Matching(toMain, RelayMessages(r))
             /\ {i \in Ids(toWorker, {"asyncRelayResult"}) : toWorker[i].id = r}
                  = Matching(toWorker, AnswerMessages(r))
  BY <1>1, KindOfMessage DEF Ids, Matching
<1> QED
  BY <1>2, <1>3 DEF HowMany

LEMMA CountsAreNat ==
    ASSUME TypeOK
    PROVE  /\ \A M : HowMany(toWorker, M) \in Nat
           /\ \A M : HowMany(toMain, M) \in Nat
  BY MatchingFinite DEF TypeOK

\* What sending and taking a message does to the counts.
LEMMA SentToWorker ==
    ASSUME TypeOK, NEW m \in MessagesToWorker, toWorker' = Append(toWorker, m)
    PROVE  /\ \A c : HowMany(toWorker', RequestMessages(c))
                       = HowMany(toWorker, RequestMessages(c))
                         + One(m.type \in Requests /\ m.id = c)
           /\ \A r : HowMany(toWorker', AnswerMessages(r))
                       = HowMany(toWorker, AnswerMessages(r))
                         + One(m.type = "asyncRelayResult" /\ m.id = r)
  BY OneMoreSent, KindOfMessage DEF TypeOK, One

LEMMA SentToMain ==
    ASSUME TypeOK, NEW m \in MessagesToMain, toMain' = Append(toMain, m)
    PROVE  /\ \A c : HowMany(toMain', ReplyMessages(c))
                       = HowMany(toMain, ReplyMessages(c))
                         + One(m.type \in Replies /\ m.id = c)
           /\ \A r : HowMany(toMain', RelayMessages(r))
                       = HowMany(toMain, RelayMessages(r))
                         + One(m.type = "asyncRelay" /\ m.id = r)
  BY OneMoreSent, KindOfMessage DEF TypeOK, One

LEMMA TakenFromWorker ==
    ASSUME TypeOK, toWorker # <<>>, toWorker' = Tail(toWorker)
    PROVE  /\ Head(toWorker) \in MessagesToWorker
           /\ \A c : /\ HowMany(toWorker', RequestMessages(c)) \in Nat
                     /\ HowMany(toWorker, RequestMessages(c))
                          = HowMany(toWorker', RequestMessages(c))
                            + One(Head(toWorker).type \in Requests
                                  /\ Head(toWorker).id = c)
           /\ \A r : /\ HowMany(toWorker', AnswerMessages(r)) \in Nat
                     /\ HowMany(toWorker, AnswerMessages(r))
                          = HowMany(toWorker', AnswerMessages(r))
                            + One(Head(toWorker).type = "asyncRelayResult"
                                  /\ Head(toWorker).id = r)
<1>1. /\ Head(toWorker) \in MessagesToWorker
      /\ Tail(toWorker) \in Seq(MessagesToWorker)
  BY DEF TypeOK
<1>2. \A M : /\ HowMany(toWorker', M) \in Nat
             /\ HowMany(toWorker, M) = HowMany(toWorker', M)
                                 + IF Head(toWorker) \in M THEN 1 ELSE 0
  BY <1>1, OneLessTaken, MatchingFinite DEF TypeOK
<1> QED
  BY <1>1, <1>2, KindOfMessage DEF One

LEMMA TakenFromMain ==
    ASSUME TypeOK, toMain # <<>>, toMain' = Tail(toMain)
    PROVE  /\ Head(toMain) \in MessagesToMain
           /\ \A c : /\ HowMany(toMain', ReplyMessages(c)) \in Nat
                     /\ HowMany(toMain, ReplyMessages(c))
                          = HowMany(toMain', ReplyMessages(c))
                            + One(Head(toMain).type \in Replies
                                  /\ Head(toMain).id = c)
           /\ \A r : /\ HowMany(toMain', RelayMessages(r)) \in Nat
                     /\ HowMany(toMain, RelayMessages(r))
                          = HowMany(toMain', RelayMessages(r))
                            + One(Head(toMain).type = "asyncRelay"
                                  /\ Head(toMain).id = r)
<1>1. /\ Head(toMain) \in MessagesToMain
      /\ Tail(toMain) \in Seq(MessagesToMain)
  BY DEF TypeOK
<1>2. \A M : /\ HowMany(toMain', M) \in Nat
             /\ HowMany(toMain, M) = HowMany(toMain', M)
                                 + IF Head(toMain) \in M THEN 1 ELSE 0
  BY <1>1, OneLessTaken, MatchingFinite DEF TypeOK
<1> QED
  BY <1>1, <1>2, KindOfMessage DEF One
-----------------------------------------------------------------------------
(* Calls.                                                                  *)

LEMMA WakeStays ==
    ASSUME TypeOK, NEW R, cell' = Wake(R)
    PROVE  \A c \in Calls : AtWorker(c)' <=> AtWorker(c)
  BY DEF TypeOK, Wake, AtWorker, InFlight

LEMMA CallsAreNat ==
    ASSUME TypeOK
    PROVE  \A c : /\ HowMany(toWorker, RequestMessages(c)) \in Nat
                 /\ HowMany(toMain, ReplyMessages(c)) \in Nat
  BY CountsAreNat

\* A request the worker answers at once, whatever the answer: it was in one
\* place and is in another.
LEMMA AnsweredAtOnce ==
    ASSUME TypeOK, CallsPlaced, worker = "alive",
           UNCHANGED <<worker, pendingCalls>>,
           toWorker # <<>>, toWorker' = Tail(toWorker),
           Head(toWorker).type \in Requests,
           NEW t \in Replies, toMain' = Append(toMain, Message(t, Head(toWorker).id)),
           \A c \in Calls : AtWorker(c)' <=> AtWorker(c)
    PROVE  CallsPlaced'
<1> DEFINE d == Head(toWorker).id
<1>1. d \in Calls /\ Message(t, d) \in MessagesToMain
  BY HeadToWorker, MessagesSent DEF TypeOK, Replies
<1>2. Message(t, d).type = t /\ Message(t, d).id = d
  BY DEF Message
<1>3. \A c : HowMany(toMain', ReplyMessages(c))
              = HowMany(toMain, ReplyMessages(c)) + One(d = c)
  BY <1>1, <1>2, SentToMain
<1>4. \A c : /\ HowMany(toWorker', RequestMessages(c)) \in Nat
             /\ HowMany(toWorker, RequestMessages(c))
                  = HowMany(toWorker', RequestMessages(c)) + One(d = c)
  BY TakenFromWorker
<1>5. SUFFICES ASSUME NEW c \in Calls
               PROVE  CallPlaces(c)' = One(c \in pendingCalls)
  BY DEF CallsPlaced
<1>6. CallPlaces(c) = One(c \in pendingCalls)
  BY DEF CallsPlaced
<1>7. One(AtWorker(c))' = One(AtWorker(c)) /\ One(AtWorker(c)) \in Nat
      /\ One(d = c) \in Nat
  BY DEF One
<1> QED
  BY <1>3, <1>4, <1>6, <1>7, CallsAreNat DEF CallPlaces

\* Nothing a call depends on is changed: other messages come and go.
LEMMA CallsUntouched ==
    ASSUME TypeOK, CallsPlaced, UNCHANGED <<worker, pendingCalls>>,
           \A c \in Calls :
             /\ HowMany(toWorker', RequestMessages(c))
                  = HowMany(toWorker, RequestMessages(c))
             /\ HowMany(toMain', ReplyMessages(c))
                  = HowMany(toMain, ReplyMessages(c))
             /\ AtWorker(c)' <=> AtWorker(c)
    PROVE  CallsPlaced'
<1>1. \A c \in Calls : One(AtWorker(c))' = One(AtWorker(c))
  BY DEF One
<1> QED
  BY <1>1 DEF CallsPlaced, CallPlaces

LEMMA CallsProxyStep ==
    ASSUME IInv, CallsPlaced, ProxyStep
    PROVE  CallsPlaced'
<1> USE DEF IInv
<1>0. /\ TypeOK /\ cell' = cell /\ \A c : AtWorker(c)' <=> AtWorker(c)
  BY ProxyStepWorker DEF workerVars, AtWorker
<1>1. ASSUME NEW d \in Calls, NEW type \in Requests, PostAndWait(d, type)
      PROVE  CallsPlaced'
  <2>1. /\ toWorker' = Append(toWorker, Message(type, d)) /\ toMain' = toMain
        /\ pendingCalls' = pendingCalls \union {d} /\ worker' = worker
        /\ d \notin pendingCalls
    BY <1>1 DEF PostAndWait, PendingInMap
  <2>2. \A c : HowMany(toWorker', RequestMessages(c))
                = HowMany(toWorker, RequestMessages(c)) + One(d = c)
    <3>1. /\ Message(type, d) \in MessagesToWorker
          /\ Message(type, d).type = type /\ Message(type, d).id = d
      BY MessagesSent DEF Message
    <3> QED
      BY <1>0, <2>1, <3>1, SentToWorker
  <2>3. \A c : One(AtWorker(c))' = One(AtWorker(c)) /\ One(AtWorker(c)) \in Nat
    BY <1>0 DEF One
  <2>4. \A c : One(c \in pendingCalls') = One(c \in pendingCalls) + One(d = c)
    BY <2>1 DEF One
  <2>5. \A c : One(c \in pendingCalls) \in Nat /\ One(d = c) \in Nat
    BY DEF One
  <2>6. SUFFICES ASSUME worker = "alive", NEW c \in Calls
                 PROVE  CallPlaces(c)' = One(c \in pendingCalls')
    BY <2>1 DEF CallsPlaced
  <2>7. CallPlaces(c) = One(c \in pendingCalls)
    BY <2>6 DEF CallsPlaced
  <2>8. CallPlaces(c)' = CallPlaces(c) + One(d = c)
    BY <1>0, <2>1, <2>2, <2>3, <2>5, CallsAreNat DEF CallPlaces
  <2> QED
    BY <2>4, <2>7, <2>8
<1>2. ASSUME NEW d \in Calls, PostAndWaitDisposed(d) PROVE CallsPlaced'
  BY <1>0, <1>2, CallsUntouched DEF PostAndWaitDisposed
<1>3. CASE Cancel \/ StopWith
  <2>1. /\ toWorker' = Append(toWorker, Stop)
        /\ UNCHANGED <<worker, pendingCalls, toMain>>
    BY <1>3 DEF Cancel, StopWith, proxyVars
  <2>2. Stop \in MessagesToWorker /\ Stop.type \notin Requests
    BY DEF MessagesToWorker, Stop, Message, Requests
  <2>3. \A c : HowMany(toWorker', RequestMessages(c))
                = HowMany(toWorker, RequestMessages(c))
    BY <1>0, <2>1, <2>2, SentToWorker, CallsAreNat DEF One
  <2> QED
    BY <1>0, <2>1, <2>3, CallsUntouched
<1>4. CASE TerminateWorker
  BY <1>4 DEF TerminateWorker, CallsPlaced
<1>5. CASE HandleReply
  <2> DEFINE d == Head(toMain).id
  <2>1. /\ toMain # <<>> /\ toMain' = Tail(toMain) /\ toWorker' = toWorker
        /\ Head(toMain).type \in Replies /\ worker' = worker
        /\ pendingCalls' = pendingCalls \ {d}
    BY <1>5 DEF HandleReply
  <2>2. \A c : /\ HowMany(toMain', ReplyMessages(c)) \in Nat
               /\ HowMany(toMain, ReplyMessages(c))
                    = HowMany(toMain', ReplyMessages(c)) + One(d = c)
    BY <1>0, <2>1, TakenFromMain
  <2>3. \A c : One(AtWorker(c))' = One(AtWorker(c)) /\ One(AtWorker(c)) \in {0, 1}
    BY <1>0 DEF One
  <2>4. SUFFICES ASSUME worker = "alive", NEW c \in Calls
                 PROVE  CallPlaces(c)' = One(c \in pendingCalls')
    BY <2>1 DEF CallsPlaced
  <2>5. CallPlaces(c) = One(c \in pendingCalls)
    BY <2>4 DEF CallsPlaced
  <2>6. CallPlaces(c) = CallPlaces(c)' + One(d = c) /\ CallPlaces(c)' \in Nat
    <3>1. One(d = c) \in Nat
      BY DEF One
    <3> QED
      BY <1>0, <2>1, <2>2, <2>3, <3>1, CallsAreNat DEF CallPlaces
  <2>7. CASE d = c
    BY <2>1, <2>5, <2>6, <2>7 DEF One
  <2>8. CASE d # c
    BY <2>1, <2>5, <2>6, <2>8 DEF One
  <2> QED
    BY <2>7, <2>8
<1>6. CASE HandleAsyncRelay
  <2>1. /\ toMain # <<>> /\ toMain' = Tail(toMain) /\ toWorker' = toWorker
        /\ Head(toMain).type \notin Replies
        /\ UNCHANGED <<worker, pendingCalls>>
    BY <1>6 DEF HandleAsyncRelay, Replies
  <2>2. \A c : HowMany(toMain', ReplyMessages(c)) = HowMany(toMain, ReplyMessages(c))
    BY <1>0, <2>1, TakenFromMain, CallsAreNat DEF One
  <2> QED
    BY <1>0, <2>1, <2>2, CallsUntouched
<1>7. ASSUME NEW r \in Commands, FinishCommand(r) PROVE CallsPlaced'
  <2>1. UNCHANGED <<worker, pendingCalls, toMain>>
    BY <1>7 DEF FinishCommand
  <2>2. CASE toWorker' = toWorker
    BY <1>0, <2>1, <2>2, CallsUntouched
  <2>3. CASE toWorker' = Append(toWorker, Message("asyncRelayResult", r))
    <3>1. /\ Message("asyncRelayResult", r) \in MessagesToWorker
          /\ Message("asyncRelayResult", r).type \notin Requests
      BY MessagesSent DEF Message, Requests
    <3>2. \A c : HowMany(toWorker', RequestMessages(c))
                  = HowMany(toWorker, RequestMessages(c))
      BY <1>0, <2>3, <3>1, SentToWorker, CallsAreNat DEF One
    <3> QED
      BY <1>0, <2>1, <3>2, CallsUntouched
  <2> QED
    BY <1>7, <2>2, <2>3 DEF FinishCommand
<1> QED
  BY <1>1, <1>2, <1>3, <1>4, <1>5, <1>6, <1>7 DEF ProxyStep

LEMMA CallsWorkerStep ==
    ASSUME IInv, CallsPlaced, WorkerStep
    PROVE  CallsPlaced'
<1> USE DEF IInv
<1>0. /\ TypeOK /\ worker = "alive"
      /\ UNCHANGED <<worker, pendingCalls, executing>>
  BY WorkerStepAlive DEF proxyVars
<1>1. CASE HandleRunCell
  <2> DEFINE d == Head(toWorker).id
  <2>1. /\ toWorker # <<>> /\ toWorker' = Tail(toWorker) /\ toMain' = toMain
        /\ Head(toWorker).type \in Requests /\ d \in Calls
        /\ cell' = [cell EXCEPT ![d] = "ready"]
    BY <1>0, <1>1, HeadToWorker DEF HandleRunCell, Receive, Requests, TypeOK
  <2>2. \A c : /\ HowMany(toWorker', RequestMessages(c)) \in Nat
               /\ HowMany(toWorker, RequestMessages(c))
                    = HowMany(toWorker', RequestMessages(c)) + One(d = c)
    BY <1>0, <2>1, TakenFromWorker
  <2>3. SUFFICES ASSUME NEW c \in Calls
                 PROVE  CallPlaces(c)' = CallPlaces(c)
    BY <1>0 DEF CallsPlaced
  <2>4. CASE d = c
    <3>1. One(d = c) = 1 /\ One(AtWorker(c)') = 1 /\ One(AtWorker(c)) \in {0, 1}
      BY <1>0, <2>1, <2>4 DEF One, AtWorker, TypeOK
    <3>2. CallPlaces(c) \in {0, 1}
      BY <1>0 DEF CallsPlaced, One
    <3>3. One(AtWorker(c)) = 0
      <4>1. /\ HowMany(toWorker', RequestMessages(c)) \in Nat
            /\ HowMany(toMain, ReplyMessages(c)) \in Nat
            /\ HowMany(toWorker, RequestMessages(c))
                 = HowMany(toWorker', RequestMessages(c)) + 1
        BY <1>0, <2>2, <3>1, CallsAreNat
      <4> QED
        BY <3>1, <3>2, <4>1 DEF CallPlaces
    <3>4. One(AtWorker(c))' = 1
      BY <3>1 DEF One
    <3> QED
      BY <1>0, <2>1, <2>2, <3>1, <3>3, <3>4, CallsAreNat DEF CallPlaces
  <2>5. CASE d # c
    <3>1. One(d = c) = 0 /\ One(AtWorker(c))' = One(AtWorker(c))
      BY <1>0, <2>1, <2>5 DEF One, AtWorker, TypeOK
    <3> QED
      BY <1>0, <2>1, <2>2, <3>1, CallsAreNat DEF CallPlaces
  <2> QED
    BY <2>4, <2>5
<1>2. CASE HandleRunCellThrows
  <2>1. /\ toWorker # <<>> /\ toWorker' = Tail(toWorker)
        /\ Head(toWorker).type \in Requests
        /\ toMain' = Append(toMain, Message("error", Head(toWorker).id))
        /\ cell' = Wake(pendingRelays)
    BY <1>2 DEF HandleRunCellThrows, Receive, Requests
  <2>2. "error" \in Replies
    BY DEF Replies
  <2> QED
    BY <1>0, <2>1, <2>2, WakeStays, AnsweredAtOnce
<1>3. CASE HandleReset \/ HandleQuery
  <2>1. /\ toWorker # <<>> /\ toWorker' = Tail(toWorker)
        /\ Head(toWorker).type \in Requests /\ cell' = cell
        /\ \/ toMain' = Append(toMain, Message("result", Head(toWorker).id))
           \/ toMain' = Append(toMain, Message("error", Head(toWorker).id))
    BY <1>3 DEF HandleReset, HandleQuery, Receive, Requests, workerVars
  <2>2. "error" \in Replies /\ "result" \in Replies
    BY DEF Replies
  <2>3. \A c \in Calls : AtWorker(c)' <=> AtWorker(c)
    BY <2>1 DEF AtWorker
  <2> QED
    BY <1>0, <2>1, <2>2, <2>3, AnsweredAtOnce
<1>4. CASE HandleStop \/ HandleRelayResult
  <2>1. /\ toWorker # <<>> /\ toWorker' = Tail(toWorker) /\ toMain' = toMain
        /\ Head(toWorker).type \notin Requests
        /\ \/ cell' = cell
           \/ \E R : cell' = Wake(R)
    BY <1>4 DEF HandleStop, HandleRelayResult, Receive, Requests
  <2>2. \A c \in Calls : AtWorker(c)' <=> AtWorker(c)
    BY <1>0, <2>1, WakeStays DEF AtWorker
  <2>3. \A c : HowMany(toWorker', RequestMessages(c))
                = HowMany(toWorker, RequestMessages(c))
    BY <1>0, <2>1, TakenFromWorker, CallsAreNat DEF One
  <2> QED
    BY <1>0, <2>1, <2>2, <2>3, CallsUntouched
<1>5. ASSUME NEW r \in Commands, FireTimer(r) PROVE CallsPlaced'
  <2>1. UNCHANGED <<toWorker, toMain>> /\ \E R : cell' = Wake(R)
    BY <1>5 DEF FireTimer
  <2>2. \A c \in Calls : AtWorker(c)' <=> AtWorker(c)
    BY <1>0, <2>1, WakeStays
  <2> QED
    BY <1>0, <2>1, <2>2, CallsUntouched
<1>6. ASSUME NEW d \in Calls,
             \/ FsCompletes(d) \/ CellPanics(d)
             \/ \E r \in Commands : CellCallsFs(d, r)
      PROVE  CallsPlaced'
  <2>1. UNCHANGED <<toWorker, toMain>>
    BY <1>6 DEF FsCompletes, CellPanics, CellCallsFs
  <2>2. \A c \in Calls : AtWorker(c)' <=> AtWorker(c)
    BY <1>0, <1>6
    DEF FsCompletes, CellPanics, CellCallsFs, Polled, AtWorker, InFlight, TypeOK
  <2> QED
    BY <1>0, <2>1, <2>2, CallsUntouched
<1>7. ASSUME NEW d \in Calls, NEW r \in Commands, CellRelays(d, r)
      PROVE  CallsPlaced'
  <2>1. /\ toWorker' = toWorker
        /\ toMain' = Append(toMain, Message("asyncRelay", r))
    BY <1>7 DEF CellRelays
  <2>2. \A c \in Calls : AtWorker(c)' <=> AtWorker(c)
    BY <1>0, <1>7 DEF CellRelays, Polled, AtWorker, InFlight, TypeOK
  <2>3. /\ Message("asyncRelay", r) \in MessagesToMain
        /\ Message("asyncRelay", r).type \notin Replies
    BY MessagesSent DEF Message, Replies
  <2>4. \A c : HowMany(toMain', ReplyMessages(c)) = HowMany(toMain, ReplyMessages(c))
    BY <1>0, <2>1, <2>3, SentToMain, CallsAreNat DEF One
  <2> QED
    BY <1>0, <2>1, <2>2, <2>4, CallsUntouched
<1>8. ASSUME NEW d \in Calls, CellEnds(d)
      PROVE  CallsPlaced'
  <2>1. /\ toWorker' = toWorker /\ cell[d] = "ready"
        /\ toMain' = Append(toMain, Message("result", d))
        /\ cell' = [cell EXCEPT ![d] = "ended"]
    BY <1>8 DEF CellEnds, Polled
  <2>2. /\ Message("result", d) \in MessagesToMain
        /\ Message("result", d).type \in Replies /\ Message("result", d).id = d
    BY MessagesSent DEF Message, Replies
  <2>3. \A c : HowMany(toMain', ReplyMessages(c))
                = HowMany(toMain, ReplyMessages(c)) + One(d = c)
    BY <1>0, <2>1, <2>2, SentToMain
  <2>4. SUFFICES ASSUME NEW c \in Calls
                 PROVE  CallPlaces(c)' = CallPlaces(c)
    BY <1>0 DEF CallsPlaced
  <2>5. CASE d = c
    <3>1. One(d = c) = 1 /\ One(AtWorker(c))' = 0 /\ One(AtWorker(c)) = 1
      BY <1>0, <2>1, <2>5 DEF One, AtWorker, InFlight, TypeOK
    <3> QED
      BY <1>0, <2>1, <2>3, <3>1, CallsAreNat DEF CallPlaces
  <2>6. CASE d # c
    <3>1. One(d = c) = 0 /\ One(AtWorker(c))' = One(AtWorker(c))
      BY <1>0, <2>1, <2>6 DEF One, AtWorker, TypeOK
    <3> QED
      BY <1>0, <2>1, <2>3, <3>1, CallsAreNat DEF CallPlaces
  <2> QED
    BY <2>5, <2>6
<1> QED
  BY <1>1, <1>2, <1>3, <1>4, <1>5, <1>6, <1>7, <1>8
  DEF WorkerStep, HandleMessage, Poll

-----------------------------------------------------------------------------
(* Commands.                                                               *)

LEMMA CommandsAreNat ==
    ASSUME TypeOK
    PROVE  \A r : /\ HowMany(toMain, RelayMessages(r)) \in Nat
                 /\ HowMany(toWorker, AnswerMessages(r)) \in Nat
  BY CountsAreNat

\* What is left to show of a step, when the commands stay where they are.
LEMMA CommandsStay ==
    ASSUME CommandsPlaced, worker = "alive",
           \A r \in Commands :
             /\ CommandPlaces(r)' = CommandPlaces(r)
             /\ r \in pendingRelays' => r \in pendingRelays
             /\ r \notin issued' => r \notin issued
    PROVE  CommandsPlaced'
  BY DEF CommandsPlaced

LEMMA CommandsUntouched ==
    ASSUME CommandsPlaced, worker = "alive", executing' = executing,
           pendingRelays' \subseteq pendingRelays, issued \subseteq issued',
           \A r \in Commands :
             /\ HowMany(toMain', RelayMessages(r)) = HowMany(toMain, RelayMessages(r))
             /\ HowMany(toWorker', AnswerMessages(r))
                  = HowMany(toWorker, AnswerMessages(r))
    PROVE  CommandsPlaced'
<1>1. \A r \in Commands : CommandPlaces(r)' = CommandPlaces(r)
  BY DEF CommandPlaces, One
<1> QED
  BY <1>1, CommandsStay

LEMMA CommandsProxyStep ==
    ASSUME IInv, CommandsPlaced, worker = "alive", ProxyStep
    PROVE  CommandsPlaced'
<1>0. TypeOK /\ UNCHANGED <<pendingRelays, issued>>
  BY ProxyStepWorker DEF workerVars, IInv
<1>1. ASSUME NEW d \in Calls, NEW type \in Requests, PostAndWait(d, type)
      PROVE  CommandsPlaced'
  <2>1. /\ toWorker' = Append(toWorker, Message(type, d))
        /\ UNCHANGED <<toMain, executing>>
    BY <1>1 DEF PostAndWait
  <2>2. /\ Message(type, d) \in MessagesToWorker
        /\ Message(type, d).type # "asyncRelayResult"
    BY MessagesSent DEF Message, Requests
  <2>3. \A r : HowMany(toWorker', AnswerMessages(r)) = HowMany(toWorker, AnswerMessages(r))
    BY <1>0, <2>1, <2>2, SentToWorker, CommandsAreNat DEF One
  <2> QED
    BY <1>0, <2>1, <2>3, CommandsUntouched
<1>2. ASSUME NEW d \in Calls, PostAndWaitDisposed(d) PROVE CommandsPlaced'
  BY <1>0, <1>2, CommandsUntouched DEF PostAndWaitDisposed
<1>3. CASE Cancel \/ StopWith
  <2>1. toWorker' = Append(toWorker, Stop) /\ UNCHANGED <<toMain, executing>>
    BY <1>3 DEF Cancel, StopWith, proxyVars
  <2>2. Stop \in MessagesToWorker /\ Stop.type # "asyncRelayResult"
    BY DEF MessagesToWorker, Stop, Message
  <2>3. \A r : HowMany(toWorker', AnswerMessages(r)) = HowMany(toWorker, AnswerMessages(r))
    BY <1>0, <2>1, <2>2, SentToWorker, CommandsAreNat DEF One
  <2> QED
    BY <1>0, <2>1, <2>3, CommandsUntouched
<1>4. CASE TerminateWorker
  BY <1>4 DEF TerminateWorker, CommandsPlaced
<1>5. CASE HandleReply
  <2>1. /\ toMain # <<>> /\ toMain' = Tail(toMain)
        /\ Head(toMain).type # "asyncRelay"
        /\ UNCHANGED <<toWorker, executing>>
    BY <1>5 DEF HandleReply, Replies
  <2>2. \A r : HowMany(toMain', RelayMessages(r)) = HowMany(toMain, RelayMessages(r))
    BY <1>0, <2>1, TakenFromMain, CommandsAreNat DEF One
  <2> QED
    BY <1>0, <2>1, <2>2, CommandsUntouched
<1>6. CASE HandleAsyncRelay
  <2> DEFINE d == Head(toMain).id
  <2>1. /\ toMain # <<>> /\ toMain' = Tail(toMain) /\ worker' = worker
        /\ Head(toMain).type = "asyncRelay" /\ toWorker' = toWorker
        /\ executing' = executing \union {d}
    BY <1>6 DEF HandleAsyncRelay
  <2>2. \A r : /\ HowMany(toMain', RelayMessages(r)) \in Nat
               /\ HowMany(toMain, RelayMessages(r))
                    = HowMany(toMain', RelayMessages(r)) + One(d = r)
    BY <1>0, <2>1, TakenFromMain
  <2>3. SUFFICES ASSUME NEW r \in Commands
                 PROVE  /\ r \in pendingRelays => CommandPlaces(r)' = 1
                        /\ r \notin issued => CommandPlaces(r)' = 0
    BY <1>0 DEF CommandsPlaced
  <2>4. /\ r \in pendingRelays => CommandPlaces(r) = 1
        /\ r \notin issued => CommandPlaces(r) = 0
    BY DEF CommandsPlaced
  <2>5. CASE d = r
    <3>1. One(d = r) = 1 /\ One(r \in executing)' = 1
          /\ One(r \in executing) \in {0, 1}
          /\ (One(r \in executing) = 0 => One(r \in executing) = 0)
      BY <2>1, <2>5 DEF One
    <3>2. CommandPlaces(r) # 0
      BY <1>0, <2>2, <3>1, CommandsAreNat DEF CommandPlaces
    <3>3. CommandPlaces(r) = 1 => CommandPlaces(r)' = 1
      BY <1>0, <2>1, <2>2, <3>1, CommandsAreNat DEF CommandPlaces
    <3> QED
      BY <2>4, <3>2, <3>3
  <2>6. CASE d # r
    <3>1. One(d = r) = 0 /\ One(r \in executing)' = One(r \in executing)
      BY <2>1, <2>6 DEF One
    <3>2. CommandPlaces(r)' = CommandPlaces(r)
      BY <1>0, <2>1, <2>2, <3>1, CommandsAreNat DEF CommandPlaces
    <3> QED
      BY <2>4, <3>2
  <2> QED
    BY <2>5, <2>6
<1>7. ASSUME NEW d \in Commands, FinishCommand(d) PROVE CommandsPlaced'
  <2>1. /\ d \in executing /\ executing' = executing \ {d} /\ toMain' = toMain
        /\ toWorker' = Append(toWorker, Message("asyncRelayResult", d))
    BY <1>7 DEF FinishCommand
  <2>2. /\ Message("asyncRelayResult", d) \in MessagesToWorker
        /\ Message("asyncRelayResult", d).type = "asyncRelayResult"
        /\ Message("asyncRelayResult", d).id = d
    BY MessagesSent DEF Message
  <2>3. \A r : HowMany(toWorker', AnswerMessages(r))
                = HowMany(toWorker, AnswerMessages(r)) + One(d = r)
    BY <1>0, <2>1, <2>2, SentToWorker
  <2>4. ASSUME NEW r \in Commands
        PROVE  CommandPlaces(r)' = CommandPlaces(r)
    <3>1. /\ One(r \in executing)' + One(d = r) = One(r \in executing)
          /\ One(r \in executing)' \in Nat /\ One(d = r) \in Nat
      BY <2>1 DEF One
    <3> QED
      BY <1>0, <2>1, <2>3, <3>1, CommandsAreNat DEF CommandPlaces
  <2> QED
    BY <1>0, <2>4, CommandsStay
<1> QED
  BY <1>1, <1>2, <1>3, <1>4, <1>5, <1>6, <1>7 DEF ProxyStep

LEMMA CommandsWorkerStep ==
    ASSUME IInv, CommandsPlaced, WorkerStep
    PROVE  CommandsPlaced'
<1>0. TypeOK /\ worker = "alive" /\ UNCHANGED <<worker, executing>>
  BY WorkerStepAlive DEF proxyVars, IInv
<1>1. ASSUME NEW m \in MessagesToMain, toMain' = Append(toMain, m),
             m.type # "asyncRelay"
      PROVE  \A r : HowMany(toMain', RelayMessages(r)) = HowMany(toMain, RelayMessages(r))
  BY <1>0, <1>1, SentToMain, CommandsAreNat DEF One
<1>2. ASSUME toWorker # <<>>, toWorker' = Tail(toWorker),
             Head(toWorker).type # "asyncRelayResult"
      PROVE  \A r : HowMany(toWorker', AnswerMessages(r))
                     = HowMany(toWorker, AnswerMessages(r))
  BY <1>0, <1>2, TakenFromWorker, CommandsAreNat DEF One
<1>3. \A c \in Calls : \A t \in Replies :
        Message(t, c) \in MessagesToMain /\ Message(t, c).type # "asyncRelay"
  BY MessagesSent DEF Message, Replies
<1>4. CASE HandleRunCell \/ HandleStop
  <2>1. /\ toWorker # <<>> /\ toWorker' = Tail(toWorker) /\ toMain' = toMain
        /\ Head(toWorker).type # "asyncRelayResult" /\ issued' = issued
        /\ pendingRelays' \subseteq pendingRelays
    BY <1>4 DEF HandleRunCell, HandleStop, Receive
  <2> QED
    BY <1>0, <1>2, <2>1, CommandsUntouched
<1>5. CASE HandleRunCellThrows \/ HandleReset \/ HandleQuery
  <2>1. /\ toWorker # <<>> /\ toWorker' = Tail(toWorker) /\ issued' = issued
        /\ Head(toWorker).type # "asyncRelayResult"
        /\ pendingRelays' \subseteq pendingRelays
        /\ Head(toWorker).id \in Calls
        /\ \/ toMain' = Append(toMain, Message("result", Head(toWorker).id))
           \/ toMain' = Append(toMain, Message("error", Head(toWorker).id))
    <3>1. Head(toWorker).type \in Requests /\ toWorker # <<>>
      BY <1>5 DEF HandleRunCellThrows, HandleReset, HandleQuery, Receive, Requests
    <3>2. Head(toWorker).id \in Calls
      BY <1>0, <3>1, HeadToWorker DEF TypeOK
    <3> QED
      BY <1>5, <3>1, <3>2
      DEF HandleRunCellThrows, HandleReset, HandleQuery, Receive, Requests, workerVars
  <2>2. "result" \in Replies /\ "error" \in Replies
    BY DEF Replies
  <2>3. \A r : HowMany(toMain', RelayMessages(r)) = HowMany(toMain, RelayMessages(r))
    BY <1>1, <1>3, <2>1, <2>2
  <2> QED
    BY <1>0, <1>2, <2>1, <2>3, CommandsUntouched
<1>6. CASE HandleRelayResult
  <2> DEFINE d == Head(toWorker).id
  <2>1. /\ toWorker # <<>> /\ toWorker' = Tail(toWorker)
        /\ Head(toWorker).type = "asyncRelayResult" /\ issued' = issued
        /\ toMain' = toMain /\ pendingRelays' = pendingRelays \ {d}
    BY <1>6 DEF HandleRelayResult, Receive
  <2>2. \A r : /\ HowMany(toWorker', AnswerMessages(r)) \in Nat
               /\ HowMany(toWorker, AnswerMessages(r))
                    = HowMany(toWorker', AnswerMessages(r)) + One(d = r)
    BY <1>0, <2>1, TakenFromWorker
  <2>3. SUFFICES ASSUME NEW r \in Commands
                 PROVE  /\ r \in pendingRelays' => CommandPlaces(r)' = 1
                        /\ r \notin issued => CommandPlaces(r)' = 0
    BY <2>1 DEF CommandsPlaced
  <2>4. /\ r \in pendingRelays => CommandPlaces(r) = 1
        /\ r \notin issued => CommandPlaces(r) = 0
    BY <1>0 DEF CommandsPlaced
  <2>5. One(r \in executing)' = One(r \in executing) /\ One(r \in executing) \in Nat
    BY <1>0 DEF One
  <2>6. CASE d = r
    <3>1. One(d = r) = 1
      BY <2>6 DEF One
    <3>2. CommandPlaces(r) # 0
      BY <1>0, <2>2, <2>5, <3>1, CommandsAreNat DEF CommandPlaces
    <3> QED
      BY <2>1, <2>4, <2>6, <3>2
  <2>7. CASE d # r
    <3>1. One(d = r) = 0
      BY <2>7 DEF One
    <3>2. CommandPlaces(r)' = CommandPlaces(r)
      BY <1>0, <2>1, <2>2, <2>5, <3>1, CommandsAreNat DEF CommandPlaces
    <3> QED
      BY <2>1, <2>4, <3>2
  <2> QED
    BY <2>6, <2>7
<1>7. ASSUME NEW d \in Commands, FireTimer(d) PROVE CommandsPlaced'
  BY <1>0, <1>7, CommandsUntouched DEF FireTimer
<1>8. ASSUME NEW c \in Calls,
             \/ FsCompletes(c) \/ CellPanics(c)
             \/ \E r \in Commands : CellCallsFs(c, r)
      PROVE  CommandsPlaced'
  <2>1. UNCHANGED <<toWorker, toMain, pendingRelays>> /\ issued \subseteq issued'
    BY <1>8 DEF FsCompletes, CellPanics, CellCallsFs
  <2> QED
    BY <1>0, <2>1, CommandsUntouched
<1>9. ASSUME NEW c \in Calls, CellEnds(c) PROVE CommandsPlaced'
  <2>1. /\ toMain' = Append(toMain, Message("result", c))
        /\ UNCHANGED <<toWorker, pendingRelays, issued>>
    BY <1>9 DEF CellEnds
  <2>2. "result" \in Replies
    BY DEF Replies
  <2>3. \A r : HowMany(toMain', RelayMessages(r)) = HowMany(toMain, RelayMessages(r))
    BY <1>1, <1>3, <2>1, <2>2
  <2> QED
    BY <1>0, <2>1, <2>3, CommandsUntouched
<1>10. ASSUME NEW c \in Calls, NEW d \in Commands, CellRelays(c, d)
       PROVE  CommandsPlaced'
  <2>1. /\ toMain' = Append(toMain, Message("asyncRelay", d)) /\ toWorker' = toWorker
        /\ d \notin issued /\ issued' = issued \union {d}
        /\ pendingRelays' = pendingRelays \union {d}
    BY <1>10 DEF CellRelays
  <2>2. /\ Message("asyncRelay", d) \in MessagesToMain
        /\ Message("asyncRelay", d).type = "asyncRelay"
        /\ Message("asyncRelay", d).id = d
    BY MessagesSent DEF Message
  <2>3. \A r : HowMany(toMain', RelayMessages(r))
                = HowMany(toMain, RelayMessages(r)) + One(d = r)
    BY <1>0, <2>1, <2>2, SentToMain
  <2>4. SUFFICES ASSUME NEW r \in Commands
                 PROVE  /\ r \in pendingRelays' => CommandPlaces(r)' = 1
                        /\ r \notin issued' => CommandPlaces(r)' = 0
    BY DEF CommandsPlaced
  <2>5. /\ r \in pendingRelays => CommandPlaces(r) = 1
        /\ r \notin issued => CommandPlaces(r) = 0
    BY <1>0 DEF CommandsPlaced
  <2>6. One(r \in executing)' = One(r \in executing) /\ One(r \in executing) \in Nat
        /\ One(d = r) \in Nat
    BY <1>0 DEF One
  <2>7. CommandPlaces(r)' = CommandPlaces(r) + One(d = r)
    BY <1>0, <2>1, <2>3, <2>6, CommandsAreNat DEF CommandPlaces
  <2>8. CASE d = r
    BY <2>1, <2>5, <2>7, <2>8 DEF One
  <2>9. CASE d # r
    BY <1>0, <2>1, <2>5, <2>7, <2>9 DEF One
  <2> QED
    BY <2>8, <2>9
<1> QED
  BY <1>4, <1>5, <1>6, <1>7, <1>8, <1>9, <1>10
  DEF WorkerStep, HandleMessage, Poll

-----------------------------------------------------------------------------
LEMMA PlacedInit == Init => CallsPlaced /\ CommandsPlaced
<1> SUFFICES ASSUME Init
             PROVE  CallsPlaced /\ CommandsPlaced
  OBVIOUS
<1>1. /\ \A M : HowMany(toWorker, M) = 0 /\ HowMany(toMain, M) = 0
      /\ \A c \in Calls : ~AtWorker(c)
      /\ executing = {} /\ pendingCalls = {} /\ pendingRelays = {}
  BY NoneInEmpty DEF Init, AtWorker, InFlight
<1> QED
  BY <1>1 DEF CallsPlaced, CommandsPlaced, CallPlaces, CommandPlaces, One

LEMMA PlacedStep ==
    ASSUME IInv, CallsPlaced, CommandsPlaced, [Next]_vars
    PROVE  CallsPlaced' /\ CommandsPlaced'
<1>1. CASE ProxyStep
  <2>1. CASE worker = "alive"
    BY <1>1, <2>1, CallsProxyStep, CommandsProxyStep
  <2>2. CASE worker = "terminated"
    <3>1. worker' = "terminated"
      BY <1>1, <2>2 DEF ProxyStep, PostAndWait, PostAndWaitDisposed, Cancel,
         StopWith, TerminateWorker, HandleReply, HandleAsyncRelay,
         FinishCommand, proxyVars
    <3> QED
      BY <3>1 DEF CallsPlaced, CommandsPlaced
  <2> QED
    BY <2>1, <2>2 DEF IInv, TypeOK
<1>2. CASE WorkerStep
  BY <1>2, CallsWorkerStep, CommandsWorkerStep
<1>3. CASE UNCHANGED vars
  BY <1>3 DEF vars, proxyVars, workerVars, CallsPlaced, CommandsPlaced,
              CallPlaces, CommandPlaces, AtWorker
<1> QED
  BY <1>1, <1>2, <1>3 DEF Next

\* The calls and the commands are where the proxy's map and the worker's map
\* say: the invariant behind the three theorems that follow.
THEOREM EverythingPlaced == Spec => [](IInv /\ CallsPlaced /\ CommandsPlaced)
<1>1. Init => IInv /\ CallsPlaced /\ CommandsPlaced
  BY InvariantInit, PlacedInit
<1>2. IInv /\ CallsPlaced /\ CommandsPlaced /\ [Next]_vars
        => (IInv /\ CallsPlaced /\ CommandsPlaced)'
  BY InvariantStep, PlacedStep
<1> QED
  BY <1>1, <1>2, PTL DEF Spec

\* A pending call of the proxy is a request on its way, a cell in the worker,
\* or a reply on its way, exactly one of them; a call that is not pending is
\* nowhere, so no reply comes twice and none for nobody (handleWorkerMessage).
THEOREM CallsInOnePlace == Spec => []CallInOnePlace
<1>1. IInv /\ CallsPlaced => CallInOnePlace
  BY PlacesByKind DEF IInv, CallsPlaced, CallPlaces, CallInOnePlace, One
<1> QED
  BY EverythingPlaced, <1>1, PTL

\* The command of a relay that is not settled is on its way to the runner, or
\* being executed, or its answer is on its way back, and just once.
THEOREM RelaysUnanswered == Spec => []UnansweredInOnePlace
<1>1. IInv /\ CommandsPlaced => UnansweredInOnePlace
  BY PlacesByKind
  DEF IInv, TypeOK, CommandsPlaced, CommandPlaces, UnansweredInOnePlace, One
<1> QED
  BY EverythingPlaced, <1>1, PTL

\* The cell of a request that is taken from the queue does not run yet.
LEMMA RequestedNotRunning ==
    ASSUME IInv, CallsPlaced, worker = "alive", toWorker # <<>>,
           toWorker' = Tail(toWorker), Head(toWorker).type \in Requests
    PROVE  ~AtWorker(Head(toWorker).id)
<1> DEFINE d == Head(toWorker).id
<1>1. d \in Calls
  BY HeadToWorker DEF IInv, TypeOK
<1>2. CallPlaces(d) \in {0, 1}
  BY <1>1 DEF CallsPlaced, One
<1>3. /\ HowMany(toWorker', RequestMessages(d)) \in Nat
      /\ HowMany(toWorker, RequestMessages(d))
           = HowMany(toWorker', RequestMessages(d)) + 1
      /\ HowMany(toMain, ReplyMessages(d)) \in Nat
  BY TakenFromWorker, CallsAreNat DEF IInv, One
<1>4. One(AtWorker(d)) = 0
  <2>1. One(AtWorker(d)) \in {0, 1}
    BY DEF One
  <2> QED
    BY <1>2, <1>3, <2>1 DEF CallPlaces
<1> QED
  BY <1>4 DEF One

LEMMA NothingLeakedStep ==
    ASSUME IInv, CallsPlaced, [Next]_vars,
           NEW c \in Calls, cell[c] = "waits", cell'[c] # "waits"
    PROVE  awaits[c] \notin pendingRelays'
<1> USE DEF IInv, TypeOK
<1>1. CASE ProxyStep \/ UNCHANGED vars
  BY <1>1, ProxyStepWorker DEF vars, workerVars
<1>2. CASE HandleRunCell
  <2>1. /\ worker = "alive" /\ toWorker # <<>> /\ toWorker' = Tail(toWorker)
        /\ Head(toWorker).type \in Requests
        /\ cell' = [cell EXCEPT ![Head(toWorker).id] = "ready"]
    BY <1>2 DEF HandleRunCell, Receive, Idle, Requests
  <2>2. ~AtWorker(Head(toWorker).id)
    BY <2>1, RequestedNotRunning
  <2>3. c # Head(toWorker).id
    BY <2>2 DEF AtWorker, InFlight
  <2> QED
    BY <2>1, <2>3
<1>3. CASE HandleRunCellThrows \/ HandleStop
  BY <1>3 DEF HandleRunCellThrows, HandleStop
<1>4. CASE HandleReset \/ HandleQuery
  BY <1>4 DEF HandleReset, HandleQuery, workerVars
<1>5. CASE HandleRelayResult
  BY <1>5 DEF HandleRelayResult, Wake
<1>6. ASSUME NEW r \in Commands, FireTimer(r)
      PROVE  awaits[c] \notin pendingRelays'
  BY <1>6 DEF FireTimer, Wake
<1>7. ASSUME NEW d \in Calls, FsCompletes(d) \/ Poll(d)
      PROVE  FALSE
  BY <1>7 DEF FsCompletes, Poll, CellEnds, CellRelays, CellCallsFs, CellPanics, Polled
<1> QED
  BY <1>1, <1>2, <1>3, <1>4, <1>5, <1>6, <1>7 DEF Next, WorkerStep, HandleMessage

\* However the wait of a cell ends, by an answer, a timeout, a stop or an
\* error, its relay has left the map: a late answer finds nothing to resolve.
THEOREM RelaysDoNotLeak == Spec => NoRelayLeaked
<1>1. IInv /\ CallsPlaced /\ [Next]_vars
        => [\A c \in Calls : cell[c] = "waits" /\ cell'[c] # "waits"
                               => awaits[c] \notin pendingRelays']_vars
  BY NothingLeakedStep
<1> QED
  BY EverythingPlaced, <1>1, PTL DEF Spec, NoRelayLeaked
=============================================================================
