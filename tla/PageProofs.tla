---- MODULE PageProofs ----
(* The two components that act on a page: what the notebook's page saves, and what the
   actions of a script do to the page of a tab.  They share no state; their theorems are
   apart. *)
EXTENDS AutoSave, PageActions, TLAPS

(* ---- The notebook: the last edit is never forgotten on its way to IndexedDB, however
   many edits, saves under way and pages there are ---- *)

(* LastEditOnItsWay needs to know that a new notebook is not the rendered one. *)
TypesAndBounds ==
    /\ edits \in Nat /\ notebook \in Nat /\ rendered \in Nat
    /\ effected \in Nat /\ timer \in Nat /\ stored \in Nat
    /\ saves \in Seq(Nat)
    /\ rendered <= edits /\ notebook <= edits

SInv == TypesAndBounds /\ LastEditOnItsWay

(* The save that is asked for last is the newest. *)
LEMMA NewestOfAppend ==
    ASSUME NEW s \in Seq(Nat), NEW nb \in Nat
    PROVE  /\ Append(s, nb) \in Seq(Nat)
           /\ Append(s, nb) # <<>>
           /\ Append(s, nb)[Len(Append(s, nb))] = nb
  OBVIOUS

(* The end of a save does not change which one is the newest. *)
LEMMA NewestOfTail ==
    ASSUME NEW s \in Seq(Nat), s # <<>>
    PROVE  /\ Tail(s) \in Seq(Nat)
           /\ Tail(s) # <<>> => Tail(s)[Len(Tail(s))] = s[Len(s)]
           /\ Tail(s) = <<>> => Head(s) = s[Len(s)]
           /\ Head(s) \in Nat
<1>1. Tail(s) \in Seq(Nat) /\ Head(s) \in Nat /\ Head(s) = s[1] /\ Len(s) \in Nat /\ Len(s) > 0
  OBVIOUS
<1>2. Len(Tail(s)) = Len(s) - 1 /\ \A i \in 1..Len(s) - 1 : Tail(s)[i] = s[i + 1]
  OBVIOUS
<1>3. Tail(s) = <<>> => Len(s) = 1
  <2>1. Len(<<>>) = 0
    OBVIOUS
  <2>2. Tail(s) = <<>> => Len(Tail(s)) = 0
    BY <2>1, Zenon
  <2> QED  BY <1>1, <1>2, <2>2
<1>4. Tail(s) # <<>> => Len(s) - 1 \in 1..Len(s) - 1
  BY <1>1, <1>2
<1> QED  BY <1>1, <1>2, <1>3, <1>4

LEMMA InitSInv == SaveInit => SInv
  BY DEF SaveInit, SInv, TypesAndBounds, LastEditOnItsWay, None

LEMMA NextTypes ==
    ASSUME SInv, SaveNext
    PROVE  TypesAndBounds'
<1> USE DEF SInv, TypesAndBounds, None
<1>1. CASE SetNotebook \/ Render \/ RunEffects
  BY <1>1 DEF SetNotebook, Render, RunEffects, ScheduleSave
<1>2. CASE TimerFires
  BY <1>2, NewestOfAppend DEF TimerFires, SaveToIndexedDB
<1>3. ASSUME NEW stays \in BOOLEAN, BeforeUnload(stays)
      PROVE  TypesAndBounds'
  BY <1>3, NewestOfAppend DEF BeforeUnload, SaveToIndexedDB, pipeline
<1>4. CASE Reopen
  BY <1>4 DEF Reopen, Opened
<1>5. CASE EndSave
  BY <1>5, NewestOfTail DEF EndSave, pipeline
<1>6. CASE LoadFromIndexedDB \/ Loaded
  BY <1>6 DEF LoadFromIndexedDB, Loaded, pipeline
<1> QED  BY <1>1, <1>2, <1>3, <1>4, <1>5, <1>6 DEF SaveNext

LEMMA NextOnItsWay ==
    ASSUME SInv, SaveNext
    PROVE  LastEditOnItsWay'
<1> USE DEF SInv, TypesAndBounds, LastEditOnItsWay, Newest, None
<1>1. CASE SetNotebook
  BY <1>1 DEF SetNotebook
<1>2. CASE Render \/ RunEffects
  BY <1>2 DEF Render, RunEffects, ScheduleSave
<1>3. CASE TimerFires
  BY <1>3, NewestOfAppend DEF TimerFires, SaveToIndexedDB
<1>4. ASSUME NEW stays \in BOOLEAN, BeforeUnload(stays)
      PROVE  LastEditOnItsWay'
  BY <1>4, NewestOfAppend DEF BeforeUnload, SaveToIndexedDB, pipeline
<1>5. CASE Reopen
  BY <1>5 DEF Reopen, Opened
<1>6. CASE EndSave
  BY <1>6, NewestOfTail DEF EndSave, pipeline
<1>7. CASE LoadFromIndexedDB \/ Loaded
  BY <1>7 DEF LoadFromIndexedDB, Loaded, pipeline
<1> QED  BY <1>1, <1>2, <1>3, <1>4, <1>5, <1>6, <1>7 DEF SaveNext

LEMMA StutterSInv == SInv /\ UNCHANGED saveVars => SInv'
  BY DEF SInv, TypesAndBounds, LastEditOnItsWay, Newest, saveVars

(* An edit is rendered, scheduled, being saved or stored at any time, unless its save
   failed: no timer, no early save and no late load makes the application forget it. *)
THEOREM EditsAreSaved == SaveSpec => []LastEditOnItsWay
<1>1. SInv /\ [SaveNext]_saveVars => SInv'
  BY NextTypes, NextOnItsWay, StutterSInv DEF SInv
<1>2. SInv => LastEditOnItsWay
  BY DEF SInv
<1> QED  BY InitSInv, <1>1, <1>2, PTL DEF SaveSpec

-----------------------------------------------------------------------------
(* ---- The actions: one is done at most once and as it is answered, for any page, any
   snapshots and any number of documents ---- *)

(* A command has these fields and no other. *)
Shape(c) ==
    c = [do |-> c.do, handle |-> c.handle, limit |-> c.limit, interactiveOnly |-> c.interactiveOnly,
         attempt |-> c.attempt, at |-> c.at, acts |-> c.acts, found |-> c.found, result |-> c.result]

(* Only actions are sent as messages. *)
SendsActions(c) == c.at \in {"sending", "injecting", "waiting"} => c.do = "action"

(* Before a message is handled nothing was done, whatever was sent and injected before. *)
NothingYet(c) ==
    c.at \in {"here", "scripting", "sending", "injecting", "waiting"} => c.acts = <<>> /\ c.result = "busy"

(* Once it is handled, the answer under way says what was done. *)
AnswerTrue(c) ==
    c.at = "answering" /\ c.do = "action" =>
        \/ c.result = "busy" /\ Len(c.acts) = 1
        \/ c.result = "E_CONTENT_SCRIPT" /\ c.acts = <<>>

(* What has been answered, or has ended without an answer: ActsAsAnswered of c. *)
DoneAsAnswered(c) ==
    /\ c.do # "action" => c.acts = <<>>
    /\ Len(c.acts) <= 1
    /\ c.do = "action" =>
            /\ c.result = "ok" => Len(c.acts) = 1
            /\ c.result \in {"E_CONTENT_SCRIPT", "no receiver", "no injection"} => Len(c.acts) = 0

Sound(c) == Shape(c) /\ SendsActions(c) /\ NothingYet(c) /\ AnswerTrue(c) /\ DoneAsAnswered(c)

(* A document has one listener at most: the content script sees that it is there. *)
IInv == Sound(command) /\ listeners \in {0, 1}

LEMMA EmptyLength == Len(<<>>) = 0
OBVIOUS

LEMMA PageCommandSound ==
    ASSUME NEW do, NEW handle, NEW interactiveOnly, NEW limit,
           NEW stage, stage # "answering",
           stage \in {"sending", "injecting", "waiting"} => do = "action",
           NEW result, result \notin {"ok", "E_CONTENT_SCRIPT"}, stage # "done" => result = "busy"
    PROVE  Sound(PageCommand(do, handle, interactiveOnly, limit, stage, result))
BY EmptyLength DEF PageCommand, Sound, Shape, SendsActions, NothingYet, AnswerTrue, DoneAsAnswered

(* What an update of one field leaves as it was. *)
LEMMA AtStage ==
    ASSUME NEW c, Shape(c), NEW stage
    PROVE  LET d == At(c, stage)
           IN  Shape(d) /\ d.do = c.do /\ d.at = stage /\ d.acts = c.acts /\ d.result = c.result
BY DEF At, Shape

LEMMA AttemptField ==
    ASSUME NEW c, Shape(c), NEW x
    PROVE  LET d == [c EXCEPT !.attempt = x]
           IN  Shape(d) /\ d.do = c.do /\ d.at = c.at /\ d.acts = c.acts /\ d.result = c.result
BY DEF Shape

LEMMA FoundField ==
    ASSUME NEW c, Shape(c), NEW x
    PROVE  LET d == [c EXCEPT !.found = x]
           IN  Shape(d) /\ d.do = c.do /\ d.at = c.at /\ d.acts = c.acts /\ d.result = c.result
BY DEF Shape

LEMMA ResultField ==
    ASSUME NEW c, Shape(c), NEW x
    PROVE  LET d == [c EXCEPT !.result = x]
           IN  Shape(d) /\ d.do = c.do /\ d.at = c.at /\ d.acts = c.acts /\ d.result = x
BY DEF Shape

LEMMA ActsField ==
    ASSUME NEW c, Shape(c), NEW x
    PROVE  LET d == [c EXCEPT !.acts = x]
           IN  Shape(d) /\ d.do = c.do /\ d.at = c.at /\ d.acts = x /\ d.result = c.result
BY DEF Shape

(* An action that was not done yet may be sent, wait, or be sent again. *)
LEMMA WaitingSound ==
    ASSUME NEW c, Sound(c), c.at \in {"sending", "injecting", "waiting"},
           NEW stage \in {"sending", "injecting", "waiting"}, NEW x
    PROVE  Sound(At(c, stage)) /\ Sound([At(c, stage) EXCEPT !.attempt = x])
<1> DEFINE next == At(c, stage)
           again == [next EXCEPT !.attempt = x]
<1>1. c.acts = <<>> /\ c.result = "busy" /\ c.do = "action"
  BY DEF Sound, SendsActions, NothingYet
<1>2. /\ Shape(next) /\ next.do = "action" /\ next.at = stage
      /\ next.acts = <<>> /\ next.result = "busy"
  BY <1>1, AtStage DEF Sound
<1> HIDE DEF next
<1>3. /\ Shape(again) /\ again.do = "action" /\ again.at = stage
      /\ again.acts = <<>> /\ again.result = "busy"
  BY <1>2, AttemptField, Zenon
<1> HIDE DEF again
<1>4. Sound(next) /\ Sound(again)
  BY <1>2, <1>3, EmptyLength DEF Sound, SendsActions, NothingYet, AnswerTrue, DoneAsAnswered
<1> QED
  BY <1>4, Zenon DEF again, next

(* A snapshot does nothing to an element but number it. *)
LEMMA SnapshotSound ==
    ASSUME NEW c, Sound(c), c.do = "snapshot", c.at \in {"here", "scripting"}, NEW x
    PROVE  Sound([At(c, "answering") EXCEPT !.found = x])
<1> DEFINE taken == At(c, "answering")
           next == [taken EXCEPT !.found = x]
<1>1. /\ Shape(taken) /\ taken.do = "snapshot" /\ taken.at = "answering"
      /\ taken.acts = <<>> /\ taken.result = "busy"
  BY AtStage DEF Sound, NothingYet
<1> HIDE DEF taken
<1>2. /\ Shape(next) /\ next.do = "snapshot" /\ next.at = "answering"
      /\ next.acts = <<>> /\ next.result = "busy"
  BY <1>1, FoundField, Zenon
<1> HIDE DEF next
<1>3. Sound(next)
  BY <1>2, EmptyLength DEF Sound, SendsActions, NothingYet, AnswerTrue, DoneAsAnswered
<1> QED
  BY <1>3, Zenon DEF next, taken

(* The answer arrives. *)
LEMMA AnsweredSound ==
    ASSUME NEW c, Sound(c), c.at = "answering"
    PROVE  Sound([At(c, "done") EXCEPT !.result = IF c.result = "busy" THEN "ok" ELSE c.result])
<1> DEFINE answered == At(c, "done")
           result == IF c.result = "busy" THEN "ok" ELSE c.result
           next == [answered EXCEPT !.result = result]
<1>1. Shape(answered) /\ answered.do = c.do /\ answered.at = "done" /\ answered.acts = c.acts
  BY AtStage DEF Sound
<1> HIDE DEF answered, result
<1>2. Shape(next) /\ next.do = c.do /\ next.at = "done" /\ next.acts = c.acts /\ next.result = result
  BY <1>1, ResultField, Zenon
<1> HIDE DEF next
<1>3. Sound(next)
  BY <1>2, EmptyLength DEF Sound, SendsActions, NothingYet, AnswerTrue, DoneAsAnswered, result
<1> QED
  BY <1>3, Zenon DEF next, answered, result

(* It may end, with an error that says that it reached nobody only if it did not. *)
LEMMA EndedSound ==
    ASSUME NEW c, Sound(c), NEW error,
           error \in {"no receiver", "no injection"} => c.at \in {"sending", "injecting"},
           error \notin {"ok", "E_CONTENT_SCRIPT"}
    PROVE  Sound([At(c, "done") EXCEPT !.result = error])
<1> DEFINE ended == At(c, "done")
           next == [ended EXCEPT !.result = error]
<1>1. Shape(ended) /\ ended.do = c.do /\ ended.at = "done" /\ ended.acts = c.acts
  BY AtStage DEF Sound
<1> HIDE DEF ended
<1>2. Shape(next) /\ next.do = c.do /\ next.at = "done" /\ next.acts = c.acts /\ next.result = error
  BY <1>1, ResultField, Zenon
<1> HIDE DEF next
<1>3. Sound(next)
  BY <1>2, EmptyLength DEF Sound, SendsActions, NothingYet, AnswerTrue, DoneAsAnswered
<1> QED
  BY <1>3, Zenon DEF next, ended

(* One listener does what it is told once, or finds no element and does nothing. *)
LEMMA HandledSound ==
    ASSUME Sound(command), command.do = "action", command.at \in {"here", "sending"}, NEW times, times = 1
    PROVE  Sound(Handled(times))
<1> DEFINE before == At(command, "answering")
           act == [document |-> document, element |-> GetElementByRefId(command.handle)]
           one == [i \in 1..times |-> act]
           refused == [before EXCEPT !.result = "E_CONTENT_SCRIPT"]
           done == <<>> \o one
           did == [before EXCEPT !.acts = @ \o one]
<1>1. command.acts = <<>> /\ command.result = "busy"
  BY DEF Sound, NothingYet
<1>2. Len(done) = 1
  <2>1. one \in Seq({act}) /\ Len(one) = 1
    OBVIOUS
  <2> QED BY <2>1
<1>3. /\ Shape(before) /\ before.do = "action" /\ before.at = "answering"
      /\ before.acts = <<>> /\ before.result = "busy"
  BY <1>1, AtStage DEF Sound
<1> HIDE DEF before, one
<1>4. /\ Shape(refused) /\ refused.at = "answering"
      /\ refused.acts = <<>> /\ refused.result = "E_CONTENT_SCRIPT"
  BY <1>3, ResultField, Zenon
<1>5. Shape(did) /\ did.do = "action" /\ did.at = "answering" /\ did.acts = done /\ did.result = "busy"
  BY <1>3, ActsField, Zenon
<1> HIDE DEF refused, did, done
<1>6. Sound(refused)
  BY <1>4, EmptyLength DEF Sound, SendsActions, NothingYet, AnswerTrue, DoneAsAnswered
<1>7. Sound(did)
  <2>1. Len(did.acts) = 1
    BY <1>2, <1>5, Zenon
  <2>2. SendsActions(did) /\ NothingYet(did)
    BY <1>5 DEF SendsActions, NothingYet
  <2>3. AnswerTrue(did) /\ DoneAsAnswered(did)
    BY <1>5, <2>1 DEF AnswerTrue, DoneAsAnswered
  <2> QED
    BY <1>5, <2>2, <2>3 DEF Sound
<1> QED
  BY <1>6, <1>7, Zenon DEF Handled, refused, did, before, one

(* It holds at the start. *)
LEMMA InitIInv == PageInit => IInv
<1>1. Sound(NoCommandYet)
  BY PageCommandSound, Zenon DEF NoCommandYet
<1> QED
  BY <1>1 DEF PageInit, IInv

(* Every step keeps it. *)
LEMMA StepIInv == IInv /\ [PageNext]_pageVars => IInv'
<1> SUFFICES ASSUME IInv, [PageNext]_pageVars PROVE Sound(command') /\ listeners' \in {0, 1}
  BY DEF IInv, Sound, Shape, SendsActions, NothingYet, AnswerTrue, DoneAsAnswered
<1> USE DEF IInv
<1>1. ASSUME NEW interactiveOnly \in BOOLEAN, NEW limit \in NodeLimits, AskSnapshot(interactiveOnly, limit)
      PROVE  Sound(command') /\ listeners' \in {0, 1}
  BY <1>1, PageCommandSound DEF AskSnapshot, tab
<1>2. ASSUME NEW handle \in DOMAIN listed.elements, AskAction(handle)
      PROVE  Sound(command') /\ listeners' \in {0, 1}
  BY <1>2, PageCommandSound DEF AskAction, tab
<1>3. CASE TakeSnapshot
  BY <1>3, SnapshotSound DEF TakeSnapshot, tab
<1>4. CASE ActHere
  BY <1>4, HandledSound DEF ActHere, tab
<1>5. CASE ActInTab
  <2>1. command.do = "action"
    BY <1>5 DEF ActInTab, Sound, SendsActions
  <2> QED
    BY <1>5, <2>1, HandledSound DEF ActInTab, tab
<1>6. CASE AnswerCaller
  <2>1. At(command, "done").result = command.result
    BY AtStage DEF Sound
  <2> QED
    BY <1>6, <2>1, AnsweredSound DEF AnswerCaller, tab
<1>7. ASSUME NEW error \in {"no receiver", "port closed"}, Rejects(error)
      PROVE  Sound(command') /\ listeners' \in {0, 1}
  <2>1. listeners' = listeners
    BY <1>7 DEF Rejects, tab
  <2>2. error = "no receiver" => command.at = "sending"
    BY <1>7 DEF Rejects
  <2>3. CASE command' = [At(command, "done") EXCEPT !.result = error]
    BY <2>1, <2>2, <2>3, EndedSound
  <2>4. CASE /\ Retryable(error)
             /\ command' = At(command, IF command.attempt = 0 THEN "injecting" ELSE "waiting")
    BY <2>1, <2>2, <2>4, WaitingSound DEF Retryable
  <2> QED
    BY <1>7, <2>3, <2>4 DEF Rejects
<1>8. CASE Inject
  <2>1. CASE command' = At(command, "waiting") /\ listeners' = ContentScriptRun(listeners)
    <3>1. command.at = "injecting" /\ listeners' \in {0, 1}
      BY <1>8, <2>1 DEF Inject, ContentScriptRun
    <3> QED
      BY <2>1, <3>1, WaitingSound
  <2>2. CASE command' = [At(command, "done") EXCEPT !.result = "no injection"] /\ listeners' = listeners
    BY <1>8, <2>2, EndedSound DEF Inject
  <2> QED
    BY <1>8, <2>1, <2>2 DEF Inject
<1>9. CASE Retry
  <2>1. command' = [At(command, "sending") EXCEPT !.attempt = At(command, "sending").attempt + 1]
    BY <1>9 DEF Retry
  <2> QED
    BY <1>9, <2>1, WaitingSound DEF Retry, tab
<1>10. CASE LoadContentScript
  BY <1>10 DEF LoadContentScript, ContentScriptRun
<1>11. CASE Navigate
  BY <1>11 DEF Navigate
<1>12. ASSUME NEW e \in Elements, Toggle(e) \/ Replace(e)
       PROVE  Sound(command') /\ listeners' \in {0, 1}
  BY <1>12 DEF Toggle, Replace
<1>13. CASE UNCHANGED pageVars
  BY <1>13 DEF pageVars
<1> QED
  BY <1>1, <1>2, <1>3, <1>4, <1>5, <1>6, <1>7, <1>8, <1>9, <1>10, <1>11, <1>12, <1>13 DEF PageNext

(* The retries of sendMessageToTab and the injections of the content script never do an
   action twice, and every answer but a closed port says whether it was done. *)
THEOREM PageActsAsAnswered == PageSpec => []ActsAsAnswered
<1>1. IInv => ActsAsAnswered
  BY DEF IInv, Sound, DoneAsAnswered, ActsAsAnswered
<1> QED
  BY <1>1, InitIInv, StepIInv, PTL DEF PageSpec
====
