---- MODULE PageActions ----
(* The page functions that name an element by its handle.  A snapshot numbers elements of
   the document in their data-ref-id attribute and lists them; an action looks its element
   up by the number.  The web host works on its own document.  The extension runs the
   snapshot as a script in the tab and sends the action to the content script of the tab,
   which may not be there yet; meanwhile the page changes, and the user navigates.

   Elements are numbers in document order.  Of an action only the element it acts on is
   kept, and of the errors of chrome only whether the message found a receiver. *)
EXTENDS Integers, Sequences, FiniteSets

CONSTANTS Elements,
          Around,        \* each element with those it lies in
          Controls,      \* the interactive elements; the others have a role too
          NodeLimits,    \* max_nodes
          MaxDocuments

VARIABLES platform,      \* web or extension
          document,      \* counts the documents of the tab
          inPage, hidden,
          number,        \* data-ref-id, 0 when it is not set
          loaded,        \* the manifest's content script ran in this document
          listeners,     \* onMessage listeners the content script left there
          command,
          listed         \* the last snapshot the caller got (history)
pageVars == <<platform, document, inPage, hidden, number, loaded, listeners, command, listed>>
tab == <<document, inPage, hidden, loaded, listeners>>

ASSUME PageAssumption == Elements \subseteq Nat \ {0} /\ MaxDocuments \in Nat

Nothing == [document |-> 0, elements |-> <<>>]
PageCommand(do, handle, interactiveOnly, limit, stage, result) ==
    [do |-> do, handle |-> handle, interactiveOnly |-> interactiveOnly, limit |-> limit, attempt |-> 0,
     at |-> stage, acts |-> <<>>, found |-> Nothing, result |-> result]
NoCommandYet == PageCommand("none", 0, FALSE, 0, "done", "none")

PageInit ==
    /\ platform \in {"web", "extension"}
    /\ document = 1 /\ inPage = Elements /\ hidden = {}
    /\ number = [e \in Elements |-> 0]
    /\ loaded = FALSE /\ listeners = 0
    /\ command = NoCommandYet
    /\ listed = Nothing

(* ---- The page ---- *)

(* traverse skips what is in a hidden element, shouldInclude looks at the element alone. *)
ShouldInclude(e) ==
    /\ e \in inPage
    /\ IF platform = "web" THEN Around[e] \intersect hidden = {} ELSE e \notin hidden

(* The extension has no interactive_only. *)
Selected(interactiveOnly) ==
    {e \in Elements : ShouldInclude(e) /\ (interactiveOnly /\ platform = "web" => e \in Controls)}

Rank(e, S) == Cardinality({d \in S : d <= e})

(* The elements a snapshot lists, in document order: their places are their handles. *)
Collected(interactiveOnly, limit) ==
    LET chosen == Selected(interactiveOnly)
        size == IF Cardinality(chosen) < limit THEN Cardinality(chosen) ELSE limit
    IN  [n \in 1..size |-> CHOOSE e \in chosen : Rank(e, chosen) = n]

(* set_attribute on what is listed; the other elements keep what they have. *)
Numbered(elements) ==
    [e \in Elements |-> IF \E n \in DOMAIN elements : elements[n] = e
                        THEN CHOOSE n \in DOMAIN elements : elements[n] = e
                        ELSE number[e]]

(* querySelector: the first of the document. *)
Bearers(handle) == {e \in inPage : number[e] = handle}
GetElementByRefId(handle) == CHOOSE e \in Bearers(handle) : \A d \in Bearers(handle) : e <= d

(* ---- Commands ---- *)

InProgress == command.at # "done"
At(c, stage) == [c EXCEPT !.at = stage]

AskSnapshot(interactiveOnly, limit) ==
    /\ ~InProgress
    /\ command' = PageCommand("snapshot", 0, interactiveOnly, limit,
                              IF platform = "web" THEN "here" ELSE "scripting", "busy")
    /\ UNCHANGED <<tab, platform, number, listed>>

(* The caller uses the handles of its last snapshot. *)
AskAction(handle) ==
    /\ ~InProgress /\ handle \in DOMAIN listed.elements
    /\ command' = PageCommand("action", handle, FALSE, 0,
                              IF platform = "web" THEN "here" ELSE "sending", "busy")
    /\ UNCHANGED <<tab, platform, number, listed>>

(* In the document itself, by execute_dom_snapshot or by the script of executeInTab. *)
TakeSnapshot ==
    LET elements == Collected(command.interactiveOnly, command.limit)
    IN  /\ command.do = "snapshot" /\ command.at \in {"here", "scripting"}
        /\ number' = Numbered(elements)
        /\ command' = [At(command, "answering") EXCEPT !.found = [document |-> document, elements |-> elements]]
        /\ UNCHANGED <<tab, platform, listed>>

(* What the listeners, all of them, do with a message. *)
Handled(times) ==
    IF Bearers(command.handle) = {} THEN [At(command, "answering") EXCEPT !.result = "E_CONTENT_SCRIPT"]
    ELSE LET act == [document |-> document, element |-> GetElementByRefId(command.handle)]
         IN  [At(command, "answering") EXCEPT !.acts = @ \o [i \in 1..times |-> act]]

ActHere ==
    /\ command.do = "action" /\ command.at = "here"
    /\ command' = Handled(1)
    /\ UNCHANGED <<tab, platform, number, listed>>

ActInTab ==
    /\ command.at = "sending" /\ listeners > 0
    /\ command' = Handled(listeners)
    /\ UNCHANGED <<tab, platform, number, listed>>

AnswerCaller ==
    /\ command.at = "answering"
    /\ command' = [At(command, "done") EXCEPT !.result = IF @ = "busy" THEN "ok" ELSE @]
    /\ listed' = IF command.do = "snapshot" THEN command.found ELSE listed
    /\ UNCHANGED <<tab, platform, number>>

(* Mutant: every failed message is sent again. *)
RetryableAlways(error) == TRUE

Retryable(error) == error = "no receiver"

(* sendMessage rejects: nobody listens, or the port closed before the answer. *)
Rejects(error) ==
    /\ platform = "extension"
    /\ CASE error = "no receiver" -> command.at = "sending" /\ listeners = 0
         [] error = "port closed" -> command.at \in {"scripting", "sending", "answering"}
    /\ command' =
            IF command.do = "action" /\ Retryable(error) /\ command.attempt < 4
            THEN At(command, IF command.attempt = 0 THEN "injecting" ELSE "waiting")
            ELSE [At(command, "done") EXCEPT !.result = error]
    /\ UNCHANGED <<tab, platform, number, listed>>

(* __luaNotebookContentScriptInjected: the second script in a document throws. *)
ContentScriptRun(there) == IF there > 0 THEN there ELSE there + 1

(* executeScript, then the pause. *)
Inject ==
    /\ command.at = "injecting"
    /\ \/ /\ listeners' = ContentScriptRun(listeners)
          /\ command' = At(command, "waiting")
       \/ /\ command' = [At(command, "done") EXCEPT !.result = "no injection"]
          /\ UNCHANGED listeners
    /\ UNCHANGED <<document, inPage, hidden, loaded, platform, number, listed>>

Retry ==
    /\ command.at = "waiting"
    /\ command' = [At(command, "sending") EXCEPT !.attempt = @ + 1]
    /\ UNCHANGED <<tab, platform, number, listed>>

(* ---- The browser and its user ---- *)

LoadContentScript ==
    /\ platform = "extension" /\ ~loaded
    /\ loaded' = TRUE
    /\ listeners' = ContentScriptRun(listeners)
    /\ UNCHANGED <<document, inPage, hidden, platform, number, command, listed>>

(* The document of the web host is the program's own. *)
Navigate ==
    /\ platform = "extension" /\ document < MaxDocuments
    /\ document' = document + 1
    /\ inPage' = Elements /\ hidden' = {}
    /\ number' = [e \in Elements |-> 0]
    /\ loaded' = FALSE /\ listeners' = 0
    /\ UNCHANGED <<platform, command, listed>>

Toggle(e) ==
    /\ e \in inPage
    /\ hidden' = IF e \in hidden THEN hidden \ {e} ELSE hidden \union {e}
    /\ UNCHANGED <<document, inPage, loaded, listeners, platform, number, command, listed>>

(* A new element bears no number. *)
Replace(e) ==
    /\ IF e \in inPage
       THEN inPage' = inPage \ {e} /\ hidden' = hidden \ {e}
       ELSE inPage' = inPage \union {e} /\ UNCHANGED hidden
    /\ number' = [number EXCEPT ![e] = 0]
    /\ UNCHANGED <<document, loaded, listeners, platform, command, listed>>

PageNext ==
    \/ \E interactiveOnly \in BOOLEAN, limit \in NodeLimits : AskSnapshot(interactiveOnly, limit)
    \/ \E handle \in DOMAIN listed.elements : AskAction(handle)
    \/ TakeSnapshot \/ ActHere \/ ActInTab \/ AnswerCaller
    \/ \E error \in {"no receiver", "port closed"} : Rejects(error)
    \/ Inject \/ Retry \/ LoadContentScript \/ Navigate
    \/ \E e \in Elements : Toggle(e) \/ Replace(e)

PageSpec == PageInit /\ [][PageNext]_pageVars

(* ---- Properties ---- *)

(* Whatever the retries of sendMessageToTab, the injections and the navigations of the user
   do to each other, an action is done at most once; it was done if it is answered ok, and
   it was not done if the answer is any error but that of a closed port. *)
ActsAsAnswered ==
    LET times == Len(command.acts)
    IN  /\ times <= 1
        /\ command.do = "action" =>
                /\ command.result = "ok" => times = 1
                /\ command.result \in {"E_CONTENT_SCRIPT", "no receiver", "no injection"} => times = 0

(* "Handles are scoped to a single snapshot": an action acts on the element that the
   snapshot the handle comes from lists under it. *)
HandleOfSnapshot ==
    \A i \in DOMAIN command.acts :
        /\ command.acts[i].document = listed.document
        /\ command.acts[i].element = listed.elements[command.handle]
====
