---- MODULE AutoSave ----
(* The notebook of the page and its copy in IndexedDB.  An edit makes a new notebook, the
   page renders it, the effect after the rendering starts a timer, the timer starts a save.
   IndexedDB takes the requests of a page in their order: the load the page began with,
   then the saves.  Any of them may fail, and the page may go away at any time.

   A notebook is the number of the edit that made it.  Renderings and effects are those of
   the preact library. *)
EXTENDS Integers, Sequences

CONSTANT MaxEdits

ASSUME EditsAssumption == MaxEdits \in Nat

None == 0

VARIABLES page,       \* open or leaving
          edits,      \* counts the notebooks made so far
          notebook,   \* useState
          rendered,   \* notebookRef
          effected,   \* the notebook whose effect ran last
          timer,      \* timerRef: the notebook the timer saves, or None
          loading,    \* loadFromIndexedDB: asked, read, done
          saved,      \* what it read
          saves,      \* saves that IndexedDB has not ended
          stored,     \* the copy in IndexedDB
          failed      \* the last save that ended failed (history)
saveVars == <<page, edits, notebook, rendered, effected, timer, loading, saved, saves, stored, failed>>
pipeline == <<notebook, rendered, effected, timer>>

(* useEffect on mount: scheduleSave(notebook), then loadFromIndexedDB(). *)
Opened(new) ==
    /\ page' = "open"
    /\ edits' = new /\ notebook' = new /\ rendered' = new /\ effected' = new /\ timer' = new
    /\ loading' = "asked" /\ saved' = None

SaveInit ==
    /\ page = "open"
    /\ edits = 1 /\ notebook = 1 /\ rendered = 1 /\ effected = 1 /\ timer = 1
    /\ loading = "asked" /\ saved = None
    /\ saves = <<>> /\ stored = None /\ failed = FALSE

(* setNotebook with another notebook: the user, a result of the kernel, the showcase. *)
SetNotebook ==
    /\ page = "open" /\ edits < MaxEdits
    /\ edits' = edits + 1 /\ notebook' = edits + 1
    /\ UNCHANGED <<page, rendered, effected, timer, loading, saved, saves, stored, failed>>

(* Mutant: the timer under way is kept, with the notebook it was set for. *)
ScheduleSaveOnce(nb) == timer' = IF timer = None THEN nb ELSE timer

ScheduleSave(nb) == timer' = nb

(* Effects left over from the rendering before run first. *)
Render ==
    /\ page = "open" /\ rendered # notebook
    /\ rendered' = notebook
    /\ effected' = rendered
    /\ IF effected = rendered THEN UNCHANGED timer ELSE ScheduleSave(rendered)
    /\ UNCHANGED <<page, edits, notebook, loading, saved, saves, stored, failed>>

RunEffects ==
    /\ page = "open" /\ effected # rendered
    /\ effected' = rendered
    /\ ScheduleSave(rendered)
    /\ UNCHANGED <<page, edits, notebook, rendered, loading, saved, saves, stored, failed>>

SaveToIndexedDB(nb) == saves' = Append(saves, nb)

TimerFires ==
    /\ page = "open" /\ timer # None
    /\ timer' = None
    /\ SaveToIndexedDB(timer)
    /\ UNCHANGED <<page, edits, notebook, rendered, effected, loading, saved, stored, failed>>

(* beforeunload: saveNow(notebookRef.current); the page may stay. *)
BeforeUnload(stays) ==
    /\ page = "open" /\ Len(saves) < MaxEdits
    /\ SaveToIndexedDB(rendered)
    /\ page' = IF stays THEN "open" ELSE "leaving"
    /\ UNCHANGED <<edits, pipeline, loading, saved, stored, failed>>

(* The page is gone, or was killed, and opens again: what IndexedDB had not ended is lost. *)
Reopen ==
    /\ edits < MaxEdits
    /\ Opened(edits + 1)
    /\ saves' = <<>>
    /\ UNCHANGED <<stored, failed>>

(* The load was asked for first, and a save waits until it is done. *)
EndSave ==
    /\ loading # "asked" /\ saves # <<>>
    /\ saves' = Tail(saves)
    /\ \/ stored' = Head(saves) /\ failed' = FALSE
       \/ stored' = stored /\ failed' = TRUE
    /\ UNCHANGED <<page, edits, pipeline, loading, saved>>

LoadFromIndexedDB ==
    /\ loading = "asked"
    /\ \/ loading' = "read" /\ saved' = stored
       \/ loading' = "done" /\ UNCHANGED saved
    /\ UNCHANGED <<page, edits, pipeline, saves, stored, failed>>

(* .then(saved => setNotebook({ ...saved, cells })): another notebook, the same cells. *)
Loaded ==
    /\ page = "open" /\ loading = "read"
    /\ loading' = "done"
    /\ IF saved = None THEN UNCHANGED <<edits, notebook>>
       ELSE edits < MaxEdits /\ edits' = edits + 1 /\ notebook' = edits + 1
    /\ UNCHANGED <<page, rendered, effected, timer, saved, saves, stored, failed>>

SaveNext ==
    \/ SetNotebook \/ Render \/ RunEffects \/ TimerFires \/ Reopen
    \/ \E stays \in BOOLEAN : BeforeUnload(stays)
    \/ EndSave \/ LoadFromIndexedDB \/ Loaded

SaveSpec == SaveInit /\ [][SaveNext]_saveVars

(* ---- Properties ---- *)

Newest == IF saves = <<>> THEN stored ELSE saves[Len(saves)]

(* While a page is open, its last edit is stored or on its way: it has to be rendered, or
   its effect to run, or the timer holds it, or the last save does.  It is forgotten only
   if the last save failed. *)
LastEditOnItsWay ==
    page = "open" =>
        \/ notebook # rendered
        \/ rendered # effected
        \/ timer = notebook
        \/ timer = None /\ Newest = notebook
        \/ timer = None /\ saves = <<>> /\ failed
====
