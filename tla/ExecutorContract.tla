--------------------------- MODULE ExecutorContract ---------------------------
(***************************************************************************)
(* What piccolo::Executor promises to whoever drives it: the mode it is in *)
(* and the kind of the result it holds, how many coroutines run above the  *)
(* main thread, and what Executor::step returns.  PiccoloExecutor, with    *)
(* its threads and frames, implements it; NotebookSession relies on it.    *)
(***************************************************************************)
EXTENDS Integers

VARIABLES
    executor,  \* ExecutorMode, the Result mode split by the kind of result
    depth,     \* coroutines above the main thread
    step       \* "running", or what the last step returned, or "idle"

vars == <<executor, depth, step>>

ResultModes == {"Returned", "Errored", "Yielded"}

Init == executor = "None" /\ depth = 0 /\ step = "idle"

(* An operation of the host, which may be followed by step at once.        *)
HostCalls == step # "running" /\ step' \in {"idle", "running"}

(* Executor::start and restart: a function runs on the main thread.        *)
Start == HostCalls /\ executor' = "Normal" /\ depth' = 0

(* Executor::run of an existing thread, whatever mode it is in.            *)
Run ==
    /\ HostCalls
    /\ executor' \in ResultModes \cup {"Normal", "Suspended", "Stopped"}
    /\ depth' = 0

Drop == HostCalls /\ executor' = "None" /\ depth' = 0

Stop ==
    /\ HostCalls /\ executor # "None"
    /\ executor' = "Stopped" /\ depth' = 0

Step ==
    /\ HostCalls /\ executor # "None"
    /\ UNCHANGED <<executor, depth>>

Seen == HostCalls /\ step' = "idle" /\ UNCHANGED <<executor, depth>>

(* A result is taken once; a yield leaves something to resume.             *)
TakeResult ==
    /\ HostCalls
    /\ \/ executor = "Yielded" /\ executor' = "Suspended"
       \/ executor \in {"Returned", "Errored"} /\ executor' = "Stopped"
    /\ UNCHANGED depth

(* resume and resume_err of a suspended main thread, or of a yielded one   *)
(* whose result is taken by the same call of the host.  With nothing left  *)
(* under the yield the main thread is finished at once.                    *)
Resume ==
    /\ HostCalls
    /\ executor \in {"Suspended", "Yielded"}
    /\ executor' \in {"Normal", "Returned", "Errored"}
    /\ UNCHANGED depth

(* One iteration of Executor::step: a coroutine is resumed, yields or      *)
(* returns, or none of these; only with no coroutine above it does the     *)
(* main thread itself yield or end.  The fuel may end with the iteration.  *)
Iterate ==
    /\ step = "running" /\ step' \in {"running", "false"}
    /\ executor = "Normal"
    /\ \/ /\ executor' = "Normal"
          /\ depth' \in {depth - 1, depth, depth + 1} \cap Nat
       \/ /\ depth = 0 /\ depth' = 0
          /\ executor' \in ResultModes

(* executor.rs:172: "If true is returned, then Executor::mode() will no    *)
(* longer be ExecutorMode::Normal".                                        *)
ReturnTrue ==
    /\ step = "running" /\ step' = "true"
    /\ executor # "Normal"
    /\ UNCHANGED <<executor, depth>>

Next ==
    \/ Start \/ Run \/ Drop \/ Stop \/ Step \/ Seen
    \/ TakeResult \/ Resume
    \/ Iterate \/ ReturnTrue

Spec == Init /\ [][Next]_vars

=============================================================================
