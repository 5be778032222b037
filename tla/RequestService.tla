--------------------------- MODULE RequestService ---------------------------
(***************************************************************************)
(* What the proxy of an extension session promises its caller: a call      *)
(* returns a promise, which settles at most once; once the service is      *)
(* closed, every promise settles and no call is accepted.                  *)
(***************************************************************************)
CONSTANT Calls

VARIABLES
    status,     \* of the promise of each call
    open        \* the service takes calls

vars == <<status, open>>

Statuses == {"none", "pending", "resolved", "rejected"}

Init ==
    /\ status = [c \in Calls |-> "none"]
    /\ open = TRUE

Request(c) ==
    /\ status[c] = "none"
    /\ status' = [status EXCEPT ![c] = IF open THEN "pending" ELSE "rejected"]
    /\ UNCHANGED open

Settle(c) ==
    /\ status[c] = "pending"
    /\ \E s \in {"resolved", "rejected"} : status' = [status EXCEPT ![c] = s]
    /\ UNCHANGED open

Close ==
    /\ open
    /\ open' = FALSE
    /\ UNCHANGED status

\* The calls a closed service has not answered are rejected.
Shut ==
    /\ ~open
    /\ \E c \in Calls : status[c] = "pending"
    /\ status' = [c \in Calls |->
                    IF status[c] = "pending" THEN "rejected" ELSE status[c]]
    /\ UNCHANGED open

Next ==
    \/ \E c \in Calls : Request(c) \/ Settle(c)
    \/ Close
    \/ Shut

Spec == Init /\ [][Next]_vars /\ WF_vars(Shut)
=============================================================================
