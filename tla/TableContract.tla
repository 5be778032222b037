---- MODULE TableContract ----
(* What a Lua program may rely on in a table: a function from keys to values whose absent
   keys hold Nil; #t and the shifts of table.insert and table.remove, which work on some
   border; and next, which visits every key once as long as only fields that exist are
   assigned. *)
EXTENDS Integers

CONSTANTS Integral, Objects, Values, Nil

VARIABLES contents,  \* what every key holds
          walking,   \* a traversal goes on
          owed       \* the keys it has still to visit
contractVars == <<contents, walking, owed>>

Keys == Integral \union Objects
At(k) == IF k \in Keys THEN contents[k] ELSE Nil
Borders == {n \in Integral \union {0} : (n = 0 \/ At(n) # Nil) /\ At(n + 1) = Nil}

ContractInit == contents = [k \in Keys |-> Nil] /\ walking = FALSE /\ owed = {}

Stop == walking' = FALSE /\ owed' = {}

Assign(k, v) ==
    /\ contents' = [contents EXCEPT ![k] = v]
    /\ IF contents[k] = Nil /\ v # Nil THEN Stop
       ELSE walking' = walking /\ owed' = IF v = Nil THEN owed \ {k} ELSE owed

Begin == walking' = TRUE /\ owed' = {k \in Keys : contents[k] # Nil} /\ UNCHANGED contents
Visit(k) == walking /\ k \in owed /\ owed' = owed \ {k} /\ UNCHANGED <<contents, walking>>
End == walking /\ owed = {} /\ Stop /\ UNCHANGED contents

InsertAt(i, v) ==
    \E n \in Borders :
        /\ i \in 1..n + 1
        /\ contents' = [k \in Keys |-> IF k \in Integral /\ k \in i + 1..n + 1 THEN At(k - 1)
                                       ELSE IF k = i THEN v ELSE contents[k]]
        /\ Stop

RemoveAt(i) ==
    \E n \in Borders :
        /\ i \in 1..n
        /\ contents' = [k \in Keys |-> IF k \in Integral /\ k \in i..n - 1 THEN At(k + 1)
                                       ELSE IF k = n THEN Nil ELSE contents[k]]
        /\ Stop

ContractNext ==
    \/ \E k \in Keys, v \in Values \union {Nil} : Assign(k, v)
    \/ Begin \/ End
    \/ \E k \in Keys : Visit(k)
    \/ \E i \in Integral, v \in Values : InsertAt(i, v)
    \/ \E i \in Integral : RemoveAt(i)

ContractSpec == ContractInit /\ [][ContractNext]_contractVars
====
