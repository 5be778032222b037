---- MODULE MCLanguage ----
(* Three parts of the interpreter side by side: the registers of the compiler under every
   order of requests, the scopes, jumps and closures of a function, and a table.  A
   behaviour is of one part; the others idle. *)
EXTENDS RegisterClient, LuaScopes, LuaTable

VARIABLE part
all == <<vars, scopeVars, tableVars, part>>

LanguageInit ==
    /\ part \in {"registers", "scopes", "table"}
    /\ Init /\ ScopeInit /\ TableInit
    /\ part # "scopes" => ~open[1].ret /\ f.fixed_params = 0
    /\ part # "table" => array = <<>> /\ room = 0

LanguageNext ==
    \/ part = "registers" /\ Next /\ UNCHANGED <<scopeVars, tableVars, part>>
    \/ part = "scopes" /\ ScopeNext /\ UNCHANGED <<vars, tableVars, part>>
    \/ part = "table" /\ TableNext /\ UNCHANGED <<vars, scopeVars, part>>

LanguageSpec == LanguageInit /\ [][LanguageNext]_all

Alike == Permutations(Objects)

(* Every variable has its type; no key of a table is in both of its parts. *)
LanguageTypeOK == TypeOK /\ ScopesTypeOK /\ TableTypeOK
====
