---- MODULE MCHost ----
(* Every documented function called in every documented way, in both hosts; the files
   behind fs.*, shared by the sessions of an origin; the handles of a page; and the notebook
   saved by the application.  A behaviour is of one part, the others idle. *)
EXTENDS HostCall, OpfsFiles, PageActions, AutoSave

AllCalls == Functions
Waits == {"web.sleep"}

(* Two files, one in a directory; a third path is free. *)
Dirs == {<<"d">>}
Old == (<<"a">> :> <<1, 1>>) @@ (<<"d", "b">> :> <<2>>)
Paths == {<<>>, <<"a">>, <<"d">>, <<"d", "b">>, <<"e", "c">>}

(* No move of a path onto itself: see the README. *)
Asked ==
    PathRequests({"read", "stat", "list", "mkdir"}, {<<"d">>, <<"d", "b">>, <<"e", "c">>})
    \union PathRequests({"exists", "delete"}, {<<>>, <<"a">>, <<"d">>})
    \union {r \in TransferRequests({"copy", "move"}, Paths \ {<<>>}) : r.path # r.to /\ r.path # <<"e", "c">>}
    \union DataRequests({"write", "append"}, {<<"a">>, <<"e", "c">>}, {<<3>>})
    \union DataRequests({"hash"}, {<<"a">>}, {<<>>})
    \union OffsetRequests({"update"}, {<<"a">>}, {1, 3}, {0}, {<<3>>})
    \union OffsetRequests({"range"}, {<<"a">>}, {0, 1}, {1, 7}, {<<>>})

(* A heading around a control, and a second control. *)
Nesting == (1 :> {1}) @@ (2 :> {1, 2}) @@ (3 :> {3})

Alike == Permutations(Sessions)

VARIABLE part
hostVars == <<vars, fileVars, pageVars, saveVars, part>>

HostInit ==
    /\ part \in {"calls", "files", "pages", "notebook"}
    /\ Init /\ FilesInit /\ PageInit /\ SaveInit
    /\ part # "calls" => name = "web.sleep"
    /\ part # "pages" => platform = "web"

HostNext ==
    \/ part = "calls" /\ Next /\ UNCHANGED <<fileVars, pageVars, saveVars, part>>
    \/ part = "files" /\ FilesNext /\ UNCHANGED <<vars, pageVars, saveVars, part>>
    \/ part = "pages" /\ PageNext /\ UNCHANGED <<vars, fileVars, saveVars, part>>
    \/ part = "notebook" /\ SaveNext /\ UNCHANGED <<vars, fileVars, pageVars, part>>

HostSpec == HostInit /\ [][HostNext]_hostVars
====
