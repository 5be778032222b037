---- MODULE HostCall ----
(* One call of a documented function, in both hosts: the page that runs a WebSession
   and the browser extension.  The callback builds a command in Lua; the web host
   parses and runs it in one place, while in the extension it passes session.rs
   (files), the worker's relay, the registry of runner.ts, and for an action on a
   page the content script, each with parameter types of its own.

   at[h] is how far the call has come in host h, params[h] what the command holds
   there, taken[h] what the code that carries it out acts on.  stopped[h] remembers
   that the last thing done to the session was stopWith. *)
EXTENDS LuaApi, ExtensionRunner

CONSTANT Calls       \* the functions called

VARIABLES aliased, stopped, name, kinds, at, action, params, taken
vars == <<aliased, stopped, name, kinds, at, action, params, taken>>

Hosts == {"web", "extension"}
Final == {"missing", "raised", "refused", "unknown", "done"}

(* ---- The functions of a session ---- *)

AliasesOf == [web |-> WebAliases, extension |-> ExtensionAliases]
Functions == DOMAIN Core \union DOMAIN WebAliases \union DOMAIN ExtensionAliases
ASSUME CallsAssumption == Calls \subseteq Functions

Has(h, n) == n \in DOMAIN Core \/ (aliased[h] /\ n \in DOMAIN AliasesOf[h])

(* An alias replaces a function of the core by the same name. *)
Api(h, n) ==
    IF n \notin DOMAIN AliasesOf[h] THEN Core[n]
    ELSE IF h = "web" THEN Core[WebAliases[n]] ELSE ExtensionAlias(n)

(* The host whose documentation a call follows: a host that has the function. *)
Documents(n) == IF n \in DOMAIN Core \union DOMAIN WebAliases THEN "web" ELSE "extension"
Documented(n) == CallsOf(Api(Documents(n), n).params)
Arguments(n, ks) == [i \in DOMAIN ks |-> Argument(Api(Documents(n), n).params[i], ks[i])]

Init ==
    /\ aliased = [h \in Hosts |-> TRUE]
    /\ stopped = [h \in Hosts |-> FALSE]
    /\ name \in Calls
    /\ kinds \in Documented(name)
    /\ at = [h \in Hosts |-> "idle"]
    /\ action = [h \in Hosts |-> ""]
    /\ params = [h \in Hosts |-> Absent]
    /\ taken = [h \in Hosts |-> NoFields]

(* ---- The session: reset registers its aliases again, stopWith resets the core only ---- *)

(* Mutant: reset does not register the aliases again. *)
ResetWithoutAliases(h) ==
    /\ at[h] = "idle"
    /\ aliased' = [aliased EXCEPT ![h] = FALSE]
    /\ stopped' = [stopped EXCEPT ![h] = FALSE]
    /\ UNCHANGED <<name, kinds, at, action, params, taken>>

Reset(h) ==
    /\ at[h] = "idle"
    /\ aliased' = [aliased EXCEPT ![h] = TRUE]
    /\ stopped' = [stopped EXCEPT ![h] = FALSE]
    /\ UNCHANGED <<name, kinds, at, action, params, taken>>

StopWith(h) ==
    /\ at[h] = "idle"
    /\ aliased' = [aliased EXCEPT ![h] = FALSE]
    /\ stopped' = [stopped EXCEPT ![h] = TRUE]
    /\ UNCHANGED <<name, kinds, at, action, params, taken>>

(* ---- The callback ---- *)

Goes(h, stage, p) ==
    /\ at' = [at EXCEPT ![h] = stage]
    /\ params' = [params EXCEPT ![h] = p]
    /\ UNCHANGED <<aliased, stopped, name, kinds, taken>>

Stops(h, stage) == Goes(h, stage, params[h]) /\ UNCHANGED action

CarriesOut(h, roles) ==
    /\ at' = [at EXCEPT ![h] = "done"]
    /\ taken' = [taken EXCEPT ![h] = roles]
    /\ UNCHANGED <<aliased, stopped, name, kinds, action, params>>

Callback(h) ==
    /\ at[h] = "idle"
    /\ IF ~Has(h, name) THEN Stops(h, "missing")
       ELSE IF h = "extension" /\ aliased[h] /\ name \in DOMAIN AliasesOnActiveTab THEN Stops(h, "located")
       ELSE LET api == IF aliased[h] THEN Api(h, name) ELSE Core[name]
                p == Sent(api, Arguments(name, kinds))
            IN  IF p = Absent THEN Stops(h, "raised")
                ELSE Goes(h, "sent", p) /\ action' = [action EXCEPT ![h] = api.action]

(* tab.current has answered: the arguments follow the tab, nil for those not given. *)
OnActiveTab ==
    LET given == Arguments(name, kinds)
        wanted == Len(Api("extension", name).params)
        rest == [i \in 1..wanted |-> IF i \in DOMAIN given THEN given[i] ELSE Null]
    IN  /\ at["extension"] = "located"
        /\ Goes("extension", "sent", Array(<<ANumber>> \o rest))
        /\ action' = [action EXCEPT !["extension"] = Api("extension", name).action]

(* ---- WebSession::handle_command ---- *)

WebRuns ==
    LET tool == WebTools[action["web"]]
    IN  /\ at["web"] = "sent" /\ action["web"] \in DOMAIN WebTools
        /\ IF Accepts(tool, params["web"]) THEN CarriesOut("web", Takes(tool, params["web"])) ELSE Stops("web", "refused")

(* Whatever an embedder registered under the name gets the params as they are. *)
HostHandler(h) ==
    /\ at[h] = "sent" /\ action[h] = "host_custom"
    /\ CarriesOut(h, [params |-> params[h]])

WebLacks ==
    /\ at["web"] = "sent" /\ action["web"] \notin DOMAIN WebTools \union {"host_custom"}
    /\ Stops("web", "unknown")

(* ---- The extension ---- *)

RunFile ==
    LET tool == FileTools[action["extension"]]
    IN  /\ at["extension"] = "sent" /\ action["extension"] \in DOMAIN FileTools
        /\ IF Accepts(tool, params["extension"])
            THEN CarriesOut("extension", Takes(tool, params["extension"])) ELSE Stops("extension", "refused")

(* dispatchTool: the schema of the registered tool. *)
SchemaAccepts(act, p) ==
    CASE act \in DOMAIN RunnerTools -> Accepts(RunnerTools[act], p)
      [] act \in DOMAIN Passthrough -> p.kind \in Passthrough[act].accepts
      [] OTHER -> ClipboardAccepts(p)[act]

ParseTool ==
    LET p == Normalized(action["extension"], params["extension"])
    IN  /\ at["extension"] = "sent" /\ action["extension"] \in Registered
        /\ IF SchemaAccepts(action["extension"], p)
            THEN Goes("extension", "parsed", p) /\ UNCHANGED action
            ELSE Stops("extension", "refused")

(* bridgeToTab: the fields of the parsed params, without the tab they go to and
   without a refId of null. *)
Bridged(act, p) ==
    Object([f \in {g \in Fields(RunnerTools[act]) \ {"tabId"} : IsGiven(Field(p, g))} |-> Field(p, f)])

Bridge ==
    /\ at["extension"] = "parsed" /\ action["extension"] \in DOMAIN Bridges
    /\ at' = [at EXCEPT !["extension"] = "bridged"]
    /\ action' = [action EXCEPT !["extension"] = Bridges[@]]
    /\ params' = [params EXCEPT !["extension"] = Bridged(action["extension"], @)]
    /\ taken' = [taken EXCEPT !["extension"] = [tab_id |-> Field(params["extension"], "tabId")]]
    /\ UNCHANGED <<aliased, stopped, name, kinds>>

ContentScript ==
    LET tool == ContentTools[action["extension"]]
    IN  /\ at["extension"] = "bridged"
        /\ IF Accepts(tool, params["extension"])
            THEN CarriesOut("extension", Takes(tool, params["extension"]) @@ taken["extension"])
            ELSE Stops("extension", "refused")

RunTool ==
    LET act == action["extension"]
    IN  /\ at["extension"] = "parsed" /\ act \notin DOMAIN Bridges \union DOMAIN Passthrough
        /\ CarriesOut("extension", IF act \in DOMAIN RunnerTools THEN Takes(RunnerTools[act], params["extension"])
                                   ELSE ClipboardTakes(params["extension"]))

PassToChrome ==
    LET act == action["extension"]
    IN  /\ at["extension"] = "parsed" /\ act \in DOMAIN Passthrough
        /\ Goes("extension", "chrome", Transformed(act, params["extension"]))
        /\ action' = [action EXCEPT !["extension"] = Passthrough[@].chrome]

RunChrome ==
    LET roles == ChromeTakes(params["extension"])
    IN  /\ at["extension"] = "chrome" \/ at["extension"] = "sent"
        /\ action["extension"] \in DOMAIN roles
        /\ CarriesOut("extension", roles[action["extension"]])

RunLegacy ==
    LET roles == LegacyTakes(params["extension"])
    IN  /\ at["extension"] = "sent" /\ action["extension"] \in DOMAIN roles
        /\ CarriesOut("extension", roles[action["extension"]])

LegacyUnknown ==
    LET p == params["extension"]
    IN  /\ at["extension"] = "sent"
        /\ action["extension"] \notin DOMAIN FileTools \union Registered \union DOMAIN LegacyTakes(p)
                                       \union DOMAIN ChromeTakes(p) \union {"host_custom"}
        /\ Stops("extension", "unknown")

Next ==
    \/ \E h \in Hosts : Reset(h) \/ StopWith(h) \/ Callback(h) \/ HostHandler(h)
    \/ OnActiveTab
    \/ WebRuns \/ WebLacks
    \/ RunFile \/ ParseTool \/ Bridge \/ ContentScript \/ RunTool \/ PassToChrome
    \/ RunChrome \/ RunLegacy \/ LegacyUnknown

Spec == Init /\ [][Next]_vars

(* ---- Properties ---- *)

(* The pieces of its arguments the caller gave, and the role each plays. *)
Given ==
    LET documented == Api(Documents(name), name).params
    IN  UNION {Pieces(documented[i], kinds[i]) : i \in DOMAIN kinds}
Role(part) == IF part[2] \in {"whole", "first", "second"} THEN part[1] ELSE part[2]
Arrives(h, part) == Role(part) \in DOMAIN taken[h] /\ part \in taken[h][Role(part)].from

(* Arguments the extension is documented to take and does not: handleChromeApi reads
   the first argument as a record, or only the first entry of a list; the legacy
   snapshots read max_nodes only, and tab_scroll_to looks for a ref_id behind x and y. *)
Dropped ==
       [n \in {"page.snapshot", "page.snapshot_data", "page.snapshot_text", "page.see"} |-> {"interactive_only"}]
    @@ [n \in {"tab.scroll_to", "web.tab.scroll_to"} |-> {"ref_id"}]
    @@ [n \in {"tab.execute_script", "web.tab.execute_script"} |-> {"tab_id", "script"}]
    @@ [n \in {"chrome.bookmarks.search", "web.bookmarks.search"} |-> {"query"}]
    @@ "chrome.runtime.sendMessage" :> {"message", "options"}
    @@ "chrome.tabs.sendMessage" :> {"options"}
    @@ "chrome.scripting.executeScript" :> {"func"}
    @@ "chrome.tabs.remove" :> {"tab_ids"}
    @@ "tab.open" :> {"url"}

MayDrop(h, part) ==
    \/ h = "extension" /\ name \in DOMAIN Dropped /\ Role(part) \in Dropped[name]
    \/ name = "web.mock_async"

(* What the caller passed reaches the code that carries the call out, in the role the
   documentation gives it, through every form the params take on the way. *)
ArgumentsArrive ==
    \A h \in Hosts : at[h] = "done" => \A part \in Given : Arrives(h, part) \/ MayDrop(h, part)

(* Refusals of documented calls: nil for an options table, web.sleep() without its
   optional argument, and page.enter() where it is page.press; in the extension the
   durations typed z.bigint(), a ref_id given as the number it is documented to be,
   and three functions whose params never fit their tool. *)
CallbackRaises ==
    \/ kinds = <<"nil">> /\ name \in DOMAIN Core /\ Core[name].how = "options"
    \/ kinds = <<>> /\ name \in {"web.sleep", "runtime.sleep", "tab.sleep", "sleep", "page.enter"}
ToolRefuses ==
    \/ action["extension"] \in {"fetch", "sleep", "fetch_dom"}
    \/ action["extension"] \in DOMAIN TabBridges /\ Len(kinds) > 1 /\ kinds[2] = "number"
    \/ action["extension"] \in {"clipboard_write", "notifications_create", "sidepanel_unhover"}

(* Otherwise a documented call gets through the types of every stage: the web host
   takes whatever a callback sends. *)
ParamsUnderstood ==
    \A h \in Hosts :
        /\ at[h] = "raised" => CallbackRaises
        /\ at[h] = "refused" => h = "extension" /\ ToolRefuses

(* A program written for the web host runs in the extension, whatever was done to
   the session before, and no documented function is without a host that carries it
   out; stopWith, which takes the aliases away until the next reset, apart. *)
Portable ==
    LET lacks(h) == at[h] \in {"unknown", "missing"}
    IN  /\ at["web"] = "done" /\ lacks("extension") =>
            name \in {"web.mock_async", "sleep"} \/ stopped["extension"]
        /\ lacks("web") /\ lacks("extension") =>
            \/ name \in {"page.tabs", "page.switch", "page.new_tab", "page.open", "page.screenshot"}
            \/ \E h \in Hosts : stopped[h]

(* The README of the extension lists web.fetch and sleep among what a cell can call,
   and fetch.rs documents web.sleep: "Pause execution for a duration." *)
DocumentedCallAccepted == \A h \in Hosts : at[h] # "refused"
====
