---- MODULE LuaApi ----
(* The functions a Lua cell can call that end in a command to the host
   (web-lua-core, src/web/): for each, the parameters its documentation gives
   it and the command its callback builds.

   A function of the documentation is called with one kind of value per argument.
   Required parameters are given; the optional ones after the last required one may
   be left out, from the right; a parameter "T | nil" may be given as nil. *)
EXTENDS HostValues, TLC

Needs(name, kinds) == [name |-> name, kinds |-> kinds, required |-> TRUE, options |-> NoFields]
May(name, kinds) == [Needs(name, kinds) EXCEPT !.required = FALSE]
Table == {"table"}
OptionsOf(name, options) == [May(name, {"table", "nil"}) EXCEPT !.options = options]

(* How a callback builds the params of its command.  "named": one entry per field,
   each from an argument; "options": the first argument, checked to be an options
   table; "positional" (the macro lua_api!): nothing gives {}, one argument itself,
   several an array. *)
Command(action, params, how, fields) ==
    [action |-> action, params |-> params, how |-> how, fields |-> fields]
Named(action, params, fields) == Command(action, params, "named", fields)
Positional(action, params) == Command(action, params, "positional", NoFields)
Options(action, options) == Command(action, <<OptionsOf("opts", options)>>, "options", NoFields)

(* Where an entry comes from: an argument, an option of it, or its default.  An
   entry without a default makes the callback raise an error when it is missing. *)
From(i) == [arg |-> i, key |-> "", encodes |-> FALSE, default |-> Absent]
FromOr(i, default) == [From(i) EXCEPT !.default = default]
Option(i, key, default) == [FromOr(i, default) EXCEPT !.key = key]
Encode(i) == [From(i) EXCEPT !.encodes = TRUE]

RefId == Needs("ref_id", String)
TabId == Needs("tab_id", Number)
SnapshotOptions == [interactive_only |-> "boolean", max_nodes |-> "number"]
ByRef == [refId |-> From(1)]
ByLabel == [refId |-> From(1), label |-> From(1)]

PageReading ==
       "page.snapshot" :> Options("page_snapshot_text", SnapshotOptions)
    @@ "page.snapshot_data" :> Options("page_snapshot_data", SnapshotOptions)
    @@ "page.snapshot_text" :> Options("page_snapshot_text", SnapshotOptions)
    @@ "page.see" :> Options("page_snapshot_text", SnapshotOptions)

PageClicks ==
       "page.click" :> Named("page_click", <<RefId>>, ByLabel)
    @@ "page.dblclick" :> Named("page_dblclick", <<RefId>>, ByRef)

PageTyping ==
       "page.fill" :> Named("page_fill", <<RefId, Needs("value", String)>>, ByLabel @@ [value |-> From(2)])
    @@ "page.type" :> Named("page_type", <<RefId, Needs("text", String)>>, ByLabel @@ [text |-> From(2)])

(* page.enter is the callback of page.press under another name. *)
PageKeysAndChoices ==
       "page.press" :> Named("page_press", <<Needs("key", String)>>, [key |-> From(1)])
    @@ "page.enter" :> Named("page_press", <<>>, [key |-> From(1)])
    @@ "page.select" :> Named("page_select", <<RefId, Needs("value", String)>>, ByRef @@ [value |-> From(2)])

PageChecksAndHovers ==
       "page.check" :> Named("page_check", <<RefId, May("checked", Boolean)>>,
                             ByRef @@ [checked |-> FromOr(2, ABoolean)])
    @@ "page.hover" :> Named("page_hover", <<RefId>>, ByRef)
    @@ "page.unhover" :> Named("page_unhover", <<>>, NoFields)

PageScrolling ==
       "page.scroll" :> Named("page_scroll",
            <<May("direction", String), May("amount", Number), May("ref_id", String)>>,
            [direction |-> FromOr(1, AString), amount |-> FromOr(2, ANumber), refId |-> FromOr(3, Null)])
    @@ "page.scroll_to" :> Named("page_scroll_to", <<RefId>>, ByRef)

PageAddress ==
       "page.url" :> Named("page_url", <<>>, NoFields)
    @@ "page.title" :> Named("page_title", <<>>, NoFields)
    @@ "page.screenshot" :> Named("page_screenshot", <<>>, NoFields)
    @@ "page.goto" :> Named("page_goto", <<Needs("url", String)>>, [url |-> From(1)])
    @@ "page.go" :> Named("page_goto", <<Needs("url", String)>>, [url |-> From(1)])

PageMoves ==
       "page.back" :> Named("page_back", <<>>, NoFields)
    @@ "page.forward" :> Named("page_forward", <<>>, NoFields)
    @@ "page.reload" :> Named("page_reload", <<>>, NoFields)
    @@ "page.wait" :> Named("page_wait", <<May("ms", Number)>>, [duration |-> FromOr(1, ANumber)])

PageTabs ==
       "page.tabs" :> Named("page_tabs", <<>>, NoFields)
    @@ "page.switch" :> Named("page_switch", <<TabId>>, [tabId |-> From(1)])
    @@ "page.new_tab" :> Named("page_new_tab", <<May("url", {"string", "nil"})>>, [url |-> FromOr(1, Null)])
    @@ "page.close" :> Named("page_close", <<TabId>>, [tabId |-> From(1)])
    @@ "page.active_tab" :> Named("page_active_tab", <<>>, NoFields)

PageSearches ==
       "page.find" :> Named("page_find", <<Needs("selector", String)>>, [selector |-> From(1)])
    @@ "page.wait_for" :> Named("page_wait_for", <<Needs("selector", String), May("timeout", Number)>>,
                                [selector |-> From(1), timeout |-> FromOr(2, ANumber)])

ExtractOptions == [max_text |-> "number", max_headings |-> "number", max_links |-> "number"]

PageExtracts ==
       "page.extract" :> Named("page_extract", <<Needs("fields", {"list"}), OptionsOf("opts", ExtractOptions)>>,
            [fields |-> From(1)] @@ [k \in DOMAIN ExtractOptions |-> Option(2, k, ANumber)])
    @@ "page.append" :> Named("page_append", <<RefId, Needs("text", String)>>, ByRef @@ [text |-> From(2)])

FetchOptions == [method |-> "string", headers |-> "object", body |-> "string", timeout |-> "number"]

WebRequests ==
       "web.mock_async" :> Named("mock_async", <<May("label", {"string", "nil"})>>, [label |-> FromOr(1, AString)])
    @@ "web.fetch" :> Named("fetch", <<Needs("url", String), OptionsOf("opts", FetchOptions)>>,
            [url |-> From(1), method |-> Option(2, "method", AString), headers |-> Option(2, "headers", Object(NoFields)),
             body |-> Option(2, "body", Null), timeout |-> Option(2, "timeout", ANumber)])

WebWaits ==
       "web.sleep" :> Named("sleep", <<May("ms", Number)>>, [duration |-> From(1)])
    @@ "web.fetch_dom" :> Named("fetch_dom", <<Needs("url", String), May("selector", {"string", "nil"})>>,
            [url |-> From(1), selector |-> FromOr(2, AString), max_text |-> FromOr(3, ANumber)])

WebStorage ==
       "web.storage.get" :> Named("storage_get", <<Needs("key", String)>>, [key |-> From(1)])
    @@ "web.storage.set" :> Named("storage_set", <<Needs("key", String), Needs("value", String)>>,
                                  [key |-> From(1), value |-> From(2)])
    @@ "web.storage.delete" :> Named("storage_delete", <<Needs("key", String)>>, [key |-> From(1)])
    @@ "web.storage.list" :> Named("storage_list", <<>>, NoFields)

Dom ==
       "dom.snapshot" :> Options("dom_snapshot", SnapshotOptions)
    @@ "dom.format" :> Named("dom_format", <<Needs("snapshot", Table), May("format", {"string", "nil"})>>,
                             [snapshot |-> From(1), format |-> FromOr(2, AString)])

(* A host call names its action; the one here has a handler registered. *)
HostCalls == "host.call" :> Positional("host_custom", <<May("params", {"table", "nil"})>>)

TabTabs ==
       "web.tab.query" :> Positional("tab_query", <<May("query_info", Table)>>)
    @@ "web.tab.create" :> Positional("tab_create", <<May("create_properties", Table)>>)
    @@ "web.tab.activate" :> Positional("tab_activate", <<TabId>>)
    @@ "web.tab.close" :> Positional("tab_close", <<TabId>>)
    @@ "web.tab.execute_script" :> Positional("tab_execute_script", <<TabId, Needs("script", {"string", "table"})>>)

(* The documentation of web.tab gives a ref_id as a number; snapshots hand out strings. *)
TabRef == Needs("ref_id", {"string", "number"})

TabElements ==
       "web.tab.click" :> Positional("tab_click", <<TabId, TabRef>>)
    @@ "web.tab.fill" :> Positional("tab_fill", <<TabId, TabRef, Needs("value", String)>>)
    @@ "web.tab.snapshot" :> Positional("tab_snapshot", <<May("tab_id", Number)>>)
    @@ "web.tab.snapshot_text" :> Positional("tab_snapshot_text", <<May("tab_id", Number)>>)
    @@ "web.tab.snapshot_data" :> Positional("tab_snapshot_data", <<May("tab_id", Number)>>)
    @@ "web.tab.scroll_to" :> Positional("tab_scroll_to", <<TabId, TabRef>>)
    @@ "web.tab.evaluate" :> Positional("tab_evaluate", <<TabId, Needs("script", String)>>)
    @@ "web.tab.back" :> Positional("tab_back", <<TabId>>)
    @@ "web.tab.wait_for_load" :> Positional("tab_wait_for_load", <<TabId, May("timeout", Number)>>)

TabInput ==
       "web.tab.type" :> Positional("tab_type", <<TabId, TabRef, Needs("text", String)>>)
    @@ "web.tab.press" :> Positional("tab_press", <<TabId, Needs("key", String)>>)
    @@ "web.tab.select" :> Positional("tab_select", <<TabId, TabRef, Needs("value", String)>>)
    @@ "web.tab.check" :> Positional("tab_check", <<TabId, TabRef, May("checked", Boolean)>>)
    @@ "web.tab.hover" :> Positional("tab_hover", <<TabId, TabRef>>)
    @@ "web.tab.unhover" :> Positional("tab_unhover", <<TabId>>)
    @@ "web.tab.scroll" :> Positional("tab_scroll", <<TabId, May("direction", String), May("amount", Number)>>)
    @@ "web.tab.dblclick" :> Positional("tab_dblclick", <<TabId, TabRef>>)
    @@ "web.tab.fetch" :> Positional("tab_fetch", <<TabId, Needs("url", String), OptionsOf("opts", FetchOptions)>>)

Cookies ==
       "web.cookies.get" :> Positional("cookies_get", <<Needs("details", Table)>>)
    @@ "web.cookies.set" :> Positional("cookies_set", <<Needs("details", Table)>>)
    @@ "web.cookies.delete" :> Positional("cookies_delete", <<Needs("details", Table)>>)
    @@ "web.cookies.list" :> Positional("cookies_list", <<May("filter", Table)>>)

History ==
       "web.history.search" :> Positional("history_search", <<Needs("query", Table)>>)
    @@ "web.history.delete" :> Positional("history_delete", <<Needs("url", String)>>)

Bookmarks ==
       "web.bookmarks.search" :> Positional("bookmarks_search", <<Needs("query", {"string", "table"})>>)
    @@ "web.bookmarks.create" :> Positional("bookmarks_create", <<Needs("bookmark", Table)>>)
    @@ "web.bookmarks.delete" :> Positional("bookmarks_delete", <<Needs("id", String)>>)

Notifications ==
       "web.notifications.create" :> Positional("notifications_create", <<May("id", {"string", "nil"}), Needs("options", Table)>>)
    @@ "web.notifications.clear" :> Positional("notifications_clear", <<Needs("id", String)>>)

Clipboard ==
       "web.clipboard.read" :> Positional("clipboard_read", <<>>)
    @@ "web.clipboard.write" :> Positional("clipboard_write", <<Needs("text", String)>>)

ChromeTabs ==
       "chrome.runtime.sendMessage" :> Positional("chrome_runtime_sendMessage", <<Needs("message", {"string", "table"}), May("options", {"table", "nil"})>>)
    @@ "chrome.tabs.query" :> Positional("chrome_tabs_query", <<Needs("query_info", Table)>>)
    @@ "chrome.tabs.create" :> Positional("chrome_tabs_create", <<May("create_properties", Table)>>)
    @@ "chrome.tabs.update" :> Positional("chrome_tabs_update", <<May("tab_id", {"number", "nil"}), Needs("update_properties", Table)>>)
    @@ "chrome.tabs.remove" :> Positional("chrome_tabs_remove", <<Needs("tab_ids", {"number", "list"})>>)
    @@ "chrome.tabs.get" :> Positional("chrome_tabs_get", <<TabId>>)
    @@ "chrome.tabs.reload" :> Positional("chrome_tabs_reload", <<May("tab_id", {"number", "nil"}), May("reload_properties", {"table", "nil"})>>)
    @@ "chrome.tabs.sendMessage" :> Positional("chrome_tabs_sendMessage", <<TabId, Needs("message", {"string", "table"}), May("options", {"table", "nil"})>>)

ChromeExtension ==
       "chrome.alarms.create" :> Positional("chrome_alarms_create", <<May("name", {"string", "nil"}), Needs("alarm_info", Table)>>)
    @@ "chrome.alarms.clear" :> Positional("chrome_alarms_clear", <<May("name", {"string", "nil"})>>)
    @@ "chrome.action.setBadgeText" :> Positional("chrome_action_setBadgeText", <<Needs("details", Table)>>)
    @@ "chrome.action.setBadgeBackgroundColor" :> Positional("chrome_action_setBadgeBackgroundColor", <<Needs("details", Table)>>)
    @@ "chrome.action.setTitle" :> Positional("chrome_action_setTitle", <<Needs("details", Table)>>)
    @@ "chrome.action.setIcon" :> Positional("chrome_action_setIcon", <<Needs("details", Table)>>)
    @@ "chrome.contextMenus.create" :> Positional("chrome_contextMenus_create", <<Needs("create_properties", Table)>>)
    @@ "chrome.contextMenus.remove" :> Positional("chrome_contextMenus_remove", <<Needs("menuItemId", {"string", "number"})>>)

ChromeWindows ==
       "chrome.windows.getAll" :> Positional("chrome_windows_getAll", <<May("get_info", {"table", "nil"})>>)
    @@ "chrome.windows.create" :> Positional("chrome_windows_create", <<May("create_data", {"table", "nil"})>>)
    @@ "chrome.windows.update" :> Positional("chrome_windows_update", <<Needs("window_id", Number), Needs("update_info", Table)>>)
    @@ "chrome.windows.remove" :> Positional("chrome_windows_remove", <<Needs("window_id", Number)>>)
    @@ "chrome.sidePanel.setOptions" :> Positional("chrome_sidePanel_setOptions", <<Needs("options", Table)>>)
    @@ "chrome.cookies.get" :> Positional("chrome_cookies_get", <<Needs("details", Table)>>)
    @@ "chrome.cookies.set" :> Positional("chrome_cookies_set", <<Needs("details", Table)>>)
    @@ "chrome.cookies.remove" :> Positional("chrome_cookies_remove", <<Needs("details", Table)>>)
    @@ "chrome.cookies.getAll" :> Positional("chrome_cookies_getAll", <<May("details", Table)>>)

ChromeData ==
       "chrome.bookmarks.search" :> Positional("chrome_bookmarks_search", <<Needs("query", {"string", "table"})>>)
    @@ "chrome.bookmarks.create" :> Positional("chrome_bookmarks_create", <<Needs("bookmark", Table)>>)
    @@ "chrome.bookmarks.remove" :> Positional("chrome_bookmarks_remove", <<Needs("id", String)>>)
    @@ "chrome.history.search" :> Positional("chrome_history_search", <<Needs("query", Table)>>)
    @@ "chrome.history.deleteUrl" :> Positional("chrome_history_deleteUrl", <<Needs("url", String)>>)
    @@ "chrome.notifications.create" :> Positional("chrome_notifications_create", <<May("id", {"string", "nil"}), Needs("options", Table)>>)
    @@ "chrome.notifications.clear" :> Positional("chrome_notifications_clear", <<Needs("id", String)>>)
    @@ "chrome.scripting.executeScript" :> Positional("chrome_scripting_executeScript", <<Needs("target", Table), May("func", {"string", "table", "nil"})>>)

SidepanelReading ==
       "sidepanel.snapshot" :> Options("sidepanel_snapshot_text", SnapshotOptions)
    @@ "sidepanel.snapshot_data" :> Options("sidepanel_snapshot_data", SnapshotOptions)
    @@ "sidepanel.click" :> Named("sidepanel_click", <<RefId>>, ByRef)

SidepanelInput ==
       "sidepanel.dblclick" :> Named("sidepanel_dblclick", <<RefId>>, ByRef)
    @@ "sidepanel.fill" :> Named("sidepanel_fill", <<RefId, Needs("value", String)>>, ByRef @@ [value |-> From(2)])

SidepanelTyping ==
       "sidepanel.type" :> Named("sidepanel_type", <<RefId, Needs("text", String)>>, ByRef @@ [text |-> From(2)])
    @@ "sidepanel.press" :> Named("sidepanel_press", <<Needs("key", String)>>, [key |-> From(1)])
    @@ "sidepanel.append" :> Named("sidepanel_append", <<RefId, Needs("text", String)>>, ByRef @@ [text |-> From(2)])

SidepanelChoices ==
       "sidepanel.select" :> Named("sidepanel_select", <<RefId, Needs("value", String)>>, ByRef @@ [value |-> From(2)])
    @@ "sidepanel.check" :> Named("sidepanel_check", <<RefId, May("checked", Boolean)>>,
                                  ByRef @@ [checked |-> FromOr(2, ABoolean)])
    @@ "sidepanel.hover" :> Named("sidepanel_hover", <<RefId>>, ByRef)

SidepanelMoves ==
       "sidepanel.unhover" :> Named("sidepanel_unhover", <<>>, NoFields)
    @@ "sidepanel.scroll" :> Named("sidepanel_scroll", <<May("direction", String), May("amount", Number)>>,
            [direction |-> FromOr(1, AString), amount |-> FromOr(2, ANumber)])
    @@ "sidepanel.scroll_to" :> Named("sidepanel_scroll_to", <<RefId>>, ByRef)

SidepanelAddress ==
       "sidepanel.url" :> Named("sidepanel_url", <<>>, NoFields)
    @@ "sidepanel.title" :> Named("sidepanel_title", <<>>, NoFields)
    @@ "sidepanel.wait" :> Named("sidepanel_wait", <<May("ms", Number)>>, [duration |-> FromOr(1, ANumber)])

Path == Needs("path", String)
Between == <<Needs("from", String), Needs("to", String)>>
ByPath == [path |-> From(1)]

FilesByPath ==
       "fs.exists" :> Named("fs_exists", <<Path>>, ByPath)
    @@ "fs.stat" :> Named("fs_stat", <<Path>>, ByPath)
    @@ "fs.list" :> Named("fs_list", <<Path>>, ByPath)
    @@ "fs.mkdir" :> Named("fs_mkdir", <<Path>>, ByPath)
    @@ "fs.delete" :> Named("fs_delete", <<Path>>, ByPath)

FilesRead ==
       "fs.copy" :> Named("fs_copy", Between, [from |-> From(1), to |-> From(2)])
    @@ "fs.move" :> Named("fs_move", Between, [from |-> From(1), to |-> From(2)])
    @@ "fs.read" :> Named("fs_read", <<Path>>, ByPath)
    @@ "fs.read_text" :> Named("fs_read_text", <<Path>>, ByPath)
    @@ "fs.read_base64" :> Named("fs_read_base64", <<Path>>, ByPath)
    @@ "fs.read_range" :> Named("fs_read_range", <<Path, Needs("offset", Number), Needs("len", Number)>>,
            ByPath @@ [offset |-> From(2), len |-> From(3)])

(* Bytes travel in base64: encoded by the callback, or already by the caller. *)
FilesWritten ==
       "fs.write" :> Named("fs_write", <<Path, Needs("data", String)>>, ByPath @@ [data |-> Encode(2)])
    @@ "fs.write_text" :> Named("fs_write_text", <<Path, Needs("text", String)>>, ByPath @@ [data |-> From(2)])
    @@ "fs.write_base64" :> Named("fs_write_base64", <<Path, Needs("b64", Encoded)>>, ByPath @@ [data |-> From(2)])

FilesAppended ==
       "fs.append" :> Named("fs_append", <<Path, Needs("data", String)>>, ByPath @@ [data |-> Encode(2)])
    @@ "fs.append_text" :> Named("fs_append_text", <<Path, Needs("text", String)>>, ByPath @@ [data |-> From(2)])
    @@ "fs.append_base64" :> Named("fs_append_base64", <<Path, Needs("b64", Encoded)>>, ByPath @@ [data |-> From(2)])

FilesUpdated ==
       "fs.update" :> Named("fs_update", <<Path, Needs("offset", Number), Needs("data", String)>>,
            ByPath @@ [offset |-> From(2), data |-> Encode(3)])
    @@ "fs.hash" :> Named("fs_hash", <<Path, Needs("algo", String)>>, ByPath @@ [algo |-> From(2)])

Core ==
       PageReading @@ PageClicks @@ PageTyping @@ PageKeysAndChoices @@ PageChecksAndHovers
    @@ PageScrolling @@ PageAddress @@ PageMoves @@ PageTabs @@ PageSearches @@ PageExtracts
    @@ WebRequests @@ WebWaits @@ WebStorage @@ Dom @@ HostCalls
    @@ TabTabs @@ TabElements @@ TabInput
    @@ Cookies @@ History @@ Bookmarks @@ Notifications @@ Clipboard
    @@ ChromeTabs @@ ChromeExtension @@ ChromeWindows @@ ChromeData
    @@ SidepanelReading @@ SidepanelInput @@ SidepanelTyping @@ SidepanelChoices
    @@ SidepanelMoves @@ SidepanelAddress
    @@ FilesByPath @@ FilesRead @@ FilesWritten @@ FilesAppended @@ FilesUpdated

(* The aliases of WebSession, and those of the extension (aliases.rs): the function
   an alias passes its arguments on to. *)
WebAliases == "page.go" :> "page.goto" @@ "page.fetch" :> "web.fetch" @@ "sleep" :> "web.sleep"

DirectAliases ==
       "runtime.fetch" :> "web.fetch" @@ "runtime.sleep" :> "web.sleep" @@ "tab.sleep" :> "web.sleep"
    @@ "tab.query" :> "web.tab.query" @@ "tab.create" :> "web.tab.create"
    @@ "tab.activate" :> "web.tab.activate" @@ "tab.close" :> "web.tab.close"
    @@ "tab.execute_script" :> "web.tab.execute_script"
    @@ "tab.click" :> "web.tab.click" @@ "tab.fill" :> "web.tab.fill" @@ "page.open" :> "page.new_tab"

DirectAliasesReading ==
       "tab.snapshot" :> "web.tab.snapshot" @@ "tab.snapshot_text" :> "web.tab.snapshot_text"
    @@ "tab.snapshot_data" :> "web.tab.snapshot_data" @@ "tab.scroll_to" :> "web.tab.scroll_to"
    @@ "tab.evaluate" :> "web.tab.evaluate" @@ "tab.back" :> "web.tab.back"
    @@ "tab.wait_for_load" :> "web.tab.wait_for_load" @@ "tab.fetch" :> "web.tab.fetch"

ComposedAliases ==
       "tab.open" :> "chrome.tabs.create" @@ "tab.focus" :> "chrome.tabs.update"
    @@ "tab.reload" :> "chrome.tabs.reload" @@ "page.enter" :> "page.press"

(* Two calls: tab.current for the active tab, then the function with that tab first. *)
AliasesOnActiveTab == "page.fetch" :> "web.tab.fetch" @@ "page.wait_for_load" :> "web.tab.wait_for_load"

ExtensionAliases == DirectAliases @@ DirectAliasesReading @@ ComposedAliases @@ AliasesOnActiveTab

OptionalTab == <<May("tab_id", {"number", "nil"})>>

(* What the extension documents and sends for an alias that is more than the
   function it names. *)
ExtensionAlias(n) ==
    LET aliased == Core[ExtensionAliases[n]]
    IN  CASE n = "tab.open" -> [aliased EXCEPT !.params = <<May("url", {"string", "nil"})>>]
          [] n \in {"tab.focus", "tab.reload"} -> [aliased EXCEPT !.params = OptionalTab]
          [] n = "page.enter" -> [aliased EXCEPT !.params = <<>>, !.fields = [key |-> FromOr(1, AString)]]
          [] n = "tab.wait_for_load" -> [aliased EXCEPT !.params = <<TabId>>]
          [] n = "page.fetch" -> [aliased EXCEPT !.params = Tail(@)]
          [] n = "page.wait_for_load" -> [aliased EXCEPT !.params = <<May("timeout", {"number", "nil"})>>]
          [] OTHER -> aliased

(* What the caller hands over for a parameter, by the kind of Lua value. *)
Whole(p) == {<<p.name, "whole">>}
Pieces(p, kind) ==
    CASE kind = "list" -> {<<p.name, "first">>, <<p.name, "second">>}
      [] kind = "table" /\ DOMAIN p.options # {} -> {<<p.name, k>> : k \in DOMAIN p.options}
      [] kind = "nil" -> {}
      [] OTHER -> Whole(p)

Argument(p, kind) ==
    CASE kind = "nil" -> Null
      [] kind = "list" -> Array(<<Text({<<p.name, "first">>}), Text({<<p.name, "second">>})>>)
      [] kind = "table" /\ DOMAIN p.options # {} ->
            Object([k \in DOMAIN p.options |-> Value(p.options[k], <<>>, {<<p.name, k>>})])
      [] kind = "table" /\ DOMAIN p.options = {} -> Value("object", NoFields, Whole(p))
      [] OTHER -> Value(kind, <<>>, Whole(p))

(* The documented ways to call a function: a kind for each argument given. *)
CallsOf(params) ==
    {kinds \in UNION {[1..n -> UNION {params[i].kinds : i \in 1..n}] : n \in 0..Len(params)} :
        /\ \A i \in DOMAIN kinds : kinds[i] \in params[i].kinds
        /\ \A i \in DOMAIN params : params[i].required => i \in DOMAIN kinds}

(* The params of the command a call sends; Absent when the callback raises an error. *)
Entered(b, args) ==
    LET arg == IF b.arg \in DOMAIN args THEN args[b.arg] ELSE Absent
        v == IF b.key = "" THEN arg ELSE Field(arg, b.key)
    IN  IF ~IsGiven(v) THEN b.default
        ELSE IF b.encodes THEN [v EXCEPT !.kind = "base64"] ELSE v

FromNamed(fields, args) ==
    LET items == [k \in DOMAIN fields |-> Entered(fields[k], args)]
    IN  IF \E k \in DOMAIN items : items[k].kind = "absent" THEN Absent ELSE Object(items)

(* Mutant: a single argument is sent in an array as several are. *)
FromPositionalList(args) == IF Len(args) = 0 THEN Object(NoFields) ELSE Array(args)

FromPositional(args) ==
    CASE Len(args) = 0 -> Object(NoFields)
      [] Len(args) = 1 -> args[1]
      [] OTHER -> Array(args)

FromOptions(args) ==
    LET given == FromPositional(args)
    IN  IF given.kind = "object" THEN given ELSE Absent

Sent(api, args) ==
    CASE api.how = "named" -> FromNamed(api.fields, args)
      [] api.how = "positional" -> FromPositional(args)
      [] api.how = "options" -> FromOptions(args)
====
