---- MODULE ExtensionRunner ----
(* What the extension's runner (runner.ts) does with the params of a command besides
   parsing them: the normalisation of positional params, the Chrome APIs with the
   entries each takes, the transforms in front of them, and the legacy switch. *)
EXTENDS HostTools

NumberIsTab == {"tab_back", "tab_unhover", "tab_wait_for_load", "tab_scroll"}

Positions ==
       "tab_click" :> <<"tabId", "refId">> @@ "tab_fill" :> <<"tabId", "refId", "value">>
    @@ "tab_type" :> <<"tabId", "refId", "text">> @@ "tab_press" :> <<"tabId", "key">>
    @@ "tab_select" :> <<"tabId", "refId", "value">> @@ "tab_check" :> <<"tabId", "refId", "checked">>
    @@ "tab_hover" :> <<"tabId", "refId">> @@ "tab_unhover" :> <<"tabId">>
    @@ "tab_scroll" :> <<"tabId", "direction", "amount">> @@ "tab_dblclick" :> <<"tabId", "refId">>
    @@ "tab_back" :> <<"tabId">> @@ "tab_wait_for_load" :> <<"tabId", "timeout">>

WithDefault == {"checked", "direction", "amount", "timeout"}

Normalized(act, p) ==
    CASE p.kind = "number" /\ act \in NumberIsTab -> Object("tabId" :> p)
      [] p.kind = "array" /\ act \in DOMAIN Positions ->
            LET field(i) == Positions[act][i]
                entered == {i \in DOMAIN Positions[act] \cap DOMAIN p.items :
                               IsGiven(Entry(p, i)) \/ field(i) \notin WithDefault}
            IN  Object([f \in {field(i) : i \in entered} |-> Entry(p, CHOOSE i \in entered : field(i) = f)])
      [] OTHER -> p

First(p) == IF p.kind = "array" THEN Entry(p, 1) ELSE p
Second(p) == Entry(p, 2)
FirstRec(p) == AsRecord(First(p))
Of(p, f) == Field(FirstRec(p), f)
OnlyA(kind, v) == IF v.kind = kind THEN v ELSE Absent
AText(p, f) == OrElse(Of(p, f), OnlyA("string", First(p)))
ANumberOf(p, f) == OnlyA("number", OrElse(Of(p, f), First(p)))
Either(p, f, g) == OrElse(Of(p, f), OrElse(Of(p, g), First(p)))

ChromeTabsTake(p) ==
       "chrome_runtime_sendMessage" :> [message |-> FirstRec(p)]
    @@ "chrome_tabs_query" :> [query_info |-> FirstRec(p)]
    @@ "chrome_tabs_create" :> [create_properties |-> FirstRec(p)]
    @@ "chrome_tabs_update" :> [tab_id |-> ANumberOf(p, "tabId"),
                                update_properties |-> OrElse(Of(p, "update"), Second(p))]
    @@ "chrome_tabs_remove" :> ("tab_ids" :> Either(p, "tabId", "id") @@ "tab_id" :> Either(p, "tabId", "id"))
    @@ "chrome_tabs_get" :> [tab_id |-> Either(p, "tabId", "id")]
    @@ "chrome_tabs_reload" :> [tab_id |-> ANumberOf(p, "tabId"),
                                reload_properties |-> OrElse(Of(p, "reload"), Second(p))]
    @@ "chrome_tabs_sendMessage" :> [tab_id |-> OrElse(Of(p, "tabId"), First(p)),
                                     message |-> OrElse(Of(p, "message"), Second(p))]

ChromeExtensionTake(p) ==
       "chrome_alarms_create" :> [name |-> AText(p, "name"),
                                  alarm_info |-> OrElse(Of(p, "alarmInfo"), OrElse(Second(p), FirstRec(p)))]
    @@ "chrome_alarms_clear" :> [name |-> AText(p, "name")]
    @@ [a \in {"chrome_action_setBadgeText", "chrome_action_setBadgeBackgroundColor",
               "chrome_action_setTitle", "chrome_action_setIcon"} |-> [details |-> FirstRec(p)]]
    @@ "chrome_contextMenus_create" :> [create_properties |-> FirstRec(p)]
    @@ "chrome_contextMenus_remove" :> [menuItemId |-> Either(p, "menuItemId", "id")]

ChromeWindowsTake(p) ==
       "chrome_windows_getAll" :> [get_info |-> FirstRec(p)]
    @@ "chrome_windows_create" :> [create_data |-> FirstRec(p)]
    @@ "chrome_windows_update" :> [window_id |-> OrElse(Of(p, "windowId"), First(p)),
                                   update_info |-> OrElse(Of(p, "update"), Second(p))]
    @@ "chrome_windows_remove" :> [window_id |-> OrElse(Of(p, "windowId"), First(p))]
    @@ "chrome_sidePanel_setOptions" :> [options |-> FirstRec(p)]
    @@ [a \in {"chrome_cookies_get", "chrome_cookies_set", "chrome_cookies_remove",
               "chrome_cookies_getAll"} |-> [details |-> FirstRec(p), filter |-> FirstRec(p)]]

ChromeDataTake(p) ==
       "chrome_bookmarks_search" :> [query |-> AText(p, "query")]
    @@ "chrome_bookmarks_create" :> [bookmark |-> FirstRec(p)]
    @@ "chrome_bookmarks_remove" :> [id |-> OrElse(Of(p, "id"), First(p))]
    @@ "chrome_history_search" :> [query |-> FirstRec(p)]
    @@ "chrome_history_deleteUrl" :> [url |-> OrElse(Of(p, "url"), First(p))]
    @@ "chrome_notifications_create" :> [id |-> AText(p, "id"), options |-> OrElse(Of(p, "options"), Second(p))]
    @@ "chrome_notifications_clear" :> [id |-> AText(p, "id")]
    @@ "chrome_scripting_executeScript" :> [target |-> FirstRec(p)]

ChromeTakes(p) == ChromeTabsTake(p) @@ ChromeExtensionTake(p) @@ ChromeWindowsTake(p) @@ ChromeDataTake(p)

(* registerChromePassthrough: the params an action accepts, the Chrome action it
   becomes, and what its transform makes of the params. *)
Pass(accepts, chrome) == [accepts |-> accepts, chrome |-> chrome]

PassData ==
       "cookies_get" :> Pass(Record, "chrome_cookies_get")
    @@ "cookies_set" :> Pass(Record, "chrome_cookies_set")
    @@ "cookies_delete" :> Pass(Record, "chrome_cookies_remove")
    @@ "cookies_list" :> Pass(Record, "chrome_cookies_getAll")
    @@ "history_search" :> Pass(Record, "chrome_history_search")
    @@ "history_delete" :> Pass(String \union Record, "chrome_history_deleteUrl")
    @@ "bookmarks_search" :> Pass(String \union Record, "chrome_bookmarks_search")

PassTabs ==
       "bookmarks_create" :> Pass(Record, "chrome_bookmarks_create")
    @@ "bookmarks_delete" :> Pass(String \union Record, "chrome_bookmarks_remove")
    @@ "tab_query" :> Pass(Record, "chrome_tabs_query")
    @@ "tab_create" :> Pass(Record, "chrome_tabs_create")
    @@ "tab_activate" :> Pass(Number \union Record, "chrome_tabs_update")
    @@ "tab_close" :> Pass(Number \union Record, "chrome_tabs_remove")

PassPage ==
       "page_close" :> Pass(Number \union Record, "chrome_tabs_remove")
    @@ "page_active_tab" :> Pass(Record, "chrome_tabs_query")
    @@ "notifications_create" :> Pass(Record, "chrome_notifications_create")
    @@ "notifications_clear" :> Pass(String \union Record, "chrome_notifications_clear")

Passthrough == PassData @@ PassTabs @@ PassPage

Transformed(act, p) ==
    LET field(k) == IF p.kind = "object" THEN OrElse(Field(p, k), AString) ELSE p
        tab == IF p.kind = "number" THEN p ELSE OrElse(Field(p, "tabId"), Field(p, "id"))
    IN  CASE act = "history_delete" -> Object("url" :> field("url"))
          [] act = "bookmarks_search" -> field("query")
          [] act \in {"bookmarks_delete", "notifications_clear"} -> field("id")
          [] act = "tab_activate" -> Object("tabId" :> tab @@ "update" :> Object("active" :> ABoolean))
          [] act \in {"tab_close", "page_close"} -> tab
          [] act = "page_active_tab" -> Object("active" :> ABoolean @@ "currentWindow" :> ABoolean)
          [] act = "notifications_create" ->
                Object("id" :> OrElse(Field(p, "id"), AString) @@ "options" :> OrElse(Field(p, "options"), p))
          [] OTHER -> p

(* The legacy switch: extractTabId, extractArg, and the cases it still serves. *)
TabOf(p) == OrElse(OnlyA("number", First(p)), OrElse(Of(p, "id"), OrElse(Of(p, "tabId"), Of(p, "tab_id"))))
(* Mutant: the arguments are counted from 0. *)
ArgFromZero(p, i, fallback) == OrElse(Entry(p, i - 1), fallback)

Arg(p, i, fallback) == OrElse(Entry(p, i), fallback)

LegacyPage(p) ==
       [a \in {"page_url", "page_title"} |-> NoFields]
    @@ "page_extract" :> [k \in {"fields", "max_text", "max_headings", "max_links"} |-> Field(p, k)]
LegacyPageSnapshots(p) ==
    [a \in {"page_snapshot_text", "page_snapshot_data"} |-> [max_nodes |-> Field(p, "max_nodes")]]
LegacyDom(p) ==
       "dom_snapshot" :> [k \in {"max_nodes", "interactive_only"} |-> Field(p, k)]
    @@ "dom_format" :> [k \in {"snapshot", "format"} |-> Field(p, k)]
    @@ "tab_execute_script" :> ChromeDataTake(p)["chrome_scripting_executeScript"]
LegacyTab(p) ==
       "tab_scroll_to" :> [tab_id |-> TabOf(p), x |-> Arg(p, 2, Field(p, "x")), y |-> Arg(p, 3, Field(p, "y")),
                           ref_id |-> Arg(p, 4, OrElse(Field(p, "refId"), Field(p, "ref_id")))]
    @@ "tab_evaluate" :> [tab_id |-> TabOf(p), script |-> Arg(p, 2, Field(p, "script"))]
LegacyTabFetch(p) ==
    LET options == AsRecord(Arg(p, 3, p))
    IN  "tab_fetch" :> ("tab_id" :> TabOf(p) @@ "url" :> Arg(p, 2, Field(p, "url"))
                        @@ [k \in {"method", "headers", "body", "timeout"} |-> Field(options, k)])
LegacyTabSnapshots(p) ==
    [a \in {"tab_snapshot", "tab_snapshot_text", "tab_snapshot_data"} |-> [tab_id |-> TabOf(p)]]
LegacyTakes(p) ==
    LegacyPage(p) @@ LegacyPageSnapshots(p) @@ LegacyDom(p) @@ LegacyTab(p)
    @@ LegacyTabFetch(p) @@ LegacyTabSnapshots(p)

ClipboardAccepts(p) ==
       "clipboard_read" :> (p.kind = "object")
    @@ "clipboard_write" :> \/ Field(p, "text").kind = "string"
                            \/ Field(p, "value").kind = "string"
                            \/ p.kind = "array" /\ Len(p.items) = 1 /\ Entry(p, 1).kind = "string"
ClipboardTakes(p) == [text |-> OrElse(Entry(p, 1), OrElse(Field(p, "text"), Field(p, "value")))]

Registered == DOMAIN RunnerTools \union DOMAIN Passthrough \union {"clipboard_read", "clipboard_write"}
Bridges == PageBridges @@ TabBridges
====
