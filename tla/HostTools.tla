---- MODULE HostTools ----
(* What the two hosts do with a command: the parameter types they parse it with and
   the entries they then act on.

   A tool is a function from what it acts on, named as the Lua documentation names
   it, to the field it reads and the kinds that field accepts.  The fields together
   are its parameter type. *)
EXTENDS HostValues, TLC

In(field, kinds) == [field |-> field, kinds |-> kinds]
NoParams == NoFields

Fields(tool) == {tool[r].field : r \in DOMAIN tool}

(* Parsing: every field has a kind its type accepts. *)
Accepts(tool, v) ==
    v.kind = "object" /\ \A r \in DOMAIN tool : Field(v, tool[r].field).kind \in tool[r].kinds

(* Acting: what arrives in each role. *)
Takes(tool, v) == [r \in DOMAIN tool |-> Field(v, tool[r].field)]

Element == "ref_id" :> In("refId", String)
Labelled == Element @@ "label" :> In("label", StringOr)
Ms(kinds) == "ms" :> In("duration", kinds)
Selecting == "selector" :> In("selector", String)

(* ---- The web host: WebSession and the serde types of command_params.rs ---- *)

SnapshotParams == "interactive_only" :> In("interactive_only", BooleanOr)
               @@ "max_nodes" :> In("max_nodes", NumberOr)

WebRequestTools ==
       "fetch" :> ("url" :> In("url", String) @@ "method" :> In("method", StringOr)
                   @@ "headers" :> In("headers", RecordOr) @@ "body" :> In("body", NullableOr)
                   @@ "timeout" :> In("timeout", NumberOr))
    @@ "sleep" :> Ms(Number)
    @@ "page_wait" :> Ms(NumberOr)
    @@ "page_url" :> NoParams
    @@ "page_title" :> NoParams
    @@ "page_click" :> Labelled
    @@ "page_fill" :> (Labelled @@ "value" :> In("value", String))
    @@ "page_goto" :> ("url" :> In("url", String))

WebPageTools ==
       "page_back" :> NoParams
    @@ "page_forward" :> NoParams
    @@ "page_reload" :> NoParams
    @@ "dom_snapshot" :> SnapshotParams
    @@ "page_snapshot_text" :> SnapshotParams
    @@ "page_snapshot_data" :> SnapshotParams
    @@ "dom_format" :> ("snapshot" :> In("snapshot", Anything) @@ "format" :> In("format", StringOr))
    @@ "page_type" :> (Labelled @@ "text" :> In("text", String))
    @@ "page_append" :> (Labelled @@ "text" :> In("text", String))
    @@ "page_press" :> ("key" :> In("key", String))
    @@ "page_select" :> (Element @@ "value" :> In("value", String))
    @@ "page_check" :> (Element @@ "checked" :> In("checked", BooleanOr))
    @@ "page_hover" :> Element
    @@ "page_unhover" :> NoParams

Scrolling(ref) == "direction" :> In("direction", StringOr) @@ "amount" :> In("amount", NumberOr) @@ ref

WebSearchTools ==
       "page_scroll" :> Scrolling("ref_id" :> In("refId", NullableOr))
    @@ "page_scroll_to" :> Element
    @@ "page_dblclick" :> Labelled
    @@ "page_find" :> Selecting
    @@ "page_wait_for" :> (Selecting @@ "timeout" :> In("timeout", NumberOr))
    @@ "page_extract" :> ("fields" :> In("fields", List) @@ "max_text" :> In("max_text", NumberOr)
                          @@ "max_headings" :> In("max_headings", NumberOr)
                          @@ "max_links" :> In("max_links", NumberOr))

WebSidepanelTools ==
       "sidepanel_snapshot_text" :> SnapshotParams
    @@ "sidepanel_snapshot_data" :> SnapshotParams
    @@ "sidepanel_click" :> Labelled
    @@ "sidepanel_dblclick" :> Labelled
    @@ "sidepanel_fill" :> (Labelled @@ "value" :> In("value", String))
    @@ "sidepanel_type" :> (Labelled @@ "text" :> In("text", String))
    @@ "sidepanel_append" :> (Labelled @@ "text" :> In("text", String))
    @@ "sidepanel_press" :> ("key" :> In("key", String))
    @@ "sidepanel_select" :> (Element @@ "value" :> In("value", String))
    @@ "sidepanel_check" :> (Element @@ "checked" :> In("checked", BooleanOr))
    @@ "sidepanel_hover" :> Element

WebSidepanelMoves ==
       "sidepanel_unhover" :> NoParams
    @@ "sidepanel_scroll" :> Scrolling("ref_id" :> In("refId", NullableOr))
    @@ "sidepanel_scroll_to" :> Element
    @@ "sidepanel_url" :> NoParams
    @@ "sidepanel_title" :> NoParams
    @@ "sidepanel_wait" :> Ms(NumberOr)

StorageTools ==
       "storage_get" :> ("key" :> In("key", String))
    @@ "storage_set" :> ("key" :> In("key", String) @@ "value" :> In("value", String))
    @@ "storage_delete" :> ("key" :> In("key", String))
    @@ "storage_list" :> NoParams

(* fetch_dom parses the response of execute_fetch; its selector is applied to it. *)
WebFetchDom == "fetch_dom" :> ("url" :> In("url", String) @@ "selector" :> In("selector", StringOr)
                               @@ "max_text" :> In("max_text", NumberOr))

(* ---- Files: both hosts, in Rust ---- *)

InPath == "path" :> In("path", String)

FilePathTools == [a \in {"fs_exists", "fs_stat", "fs_list", "fs_mkdir", "fs_delete",
                         "fs_read", "fs_read_text", "fs_read_base64"} |-> InPath]

FromTo == "from" :> In("from", String) @@ "to" :> In("to", String)
Offset == InPath @@ "offset" :> In("offset", Number)
Bytes == "data" :> In("data", Encoded)

FileTools ==
    FilePathTools
    @@ "fs_copy" :> FromTo
    @@ "fs_move" :> FromTo
    @@ "fs_read_range" :> (Offset @@ "len" :> In("len", Number))
    @@ "fs_write" :> (InPath @@ Bytes)
    @@ "fs_write_text" :> (InPath @@ "text" :> In("data", String))
    @@ "fs_write_base64" :> (InPath @@ "b64" :> In("data", Encoded))
    @@ "fs_append" :> (InPath @@ Bytes)
    @@ "fs_append_text" :> (InPath @@ "text" :> In("data", String))
    @@ "fs_append_base64" :> (InPath @@ "b64" :> In("data", Encoded))
    @@ "fs_update" :> (Offset @@ Bytes)
    @@ "fs_hash" :> (InPath @@ "algo" :> In("algo", String))

(* What the web host has no window API for, and what its Action type does not know. *)
WebTools ==
    WebRequestTools @@ WebPageTools @@ WebSearchTools @@ WebSidepanelTools
    @@ WebSidepanelMoves @@ StorageTools @@ WebFetchDom @@ FileTools @@ "mock_async" :> NoParams

(* ---- The extension: content-script.ts, its tools and their types ---- *)

InElement == "ref_id" :> In("refId", StringOr)

ClickTools ==
       "click" :> (InElement @@ "label" :> In("label", StringOr))
    @@ "fill" :> (InElement @@ "value" :> In("value", StringOr))
    @@ "type" :> (InElement @@ "text" :> In("text", StringOr))
    @@ "append" :> (InElement @@ "text" :> In("text", StringOr))

KeyTools ==
       "press" :> ("key" :> In("key", String))
    @@ "select" :> (InElement @@ "value" :> In("value", StringOr))
    @@ "check" :> (InElement @@ "checked" :> In("checked", BooleanOr))
    @@ "hover" :> InElement
    @@ "unhover" :> NoParams

ScrollTools ==
       "scroll" :> Scrolling(InElement)
    @@ "dblclick" :> InElement
    @@ "scrollTo" :> InElement
    @@ "back" :> NoParams

ContentTools == ClickTools @@ KeyTools @@ ScrollTools

(* content-script-bridge.ts: the content script's tool for a page action; an action
   on a tab is the same one. *)
PageBridges ==
       "page_click" :> "click" @@ "page_fill" :> "fill" @@ "page_type" :> "type"
    @@ "page_append" :> "append" @@ "page_press" :> "press" @@ "page_select" :> "select"
    @@ "page_check" :> "check" @@ "page_hover" :> "hover" @@ "page_unhover" :> "unhover"
    @@ "page_scroll" :> "scroll" @@ "page_scroll_to" :> "scrollTo"
    @@ "page_dblclick" :> "dblclick" @@ "page_back" :> "back"

TabBridges ==
       "tab_click" :> "click" @@ "tab_fill" :> "fill" @@ "tab_type" :> "type"
    @@ "tab_scroll_to" :> "scrollTo" @@ "tab_press" :> "press" @@ "tab_select" :> "select"
    @@ "tab_check" :> "check" @@ "tab_hover" :> "hover" @@ "tab_unhover" :> "unhover"
    @@ "tab_scroll" :> "scroll" @@ "tab_dblclick" :> "dblclick" @@ "tab_back" :> "back"

(* ---- The registered tools of runner.ts, with the types of schemas.ts ---- *)

PageClickTools ==
       "page_click" :> Labelled
    @@ "page_fill" :> (Labelled @@ "value" :> In("value", String))
    @@ "page_type" :> (Labelled @@ "text" :> In("text", String))

PageKeyTools ==
       "page_append" :> (Labelled @@ "text" :> In("text", String))
    @@ "page_press" :> ("key" :> In("key", String))
    @@ "page_select" :> (Element @@ "value" :> In("value", String))
    @@ "page_check" :> (Element @@ "checked" :> In("checked", BooleanOr))

PageScrollTools ==
       "page_hover" :> Element
    @@ "page_unhover" :> NoParams
    @@ "page_scroll" :> Scrolling("ref_id" :> In("refId", NullableOr))
    @@ "page_scroll_to" :> Element
    @@ "page_dblclick" :> Labelled

PageMoveTools ==
       "page_goto" :> ("url" :> In("url", String))
    @@ "page_back" :> NoParams
    @@ "page_forward" :> NoParams
    @@ "page_reload" :> NoParams
    @@ "page_wait" :> Ms(CoercedOr)

PageSearchTools ==
       "page_find" :> Selecting
    @@ "page_wait_for" :> (Selecting @@ "timeout" :> In("timeout", CoercedOr))

InTab == "tab_id" :> In("tabId", Coerced)
TabElement == InTab @@ Element

TabClickTools ==
       "tab_click" :> TabElement
    @@ "tab_fill" :> (TabElement @@ "value" :> In("value", String))
    @@ "tab_type" :> (TabElement @@ "text" :> In("text", String))

TabKeyTools ==
       "tab_press" :> (InTab @@ "key" :> In("key", String))
    @@ "tab_select" :> (TabElement @@ "value" :> In("value", String))
    @@ "tab_check" :> (TabElement @@ "checked" :> In("checked", BooleanOr))

TabMoveTools ==
       "tab_hover" :> TabElement
    @@ "tab_unhover" :> InTab
    @@ "tab_scroll" :> (InTab @@ "direction" :> In("direction", StringOr) @@ "amount" :> In("amount", NumberOr))
    @@ "tab_dblclick" :> TabElement
    @@ "tab_back" :> InTab
    @@ "tab_wait_for_load" :> (InTab @@ "timeout" :> In("timeout", CoercedOr))

(* z.bigint() has no coercion: no JSON number is one. *)
RunnerRequestTools ==
       "sleep" :> Ms(Bigint)
    @@ "fetch" :> ("url" :> In("url", String) @@ "method" :> In("method", StringOr)
                   @@ "headers" :> In("headers", RecordOr) @@ "body" :> In("body", Nullable)
                   @@ "timeout" :> In("timeout", BigintOr))
    @@ "fetch_dom" :> ("url" :> In("url", String) @@ "selector" :> In("selector", String)
                       @@ "max_text" :> In("max_text", Bigint))

PanelSnapshot == "interactive_only" :> In("interactive_only", BooleanOr)
              @@ "max_nodes" :> In("max_nodes", CoercedOr)

(* A side panel tool that acts on an element fails without a ref_id. *)
SidepanelClickTools ==
       "sidepanel_click" :> Element
    @@ "sidepanel_dblclick" :> Element
    @@ "sidepanel_fill" :> (Element @@ "value" :> In("value", AnythingOr))
    @@ "sidepanel_type" :> (Element @@ "text" :> In("text", AnythingOr))
    @@ "sidepanel_append" :> (Element @@ "text" :> In("text", AnythingOr))

SidepanelKeyTools ==
       "sidepanel_press" :> ("key" :> In("key", AnythingOr))
    @@ "sidepanel_select" :> (Element @@ "value" :> In("value", AnythingOr))
    @@ "sidepanel_check" :> (Element @@ "checked" :> In("checked", AnythingOr))
    @@ "sidepanel_hover" :> Element
    @@ "sidepanel_unhover" :> Element

SidepanelMoveTools ==
       "sidepanel_scroll" :> ("direction" :> In("direction", AnythingOr) @@ "amount" :> In("amount", AnythingOr))
    @@ "sidepanel_scroll_to" :> Element
    @@ "sidepanel_url" :> NoParams
    @@ "sidepanel_title" :> NoParams
    @@ "sidepanel_wait" :> Ms(CoercedOr)
    @@ "sidepanel_snapshot_text" :> PanelSnapshot
    @@ "sidepanel_snapshot_data" :> PanelSnapshot

RunnerTools ==
    StorageTools @@ RunnerRequestTools
    @@ PageClickTools @@ PageKeyTools @@ PageScrollTools @@ PageMoveTools @@ PageSearchTools
    @@ TabClickTools @@ TabKeyTools @@ TabMoveTools
    @@ SidepanelClickTools @@ SidepanelKeyTools @@ SidepanelMoveTools
====
