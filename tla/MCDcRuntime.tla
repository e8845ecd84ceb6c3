---------------------------- MODULE MCDcRuntime ----------------------------
(* Small instances of DcRuntime for TLC.                                   *)
EXTENDS DcRuntime, TLC

Plain == [id |-> "", empty |-> FALSE, compiles |-> TRUE, kids |-> {}, froms |-> {}, refs |-> {},
          hole |-> FALSE, scripts |-> {}, cut |-> NoScript, crash |-> "none"]

Export(u, name, bound) ==
  [ref |-> [url |-> u, name |-> name, scope |-> "exports", dotted |-> FALSE], bound |-> bound]
Global_(u, name, dotted) ==
  [ref |-> [url |-> u, name |-> name, scope |-> "global", dotted |-> dotted], bound |-> FALSE]

(* The page and the text it is read from again; what a host may stream.    *)
PageTpl == [Plain EXCEPT !.id = "page", !.kids = {<<"card", 1>>}, !.froms = {<<"lib", "panel">>},
            !.refs = {Export("panel", "Panel", TRUE), Global_(NoUrl, "DS.Tile", TRUE)},
            !.hole = TRUE, !.scripts = {"DS.Tile"}]
ShortTpl == [Plain EXCEPT !.id = "short", !.kids = {<<"card", 1>>}, !.hole = TRUE]
RawTpl == [ShortTpl EXCEPT !.id = "raw", !.kids = {<<"card", 2>>}]
TornTpl == [Plain EXCEPT !.id = "torn", !.hole = TRUE, !.cut = "torn"]
BrokenTpl == [Plain EXCEPT !.id = "broken", !.compiles = FALSE]
EmptyTpl == [Plain EXCEPT !.id = "empty", !.empty = TRUE]
CardTpl == [Plain EXCEPT !.id = "card", !.hole = TRUE,
            !.refs = {Global_("panel", "Chart", FALSE)}]
OwnCrash == [Plain EXCEPT !.id = "own", !.crash = "own"]
InnerCrash == [Plain EXCEPT !.id = "inner", !.crash = "inner"]
CycleTpl == [Plain EXCEPT !.id = "cycle", !.kids = {<<"page", 1>>}]

Js(id) == [id |-> id, defines |-> TRUE, needs |-> {}, renders |-> TRUE, updates |-> FALSE]
PageJs == Js("page")
NeedyJs == [Js("needy") EXCEPT !.needs = {"Chart"}]
BadJs == [Js("bad") EXCEPT !.defines = FALSE]
ThrowJs == [Js("throws") EXCEPT !.renders = FALSE, !.updates = TRUE]

Both(f, g) == [n \in Name |-> IF n = "page" THEN f ELSE g]

MCUrl == {"lib", "panel"}
MCExports == [u \in Url |-> IF u = "panel" THEN {"Panel"} ELSE {}]
MCDefines == [u \in Url |-> IF u = "panel" THEN {"Chart"} ELSE {}]
MCFile == Both(NoFile, [tpl |-> CardTpl, src |-> NeedyJs])
MCPushHtml == Both({TornTpl, ShortTpl, BrokenTpl}, {OwnCrash, InnerCrash, CycleTpl, EmptyTpl})
MCPushJs == Both({BadJs}, {BadJs, ThrowJs})

(* A page that loads modules and waits for a global; a page that does not, *)
(* and that the host pushes more into.                                     *)
Importing == [tpl |-> PageTpl, src |-> PageJs, raw |-> NoTemplate, budget |-> 1]
Plainer == [tpl |-> ShortTpl, src |-> PageJs, raw |-> RawTpl, budget |-> 2]
MCPages == {Importing, Plainer}
(* A host that pushes a template whose builder throws into the root.       *)
Fragile == {[Plainer EXCEPT !.raw = NoTemplate]}
CrashHtml == Both({OwnCrash}, {})
NoJs == Both({}, {})
MCTemplate == {PageTpl, ShortTpl, RawTpl, CardTpl} \union UNION {PushHtml[n] : n \in Name}
MCSource == {PageJs, NeedyJs} \union UNION {PushJs[n] : n \in Name}
=============================================================================
