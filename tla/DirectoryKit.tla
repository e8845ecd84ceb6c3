---------------------------- MODULE DirectoryKit ----------------------------
(***************************************************************************)
(* The service directory page (ui_kits/service_directory): the catalogue   *)
(* in a sidebar, a viewer beside it, and a settings overlay.               *)
(*                                                                         *)
(* Actions and effects are as in RegistryKit.  A collapsed sidebar keeps   *)
(* its elements, which have no width.                                      *)
(***************************************************************************)
EXTENDS Elements

CONSTANTS Service, Node, Text, Blank, Matches, MaxAgo   \* as in RegistryKit

VARIABLES ui,            \* React's state of the page
          since          \* observer: seconds the JSON view was shown since it was read

Names(services) == {s.name : s \in services}
Health == [n \in Names(Service) |-> (CHOOSE s \in Service : s.name = n).health]
Visible == {s \in ui.listed : ui.filter \in Blank \/ s.name \in Matches[ui.filter]}

(* The service the viewer is given: selected may name one that is gone.    *)
Shown(u) == IF u.mode = "welcome" THEN {} ELSE {s \in u.listed : s.name = u.selected}
-----------------------------------------------------------------------------
HealthPill(status) == {Mark(<<"health">>, status)}

ServiceRow(s) ==
  {Area(<<>>, <<"open", s.name>>, IF s.name = ui.selected THEN "selected" ELSE ""),
   Stopping(Button(<<"name">>, <<"open", s.name>>))}
  \union HealthPill(s.health)
  \union When(s.dynamic, {Stopping(Button(<<"remove">>, <<"remove", s.name>>))})

NodeGroup(rows) ==
  When(rows # {}, {Mark(<<"reachable">>, "reachable")}
                  \union UNION {Below(<<s.name>>, ServiceRow(s)) : s \in rows})

Sidebar ==
  {Input(<<"filter">>, <<"type", "filter">>), Button(<<"collapse">>, <<"collapse">>)}
  \union When(Visible = {}, {Mark(<<"empty">>, "No services match this filter.")})
  \union UNION {Below(<<"node", n>>, NodeGroup({s \in Visible : s.origin = n})) : n \in Node}
-----------------------------------------------------------------------------
ViewerWelcome == {Mark(<<"welcome">>, "welcome")}

(* Nothing is done with the fields or by the button.                       *)
RegisterPanel ==
  {Area(<<"title">>, <<"register">>, "")}
  \union When(ui.register, {Button(<<"add">>, NoAct)})

ViewerHeader(actions) ==
  actions \union {NewTab(<<"new tab">>), Button(<<"close">>, <<"close">>)}

ServiceDetail(s) ==
  HealthPill(s.health)
  \union When(s.docs, {NewTab(<<"docs">>)})
  \union {NewTab(<<"address", l>>) : l \in s.links}
  \union {Button(<<"open here">>, <<"open here", s.name>>)}

(* Mutant: the fallback has no toolbar.                                    *)
DeadEnd(s) ==
  CASE ui.mode = "detail" -> ServiceDetail(s)
    [] ui.mode = "json" -> ViewerHeader({Button(<<"refresh">>, <<"refresh">>),
                                         Button(<<"auto">>, <<"auto">>)})
    [] ui.mode = "fallback" -> {NewTab(<<"escape">>)}
    [] ui.mode = "iframe" -> ViewerHeader({Button(<<"reload">>, NoAct)})

Viewer(s) ==
  CASE ui.mode = "detail" -> ServiceDetail(s)
    [] ui.mode = "json" -> ViewerHeader({Button(<<"refresh">>, <<"refresh">>),
                                         Button(<<"auto">>, <<"auto">>)})
    [] ui.mode = "fallback" -> ViewerHeader({}) \union {NewTab(<<"escape">>)}
    [] ui.mode = "iframe" -> ViewerHeader({Button(<<"reload">>, NoAct)})

(* The token is not asked for, and only one button does anything.          *)
SettingsOverlay ==
  {Area(<<>>, <<"close", "settings">>, ""), Stopping(Area(<<"panel">>, NoAct, "")),
   Button(<<"panel", "close">>, <<"close", "settings">>),
   Input(<<"panel", "token">>, <<"type", "token">>),
   Mark(<<"panel", "peer">>, "reachable"), Button(<<"panel", "peer", "remove">>, NoAct),
   Button(<<"panel", "issue">>, <<"issue">>), Button(<<"panel", "pair">>, NoAct)}
  \union When(ui.code, {Mark(<<"panel", "code">>, "code")})

Screen ==
  {Button(<<"header", "settings">>, <<"show", "settings">>)}
  \union Below(<<"sidebar">>, Sidebar)
  \union When(ui.collapsed, {Button(<<"expand">>, <<"expand">>)})
  \union Below(<<"viewer">>, IF Shown(ui) = {} THEN ViewerWelcome \union RegisterPanel
                             ELSE UNION {Viewer(s) : s \in Shown(ui)})
  \union When(ui.settings, Below(<<"settings">>, SettingsOverlay))
-----------------------------------------------------------------------------
(* Mutant: the effect does not depend on the mode.                         *)
CountsOn(new) ==
  IF new.mode = "json" /\ Shown(new) # Shown(ui) THEN [new EXCEPT !.ago = 0] ELSE new

(* The counter's effect, of mode and svc: it starts from zero.             *)
CounterEffect(new) ==
  IF new.mode = "json" /\ <<new.mode, Shown(new)>> # <<ui.mode, Shown(ui)>>
  THEN [new EXCEPT !.ago = 0] ELSE new

(* What unmounted components leave: the state they mount with again.       *)
Unmounted(new) ==
  [new EXCEPT !.register = Shown(new) = {} /\ @,
              !.token = IF new.settings THEN @ ELSE "",
              !.code = new.settings /\ @]

Handled(new) ==
  /\ ui' = Unmounted(CounterEffect(new))
  /\ since' = IF new.mode = "json" /\ <<new.mode, Shown(new)>> # <<ui.mode, Shown(ui)>>
              THEN 0 ELSE since

Does(act, new) == Offers(Screen, act) /\ Handled(new)
-----------------------------------------------------------------------------
Type(t) == Does(<<"type", "filter">>, [ui EXCEPT !.filter = t])
Open(n) == Does(<<"open", n>>, [ui EXCEPT !.selected = n, !.mode = "detail"])
Remove(n) == Does(<<"remove", n>>, [ui EXCEPT !.listed = {s \in @ : s.name # n}])

(* The names of the services that cannot be framed are in the code.        *)
OpenHere(s) ==
  Does(<<"open here", s.name>>,
       [ui EXCEPT !.mode = CASE s.view = "json" -> "json"
                             [] s.view # "json" /\ s.name = "grafana" -> "fallback"
                             [] s.view # "json" /\ s.name # "grafana" -> "iframe"])
Close == Does(<<"close">>, [ui EXCEPT !.mode = "welcome", !.selected = None])
Refresh == Offers(Screen, <<"refresh">>) /\ ui' = [ui EXCEPT !.ago = 0] /\ since' = 0
ToggleAuto == Does(<<"auto">>, [ui EXCEPT !.auto = ~@])

Collapse == Does(<<"collapse">>, [ui EXCEPT !.collapsed = TRUE])
Expand == Does(<<"expand">>, [ui EXCEPT !.collapsed = FALSE])
Register == Does(<<"register">>, [ui EXCEPT !.register = ~@])

ShowSettings == Does(<<"show", "settings">>, [ui EXCEPT !.settings = TRUE])
CloseSettings == Does(<<"close", "settings">>, [ui EXCEPT !.settings = FALSE])
TypeToken(t) == Does(<<"type", "token">>, [ui EXCEPT !.token = t])
Issue == Does(<<"issue">>, [ui EXCEPT !.code = TRUE])

(* The interval runs in the JSON mode, whether auto-refresh is on or not.  *)
Second ==
  /\ ui.mode = "json"
  /\ since < MaxAgo
  /\ ui' = [ui EXCEPT !.ago = @ + 1]
  /\ since' = since + 1
-----------------------------------------------------------------------------
Init ==
  /\ ui = [listed |-> Service, filter |-> "", collapsed |-> FALSE, selected |-> None,
           mode |-> "welcome", settings |-> FALSE, token |-> "", code |-> FALSE,
           register |-> FALSE, ago |-> 0, auto |-> TRUE]
  /\ since = 0

Next ==
  \/ \E t \in Text : Type(t) \/ TypeToken(t)
  \/ \E n \in Names(Service) : Open(n) \/ Remove(n)
  \/ \E s \in Service : OpenHere(s)
  \/ Close \/ Refresh \/ ToggleAuto \/ Collapse \/ Expand \/ Register
  \/ ShowSettings \/ CloseSettings \/ Issue \/ Second
-----------------------------------------------------------------------------
L == INSTANCE Library

TypeOK ==
  /\ ui.listed \subseteq Service
  /\ {ui.filter, ui.token} \subseteq Text
  /\ ui.selected \in Names(Service) \union {None}
  /\ ui.mode \in {"welcome", "detail", "json", "fallback", "iframe"}
  /\ {ui.collapsed, ui.settings, ui.code, ui.register, ui.auto} \subseteq BOOLEAN
  /\ {ui.ago, since} \subseteq 0 .. MaxAgo

(* The services that match the filter have a row each, and no other has;   *)
(* and no view is a dead end: each can be left, for its detail or for one. *)
ItemsShownOnce ==
  /\ \A s \in Service :
       Cardinality({e \in Screen : e.kind = "area" /\ e.does = <<"open", s.name>>})
         = IF s \in Visible THEN 1 ELSE 0
  /\ ui.mode \notin {"welcome", "detail"} /\ Shown(ui) # {} => Offers(Screen, <<"close">>)

(* The page's own copies of the library's components do what those do.     *)
AsTheLibrary ==
  /\ \A n \in Node :
       LET rows == {s \in Visible : s.origin = n}
       IN rows # {} => Deeds(NodeGroup(rows)) = Deeds(L!NodeGroup(
            L!ServiceTable(rows, Health, TRUE, ui.selected, "open", "remove")))
  /\ Deeds(ViewerWelcome) = Deeds(L!ViewerWelcome)
  /\ Deeds(ViewerHeader({})) = Deeds(L!ViewerHeader(TRUE, {}, <<"close">>))
  /\ Deeds({e \in RegisterPanel : e.does = <<"register">>})
       = Deeds({e \in L!Disclosure(ui.register, <<"register">>, {}) : e.kind # "key"})
  /\ \A s \in Shown(ui) :
       /\ Deeds(ServiceDetail(s)) = Deeds(L!ServiceDetail(s, s.health, <<"open here", s.name>>))
       /\ ui.mode = "fallback" => Deeds(Viewer(s)) = Deeds(
            L!ViewerHeader(TRUE, {}, <<"close">>) \union L!ViewerFallback)
  /\ ui.settings => Deeds(SettingsOverlay) = Deeds(L!SettingsPanel(<<"close", "settings">>,
       Below(<<"token">>, L!TextInput("token")) \union Below(<<"peer">>, L!PeerItem(TRUE, NoAct))
       \union {Button(<<"issue">>, <<"issue">>), Button(<<"pair">>, NoAct)}
       \union When(ui.code, L!PairingCode)))

OneHandler == \A e \in Screen : Cardinality(Fired(Screen, e)) <= 1

ScreenSound == ItemsShownOnce /\ AsTheLibrary /\ OneHandler

(* "updated N s ago" is true of the reading that is shown.                 *)
EffectsInStep == ui.mode = "json" => ui.ago = since
=============================================================================
