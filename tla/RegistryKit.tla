---------------------------- MODULE RegistryKit ----------------------------
(***************************************************************************)
(* The App Registry page (ui_kits/registry_amplifier): tiles of services   *)
(* by node, one of them opened beside a rail, a settings dialog, an agent  *)
(* panel and a toast.                                                      *)
(*                                                                         *)
(* One action is a handler with React's commit and the effects it causes,  *)
(* which React flushes before the next click; no click runs two handlers   *)
(* (OneHandler), so a handler is a click.  The state of a component goes   *)
(* with it when it is unmounted.                                           *)
(***************************************************************************)
EXTENDS Elements

CONSTANTS Service,       \* services, records as in data.js
          Node,          \* names of the nodes of data.js
          Text,          \* what may be typed into a field
          Blank,         \* the texts that are empty once trimmed
          Matches,       \* the names of the services each other text is in
          ToastTicks,    \* how long a toast is shown
          MaxAgo,        \* bound on the seconds that are counted
          MaxSent        \* bound on the messages that are sent

VARIABLES ui,            \* React's state of the page, and the toast's timer
          seen,          \* observer: ticks the toast was shown
          since          \* observer: seconds the JSON view was shown since it was read

NoToast == <<>>

Names(services) == {s.name : s \in services}
Opened(u) == {s \in u.listed : s.name = u.open}
Visible == {s \in ui.listed : ui.filter \in Blank \/ s.name \in Matches[ui.filter]}
Armed == ui.token \notin Blank
-----------------------------------------------------------------------------
Attention == {Mark(<<"badge">>, "attention")}
HealthDot(svc) == {Mark(<<"health">>, svc.health)}
Link(onClick) == {Button(<<>>, onClick)}

Filter ==
  {Input(<<"input">>, <<"type", "filter">>)}
  \union When(ui.filter # "", {Button(<<"clear">>, <<"clear", "filter">>)})

AgentButton == {Element(<<>>, "button", <<"agent">>, IF ui.agent THEN "open" ELSE "")}

(* The badge counts all services that need somebody, not the visible ones. *)
Header ==
  When(Opened(ui) # {}, Below(<<"back">>, Link(<<"back">>)))
  \union Below(<<"filter">>, Filter)
  \union When(\E s \in ui.listed : s.attention > 0, Attention)
  \union Below(<<"agent">>, AgentButton)
  \union Below(<<"settings">>, Link(<<"show", "settings">>))

edge(svc, selected) ==
  CASE svc.attention > 0 -> "attention"
    [] svc.attention = 0 /\ selected -> "selected"
    [] svc.attention = 0 /\ ~selected -> "line"

ServiceTile(svc) ==
  {Area(<<>>, <<"open", svc.name>>, edge(svc, FALSE))}
  \union HealthDot(svc)
  \union When(svc.attention > 0, Attention)
  \union When(svc.dynamic, {Stopping(Button(<<"remove">>, <<"remove", svc.name>>))})

(* A section per node that has services to show.                           *)
Overview ==
  LET rows(n) == {s \in Visible : s.origin = n}
  IN When(Visible = {}, {Mark(<<"empty">>, "No services match this filter")})
     \union UNION {Below(<<"node", n>>, {Mark(<<"reachable">>, "reachable")}
                         \union UNION {Below(<<s.name>>, ServiceTile(s)) : s \in rows(n)})
                     : n \in {m \in Node : rows(m) # {}}}

RailRow(svc, selected) ==
  {Area(<<>>, <<"open", svc.name>>, edge(svc, selected))}
  \union HealthDot(svc)
  \union When(svc.attention > 0, Attention)

Rail ==
  LET rows(n) == {s \in Visible : s.origin = n}
  IN Below(<<"filter">>, Filter)
     \union UNION {Below(<<"node", n>>, UNION {Below(<<s.name>>, RailRow(s, s.name = ui.open))
                                                 : s \in rows(n)}) : n \in Node}
-----------------------------------------------------------------------------
ViewerToolbar(actions) ==
  actions \union {NewTab(<<"new tab">>), Button(<<"close">>, <<"mode", "detail">>)}

Detail(svc) ==
  {Button(<<"open here">>, <<"open here">>)}
  \union HealthDot(svc)
  \union When(svc.docs, {NewTab(<<"docs">>)})
  \union {NewTab(<<"address", l>>) : l \in svc.links}
  \union When(svc.attention > 0, {Button(<<"deregister">>, <<"deregister", svc.name>>)})

Pane(svc) ==
  CASE ui.mode = "detail" -> Detail(svc)
    [] ui.mode = "json" -> ViewerToolbar({Button(<<"refresh">>, <<"refresh">>),
                                          Button(<<"auto">>, <<"auto">>)})
    [] ui.mode = "fallback" -> ViewerToolbar({}) \union {NewTab(<<"escape">>)}
    [] ui.mode = "iframe" -> ViewerToolbar({Button(<<"reload">>, NoAct)})

Toast == {Mark(<<>>, "toast")}

(* A disabled button has no click.                                         *)
Settings ==
  {Area(<<"backdrop">>, <<"close", "settings">>, ""),
   Button(<<"dialog", "close">>, <<"close", "settings">>),
   Input(<<"dialog", "token">>, <<"type", "token">>)}
  \union When(Armed, {Button(<<"dialog", "peer">>, <<"remove peer">>),
                      Button(<<"dialog", "issue">>, <<"issue">>)})
  \union When(ui.code, {Mark(<<"dialog", "code">>, "code")})

AgentPanel ==
  {Button(<<"close">>, <<"close", "agent">>), Input(<<"draft">>, <<"type", "draft">>),
   Key(<<"draft", "enter">>, <<"send">>), Button(<<"send">>, <<"send">>)}

Screen ==
  Below(<<"header">>, Header)
  \union (IF Opened(ui) = {} THEN Below(<<"overview">>, Overview)
          ELSE Below(<<"rail">>, Rail)
               \union UNION {Below(<<"pane">>, Pane(svc)) : svc \in Opened(ui)})
  \union When(ui.settings, Below(<<"settings">>, Settings))
  \union When(ui.agent, Below(<<"agent">>, AgentPanel))
  \union When(ui.toast # NoToast, Below(<<"toast">>, Toast))
-----------------------------------------------------------------------------
(* Mutant: the effect does not depend on the toast, and runs once.         *)
OnMount(new) == [new EXCEPT !.left = 0]

(* The toast's effect: a toast that differs from the one before clears its *)
(* timer and starts its own; the same text again is no change.             *)
ToastEffect(new) ==
  IF new.toast = ui.toast THEN new
  ELSE [new EXCEPT !.left = IF new.toast = NoToast THEN 0 ELSE ToastTicks]

(* The counter's effect, of mode, auto and svc: it starts from zero.       *)
Counting(u) == Opened(u) # {} /\ u.mode = "json" /\ u.auto
CounterEffect(new) ==
  IF Counting(new) /\ <<new.mode, new.auto, Opened(new)>> # <<ui.mode, ui.auto, Opened(ui)>>
  THEN [new EXCEPT !.ago = 0] ELSE new

(* What unmounted components leave: the state they mount with again.       *)
Unmounted(new) ==
  [new EXCEPT !.ago = IF Opened(new) = {} THEN 0 ELSE @,
              !.auto = Opened(new) = {} \/ @,
              !.token = IF new.settings THEN @ ELSE "",
              !.code = new.settings /\ @,
              !.draft = IF new.agent THEN @ ELSE "",
              !.sent = IF new.agent THEN @ ELSE 0]

Handled(new, read) ==
  /\ ui' = Unmounted(CounterEffect(ToastEffect(new)))
  /\ seen' = IF new.toast = ui.toast THEN seen ELSE 0
  /\ since' = IF read THEN 0 ELSE since

Does(act, new) == Offers(Screen, act) /\ Handled(new, FALSE)
-----------------------------------------------------------------------------
Type(t) == Does(<<"type", "filter">>, [ui EXCEPT !.filter = t])
Clear == Does(<<"clear", "filter">>, [ui EXCEPT !.filter = ""])
Open(n) == Does(<<"open", n>>, [ui EXCEPT !.open = n, !.mode = "detail"])
Back == Does(<<"back">>, [ui EXCEPT !.open = None, !.mode = "detail"])

(* Mutant: the page goes on naming a service that was removed.             *)
Forgotten(n) == [ui EXCEPT !.listed = {s \in @ : s.name # n}]

(* remove of RegistryApp: a service that was open is closed.               *)
Removed(n) ==
  [ui EXCEPT !.listed = {s \in @ : s.name # n},
             !.open = IF @ = n THEN None ELSE @,
             !.mode = IF ui.open = n THEN "detail" ELSE @]

Remove(n) == Does(<<"remove", n>>, Removed(n))
Deregister(n) == Does(<<"deregister", n>>, [Removed(n) EXCEPT !.toast = <<"Deregistered", n>>])

(* The names of the services that cannot be framed are in the code.        *)
OpenHere ==
  /\ Offers(Screen, <<"open here">>)
  /\ \E s \in Opened(ui) :
       Handled([ui EXCEPT !.mode = CASE s.view = "json" -> "json"
                                     [] s.view # "json" /\ s.name = "grafana" -> "fallback"
                                     [] s.view # "json" /\ s.name # "grafana" -> "iframe"],
               s.view = "json")
CloseView == Does(<<"mode", "detail">>, [ui EXCEPT !.mode = "detail"])
Refresh == Offers(Screen, <<"refresh">>) /\ Handled([ui EXCEPT !.ago = 0], TRUE)
ToggleAuto == Offers(Screen, <<"auto">>) /\ Handled([ui EXCEPT !.auto = ~@], ~ui.auto)

ShowSettings == Does(<<"show", "settings">>, [ui EXCEPT !.settings = TRUE])
CloseSettings == Does(<<"close", "settings">>, [ui EXCEPT !.settings = FALSE])
TypeToken(t) == Does(<<"type", "token">>, [ui EXCEPT !.token = t])
RemovePeer == Does(<<"remove peer">>, [ui EXCEPT !.toast = <<"Removed peer">>])
Issue == Does(<<"issue">>, [ui EXCEPT !.code = TRUE])

ToggleAgent == Does(<<"agent">>, [ui EXCEPT !.agent = ~@])
CloseAgent == Does(<<"close", "agent">>, [ui EXCEPT !.agent = FALSE])
Draft(t) == Does(<<"type", "draft">>, [ui EXCEPT !.draft = t])
Send ==
  /\ ui.draft \notin Blank
  /\ ui.sent < MaxSent
  /\ Does(<<"send">>, [ui EXCEPT !.sent = @ + 1, !.draft = "", !.toast = <<"Sent">>])

(* The timer of the toast, and the interval of the counter.                *)
Tick ==
  /\ ui.left > 0
  /\ ui' = [ui EXCEPT !.left = @ - 1, !.toast = IF ui.left = 1 THEN NoToast ELSE @]
  /\ seen' = seen + 1
  /\ UNCHANGED since

Second ==
  /\ Opened(ui) # {} /\ ui.mode = "json"
  /\ since < MaxAgo
  /\ ui' = [ui EXCEPT !.ago = IF ui.auto THEN @ + 1 ELSE @]
  /\ since' = since + 1
  /\ UNCHANGED seen
-----------------------------------------------------------------------------
Init ==
  /\ ui = [listed |-> Service, filter |-> "", open |-> None, mode |-> "detail",
           settings |-> FALSE, token |-> "", code |-> FALSE,
           agent |-> FALSE, draft |-> "", sent |-> 0,
           toast |-> NoToast, left |-> 0, ago |-> 0, auto |-> TRUE]
  /\ seen = 0
  /\ since = 0

Next ==
  \/ \E t \in Text : Type(t) \/ TypeToken(t) \/ Draft(t)
  \/ \E n \in Names(Service) : Open(n) \/ Remove(n) \/ Deregister(n)
  \/ Clear \/ Back \/ OpenHere \/ CloseView \/ Refresh \/ ToggleAuto
  \/ ShowSettings \/ CloseSettings \/ RemovePeer \/ Issue
  \/ ToggleAgent \/ CloseAgent \/ Send
  \/ Tick \/ Second

-----------------------------------------------------------------------------
L == INSTANCE Library

TypeOK ==
  /\ ui.listed \subseteq Service
  /\ {ui.filter, ui.token, ui.draft} \subseteq Text
  /\ ui.open \in Names(Service) \union {None}
  /\ ui.mode \in {"detail", "json", "fallback", "iframe"}
  /\ {ui.settings, ui.code, ui.agent, ui.auto} \subseteq BOOLEAN
  /\ ui.sent \in 0 .. MaxSent /\ {ui.ago, since} \subseteq 0 .. MaxAgo
  /\ {ui.left, seen} \subseteq 0 .. ToastTicks

(* The services that match the filter are each there once to be opened, on *)
(* the tiles or in the rail, and no other.                                 *)
ItemsShownOnce ==
  \A s \in Service :
    Cardinality({e \in Screen : e.does = <<"open", s.name>>}) = IF s \in Visible THEN 1 ELSE 0

(* The page's own copies of the library's components do what those do.     *)
AsTheLibrary ==
  /\ Deeds(Header) = Deeds(L!AmpHeader(
       Cardinality({s \in ui.listed : s.attention > 0}), <<"agent">>, ui.agent,
       When(Opened(ui) # {}, Below(<<"back">>, L!AmpTextControl(<<"back">>)))
       \union Below(<<"filter">>, L!AmpFilter(ui.filter, "filter"))
       \union Below(<<"settings">>, L!AmpTextControl(<<"show", "settings">>))))
  /\ \A s \in ui.listed :
       /\ Deeds({e \in ServiceTile(s) : e.at # <<"remove">>})
            = Deeds(L!AmpTile(s.attention, <<"open", s.name>>) \union L!HealthPill(s.health))
       /\ \A selected \in BOOLEAN : Deeds(RailRow(s, selected))
            = Deeds(L!AmpRailRow(s.attention, selected, <<"open", s.name>>)
                    \union L!HealthPill(s.health))
  /\ ui.agent => Deeds(AgentPanel) = Deeds({e \in
       L!AmpAgentPanel(<<"type", "draft">>, <<"send">>, <<"close", "agent">>) : e.at # <<"powered">>})
  /\ ui.settings => Deeds(Settings) = Deeds(L!Modal(<<"close", "settings">>,
       Below(<<"body">>, {e \in Settings : e.at \in {<<"dialog", p>> : p \in {"token", "peer", "issue", "code"}}})))
  /\ \A s \in {t \in Opened(ui) : ui.mode = "detail"} :
       Deeds({e \in Detail(s) : e.at # <<"deregister">>})
         = Deeds(L!ServiceDetail(s, s.health, <<"open here">>))
  /\ Deeds(ViewerToolbar({})) = Deeds(L!ViewerHeader(TRUE, {}, <<"mode", "detail">>))

(* A click runs one handler.                                               *)
OneHandler == \A e \in Screen : Cardinality(Fired(Screen, e)) <= 1

ScreenSound == ItemsShownOnce /\ AsTheLibrary /\ OneHandler

(* A toast is shown for its whole time, whatever was shown before it; and  *)
(* "updated N s ago" is true of the reading while it is counted.           *)
EffectsInStep ==
  /\ ui.toast # NoToast => ui.left + seen = ToastTicks
  /\ Counting(ui) => ui.ago = since
=============================================================================
