----------------------------- MODULE MuxplexKit -----------------------------
(***************************************************************************)
(* The session dashboard (ui_kits/muxplex): a grid of sessions or one of   *)
(* them, a session rail, a settings dialog, an agent panel, a pill over    *)
(* the grid and a toast.                                                   *)
(*                                                                         *)
(* Actions and effects are as in RegistryKit.  A collapsed rail keeps its  *)
(* elements; the sort, the view and the zoom are only counted or named.    *)
(***************************************************************************)
EXTENDS Elements

CONSTANTS Session,       \* the sessions of data.js: name, device, bell
          Device, Text, Blank, Matches, ToastTicks, MaxSent,   \* as in RegistryKit
          Zoom           \* the steps of the zoom that are taken

VARIABLES ui,            \* React's state of the page, and the toast's timer
          seen           \* observer: ticks the toast was shown

NoToast == <<>>
SORTS == <<"Recent activity", "Name", "Device">>
Tier == {"all", "bell", "active", "idle"}
BellMode == {"glow", "dot", "off"}

Names == {s.name : s \in Session}
Opened(u) == {s \in Session : s.name = u.open}

(* The tiers active and idle both hold the sessions without a bell.        *)
Sessions ==
  {s \in Session :
     /\ ui.filter \in Blank \/ s.name \in Matches[ui.filter]
     /\ ui.tier # "all" => (ui.tier = "bell" <=> s.bell > 0)}
-----------------------------------------------------------------------------
QuickLink(onClick) == {Button(<<>>, onClick)}

HeaderButton(agent, onClick) ==
  {Button(<<>>, onClick)} \union When(agent, {Mark(<<"icon">>, "amplifier")})

FilterInput ==
  {Input(<<"input">>, <<"type", "filter">>)}
  \union When(ui.filter # "", {Button(<<"clear">>, <<"clear", "filter">>)})

Header ==
  Below(<<"rail">>, QuickLink(<<"rail">>))
  \union Below(<<"view">>, QuickLink(<<"view">>)) \union Below(<<"sort">>, QuickLink(<<"sort">>))
  \union Below(<<"filter">>, FilterInput)
  \union Below(<<"agent">>, HeaderButton(TRUE, <<"agent">>))
  \union Below(<<"settings">>, HeaderButton(FALSE, <<"show", "settings">>))

SidebarItem(s, active) ==
  {Area(<<>>, <<"open", s.name>>, IF s.bell > 0 THEN "bell" ELSE IF active THEN "active" ELSE "line")}
  \union When(s.bell > 0, {Mark(<<"badge">>, "bell")})

Rail ==
  Below(<<"sort">>, QuickLink(<<"sort">>)) \union Below(<<"filter">>, FilterInput)
  \union When(Sessions = {}, {Mark(<<"empty">>, "No sessions match this filter.")})
  \union Below(<<"new">>, QuickLink(NoAct))
  \union UNION {Below(<<"device", d>>,
                      UNION {Below(<<s.name>>, SidebarItem(s, s.name = ui.open))
                               : s \in {t \in Sessions : t.device = d}}) : d \in Device}
-----------------------------------------------------------------------------
SessionTile(s) ==
  {Area(<<>>, <<"attach", s.name>>, IF s.bell > 0 THEN "bell" ELSE "line")}
  \union When(s.bell > 0, {Mark(<<"badge">>, "bell")})

FilterPill(active, onClick) == {Element(<<>>, "button", onClick, IF active THEN "active" ELSE "")}

SessionGrid ==
  When(Sessions = {}, {Mark(<<"empty">>, "No sessions match this filter.")})
  \union (UNION {Below(<<"tier", t>>, FilterPill(ui.tier = t, <<"tier", t>>)) : t \in Tier})
  \union UNION {Below(<<"tile", s.name>>, SessionTile(s)) : s \in Sessions}

SessionView == Below(<<"back">>, QuickLink(<<"back">>))

(* The pill is always for the session that is called deploy.               *)
SessionPillFloating == {Button(<<>>, <<"open", "deploy">>), Mark(<<"dot">>, "bell")}

Modal(onClose, children) ==
  {Area(<<"backdrop">>, onClose, ""), Button(<<"dialog", "close">>, onClose)}
  \union Below(<<"dialog">>, children)

SettingsDialog ==
  Modal(<<"close", "settings">>,
        {Input(<<"zoom">>, <<"zoom">>)}
        \union UNION {Below(<<"bell", m>>, FilterPill(ui.bellMode = m, <<"bell", m>>)) : m \in BellMode})

AgentPanel ==
  {Button(<<"close">>, <<"close", "agent">>), Input(<<"draft">>, <<"type", "draft">>),
   Key(<<"draft", "enter">>, <<"send">>), Button(<<"send">>, <<"send">>),
   Element(<<"powered">>, "link", <<"top">>, "")}

Toast == {Mark(<<>>, "toast")}

Screen ==
  Below(<<"header">>, Header) \union Below(<<"sidebar">>, Rail)
  \union Below(<<"main">>, IF Opened(ui) = {} THEN SessionGrid ELSE SessionView)
  \union When(Opened(ui) = {} /\ \E s \in Session : s.bell > 0, Below(<<"pill">>, SessionPillFloating))
  \union When(ui.settings, Below(<<"settings dialog">>, SettingsDialog))
  \union When(ui.agent, Below(<<"agent panel">>, AgentPanel))
  \union When(ui.toast # NoToast, Below(<<"toast">>, Toast))
-----------------------------------------------------------------------------
ToastEffect(new) ==
  IF new.toast = ui.toast THEN new
  ELSE [new EXCEPT !.left = IF new.toast = NoToast THEN 0 ELSE ToastTicks]

(* What unmounted components leave: the state they mount with again.       *)
Unmounted(new) ==
  [new EXCEPT !.draft = IF new.agent THEN @ ELSE "", !.sent = IF new.agent THEN @ ELSE 0]

Handled(new) ==
  /\ ui' = Unmounted(ToastEffect(new))
  /\ seen' = IF new.toast = ui.toast THEN seen ELSE 0

Does(act, new) == Offers(Screen, act) /\ Handled(new)
-----------------------------------------------------------------------------
Type(t) == Does(<<"type", "filter">>, [ui EXCEPT !.filter = t])
Clear == Does(<<"clear", "filter">>, [ui EXCEPT !.filter = ""])
Open(n) == Does(<<"open", n>>, [ui EXCEPT !.open = n])
Attach(n) == Does(<<"attach", n>>, [ui EXCEPT !.open = n, !.toast = <<"Attached to", n>>])
Back == Does(<<"back">>, [ui EXCEPT !.open = None])
ToggleRail == Does(<<"rail">>, [ui EXCEPT !.rail = ~@])
CycleView == Does(<<"view">>, [ui EXCEPT !.view = IF @ = "Grid" THEN "List" ELSE "Grid"])
CycleSort == Does(<<"sort">>, [ui EXCEPT !.sort = (@ + 1) % Len(SORTS)])
SetTier(t) == Does(<<"tier", t>>, [ui EXCEPT !.tier = t])

ShowSettings == Does(<<"show", "settings">>, [ui EXCEPT !.settings = TRUE])
CloseSettings == Does(<<"close", "settings">>, [ui EXCEPT !.settings = FALSE])
SetZoom(z) == Does(<<"zoom">>, [ui EXCEPT !.zoom = z])
SetBell(m) == Does(<<"bell", m>>, [ui EXCEPT !.bellMode = m])

ToggleAgent == Does(<<"agent">>, [ui EXCEPT !.agent = ~@])
CloseAgent == Does(<<"close", "agent">>, [ui EXCEPT !.agent = FALSE])
Draft(t) == Does(<<"type", "draft">>, [ui EXCEPT !.draft = t])
Send ==
  /\ ui.draft \notin Blank
  /\ ui.sent < MaxSent
  /\ Does(<<"send">>, [ui EXCEPT !.sent = @ + 1, !.draft = "", !.toast = <<"Sent">>])

Tick ==
  /\ ui.left > 0
  /\ ui' = [ui EXCEPT !.left = @ - 1, !.toast = IF ui.left = 1 THEN NoToast ELSE @]
  /\ seen' = seen + 1
-----------------------------------------------------------------------------
Init ==
  /\ ui = [rail |-> TRUE, view |-> "Grid", sort |-> 0, filter |-> "", tier |-> "all",
           open |-> None, settings |-> FALSE, zoom |-> 100, bellMode |-> "glow",
           agent |-> FALSE, draft |-> "", sent |-> 0, toast |-> NoToast, left |-> 0]
  /\ seen = 0

Next ==
  \/ \E t \in Text : Type(t) \/ Draft(t)
  \/ \E n \in Names : Open(n) \/ Attach(n)
  \/ \E t \in Tier : SetTier(t)
  \/ \E z \in Zoom : SetZoom(z)
  \/ \E m \in BellMode : SetBell(m)
  \/ Clear \/ Back \/ ToggleRail \/ CycleView \/ CycleSort \/ ShowSettings \/ CloseSettings
  \/ ToggleAgent \/ CloseAgent \/ Send \/ Tick
-----------------------------------------------------------------------------
L == INSTANCE Library

TypeOK ==
  /\ {ui.rail, ui.settings, ui.agent} \subseteq BOOLEAN
  /\ ui.view \in {"Grid", "List"} /\ ui.sort \in 0 .. Len(SORTS) - 1
  /\ {ui.filter, ui.draft} \subseteq Text
  /\ ui.tier \in Tier /\ ui.bellMode \in BellMode /\ ui.zoom \in Zoom
  /\ ui.open \in Names \union {None}
  /\ ui.sent \in 0 .. MaxSent /\ {ui.left, seen} \subseteq 0 .. ToastTicks

(* The sessions that match the filter are each there once in the rail, and *)
(* on the grid while no session is open; no other session is.              *)
ItemsShownOnce ==
  \A s \in Session :
    /\ Cardinality({e \in Screen : e.kind = "area" /\ e.does = <<"open", s.name>>})
         = IF s \in Sessions THEN 1 ELSE 0
    /\ Offers(Screen, <<"attach", s.name>>) <=> s \in Sessions /\ Opened(ui) = {}

(* The page's own copies of the library's components do what those do.     *)
AsTheLibrary ==
  /\ Deeds(FilterInput) = Deeds(L!FilterInput(ui.filter, "filter", <<"clear", "filter">>))
  /\ Deeds(HeaderButton(TRUE, <<"agent">>)) = Deeds(L!HeaderButton(TRUE, <<"agent">>))
  /\ Deeds(QuickLink(<<"sort">>)) = Deeds(L!QuickLink(<<"sort">>))
  /\ \A s \in Session :
       LET badge == When(s.bell > 0, {Mark(<<"badge">>, "bell")})
       IN /\ Deeds(SessionTile(s)) = Deeds(L!SessionTile(s.bell, <<"attach", s.name>>))
          /\ \A active \in BOOLEAN : Deeds(SidebarItem(s, active))
               = Deeds(L!SidebarItem(active, s.bell > 0, badge, <<"open", s.name>>))
  /\ Deeds(SessionPillFloating) = Deeds(L!SessionPill(TRUE, <<"open", "deploy">>))
  /\ ui.settings => Deeds(SettingsDialog) = Deeds(L!Modal(<<"close", "settings">>,
       {Input(<<"zoom">>, <<"zoom">>)} \union
       UNION {Below(<<m>>, L!FilterPill(ui.bellMode = m, <<"bell", m>>)) : m \in BellMode}))

OneHandler == \A e \in Screen : Cardinality(Fired(Screen, e)) <= 1

ScreenSound == ItemsShownOnce /\ AsTheLibrary /\ OneHandler

(* A toast is shown for its whole time, whatever was shown before it.      *)
EffectsInStep == ui.toast # NoToast => ui.left + seen = ToastTicks
=============================================================================
