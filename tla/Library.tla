------------------------------ MODULE Library ------------------------------
(***************************************************************************)
(* The component library (components/, as _ds_bundle.js holds it): what    *)
(* each component offers its user, given its props.  A handler a caller    *)
(* does not give is NoAct; a text field's handler is named by the field it *)
(* types into.  Hover and focus, which only colour an element, and wording *)
(* and layout are left out.                                                *)
(***************************************************************************)
EXTENDS Elements

(* Amplifier apps.                                                         *)
AttentionBadge == {Mark(<<"badge">>, "attention")}

AgentButton(onClick, open) == {Element(<<>>, "button", onClick, IF open THEN "open" ELSE "")}

AmpHeader(attention, onAgent, agentOpen, children) ==
  children \union When(attention > 0, AttentionBadge)
           \union When(onAgent # NoAct, Below(<<"agent">>, AgentButton(onAgent, agentOpen)))

AmpTextControl(onClick) == {Button(<<>>, onClick)}

AmpFilter(value, field) ==
  {Input(<<"input">>, <<"type", field>>)}
  \union When(value # "", {Button(<<"clear">>, <<"clear", field>>)})

(* The one channel of the left edge: attention wins over selection.        *)
ampEdge(attention, selected) ==
  CASE attention > 0 -> "attention"
    [] attention = 0 /\ selected -> "selected"
    [] attention = 0 /\ ~selected -> "line"

AmpTile(attention, onOpen) ==
  {Area(<<>>, onOpen, ampEdge(attention, FALSE))} \union When(attention > 0, AttentionBadge)

AmpRailRow(attention, selected, onOpen) ==
  {Area(<<>>, onOpen, ampEdge(attention, selected))} \union When(attention > 0, AttentionBadge)

AmpAgentPanel(onDraft, onSend, onClose) ==
  {Button(<<"close">>, onClose), Input(<<"draft">>, onDraft), Key(<<"draft", "enter">>, onSend),
   Button(<<"send">>, onSend), Element(<<"powered">>, "link", <<"top">>, "")}
-----------------------------------------------------------------------------
(* The catalogue of the service directory.                                 *)
HealthPill(status) ==
  {Mark(<<"health">>, IF status \in {"up", "down"} THEN status ELSE "unknown")}

ServiceRow(service, status, selected, compact, onOpen, onRemove) ==
  {Area(<<>>, onOpen, IF selected THEN "selected" ELSE ""), Stopping(Button(<<"name">>, onOpen))}
  \union HealthPill(status)
  \union When(~compact, {NewTab(<<"address", l>>) : l \in service.links})
  \union When(~compact /\ service.docs, {Element(<<"docs">>, "link", <<"leave">>, "")})
  \union When(service.dynamic /\ onRemove # NoAct, {Stopping(Button(<<"remove">>, onRemove))})

(* A row per service, with the handlers bound to its service.              *)
ServiceTable(services, health, compact, selected, onOpen, onRemove) ==
  UNION {Below(<<s.name>>, ServiceRow(s, health[s.name], selected = s.name, compact,
                                      <<onOpen, s.name>>, <<onRemove, s.name>>)) : s \in services}

NodeGroup(children) == {Mark(<<"reachable">>, "reachable")} \union children

Disclosure(isOpen, toggle, children) ==
  {Area(<<"title">>, toggle, ""), Key(<<"title", "key">>, toggle)} \union When(isOpen, children)

TextInput(field) == {Input(<<"input">>, <<"type", field>>)}

SettingsPanel(onClose, children) ==
  {Area(<<>>, onClose, ""), Stopping(Area(<<"panel">>, NoAct, "")),
   Button(<<"panel", "close">>, onClose)}
  \union Below(<<"panel">>, children)

PeerItem(reachable, onRemove) ==
  {Mark(<<>>, IF reachable THEN "reachable" ELSE "unknown"), Button(<<"remove">>, onRemove)}

PairingCode == {Mark(<<"code">>, "code")}

ServiceDetail(service, status, onOpenHere) ==
  {Mark(<<"health">>, status)}
  \union When(service.docs, {NewTab(<<"docs">>)})
  \union {NewTab(<<"address", l>>) : l \in service.links}
  \union (IF service.links # {} THEN {Button(<<"open here">>, onOpenHere)}
          ELSE {Mark(<<"open here">>, "No in-app view")})

ViewerWelcome == {Mark(<<"welcome">>, "welcome")}

ViewerHeader(url, actions, onClose) ==
  actions \union When(url, {NewTab(<<"new tab">>)}) \union {Button(<<"close">>, onClose)}

ViewerFallback == {NewTab(<<"escape">>)}
-----------------------------------------------------------------------------
(* Muxplex.                                                                *)
QuickLink(onClick) == {Button(<<>>, onClick)}

HeaderButton(agent, onClick) ==
  {Button(<<>>, onClick)} \union When(agent, {Mark(<<"icon">>, "amplifier")})

FilterInput(value, field, onClear) ==
  {Input(<<"input">>, <<"type", field>>)} \union When(value # "", {Button(<<"clear">>, onClear)})

Modal(onClose, children) ==
  {Area(<<"backdrop">>, onClose, ""), Button(<<"dialog", "close">>, onClose)}
  \union Below(<<"dialog">>, children)

SessionPill(bell, onClick) ==
  {Button(<<>>, onClick)} \union When(bell, {Mark(<<"dot">>, "bell")})

FilterPill(active, onClick) == {Element(<<>>, "button", onClick, IF active THEN "active" ELSE "")}

SessionTile(bellCount, onClick) ==
  {Area(<<>>, onClick, IF bellCount > 0 THEN "bell" ELSE "line")}
  \union When(bellCount > 0, {Mark(<<"badge">>, "bell")})

SidebarItem(active, bell, badge, onClick) ==
  {Area(<<>>, onClick, IF bell THEN "bell" ELSE IF active THEN "active" ELSE "line")} \union badge
=============================================================================
