---------------------------- MODULE AmplifierKit ----------------------------
(***************************************************************************)
(* The application shell (ui_kits/amplifier_app): tiles of runs, one of    *)
(* them opened beside a rail, tabs over its content, an agent panel, a     *)
(* toast, and a theme that outlives the page in localStorage.              *)
(*                                                                         *)
(* Actions and effects are as in RegistryKit.  The sort orders tiles that  *)
(* are otherwise the same, and is only counted.                            *)
(***************************************************************************)
EXTENDS Elements

CONSTANTS Run,           \* the runs of data.js: name, and the attention they need
          Text, Blank, Matches, ToastTicks, MaxSent,   \* as in RegistryKit
          MatchesOk,     \* the runs each text is in while their status is "ok"
          Kept           \* what localStorage may hold at first, "" for nothing

VARIABLES ui,            \* React's state of the page, and the toast's timer
          seen,          \* observer: ticks the toast was shown
          stored,        \* the theme in localStorage
          applied        \* the theme of the document

NoToast == <<>>
SORTS == <<"Recent", "Attention first", "Name", "Owner">>
THEMES == <<"Dark", "Light", "Auto">>

Names == {r.name : r \in Run}
AttentionOf(r) == IF r.name \in ui.resolved THEN 0 ELSE r.attention
Opened(u) == {r \in Run : r.name = u.open}

(* The filter looks at the status, too, which is "ok" once a run was       *)
(* promoted.                                                               *)
MatchesNow(n) == n \in (IF n \in ui.resolved THEN MatchesOk ELSE Matches)[ui.filter]
Visible == {r \in Run : ui.filter \in Blank \/ MatchesNow(r.name)}
-----------------------------------------------------------------------------
Link(onClick) == {Button(<<>>, onClick)}
AttentionBadge == {Mark(<<"badge">>, "attention")}

Filter ==
  {Input(<<"input">>, <<"type", "filter">>)}
  \union When(ui.filter # "", {Button(<<"clear">>, <<"clear", "filter">>)})

AgentButton == {Element(<<>>, "button", <<"agent">>, IF ui.agent THEN "open" ELSE "")}

Header ==
  When(Opened(ui) # {}, Below(<<"back">>, Link(<<"back">>)))
  \union Below(<<"sort">>, Link(<<"sort">>)) \union Below(<<"theme">>, Link(<<"theme">>))
  \union Below(<<"filter">>, Filter)
  \union When(\E r \in Run : AttentionOf(r) > 0, AttentionBadge)
  \union Below(<<"agent">>, AgentButton)

edgeColour(r, selected) ==
  CASE AttentionOf(r) > 0 -> "attention"
    [] AttentionOf(r) = 0 /\ selected -> "selected"
    [] AttentionOf(r) = 0 /\ ~selected -> "line"

Tile(r) ==
  {Area(<<>>, <<"open", r.name>>, edgeColour(r, FALSE))}
  \union When(AttentionOf(r) > 0, AttentionBadge)

Overview ==
  When(Visible = {}, {Mark(<<"empty">>, "No runs match this filter.")})
  \union UNION {Below(<<"run", r.name>>, Tile(r)) : r \in Visible}

RailRow(r, selected) ==
  {Area(<<>>, <<"open", r.name>>, edgeColour(r, selected))}
  \union When(AttentionOf(r) > 0, AttentionBadge)

Rail ==
  Below(<<"filter">>, Filter)
  \union When(Visible = {}, {Mark(<<"empty">>, "No runs match this filter.")})
  \union UNION {Below(<<"run", r.name>>, RailRow(r, r.name = ui.open)) : r \in Visible}

(* The tabs, and the cursor that waits for the user's word.                *)
Detail(r) ==
  When(AttentionOf(r) > 0, {Button(<<"promote">>, <<"promote", r.name>>)})
  \union {Button(<<"tab", t>>, <<"tab", t>>) : t \in {"output", "blocks", "config"}}
  \union {Mark(<<"content">>, IF ui.tab = "output" /\ AttentionOf(r) > 0 THEN "waits" ELSE ui.tab)}

AgentPanel ==
  {Button(<<"close">>, <<"close", "agent">>), Input(<<"draft">>, <<"type", "draft">>),
   Key(<<"draft", "enter">>, <<"send">>), Button(<<"send">>, <<"send">>),
   Element(<<"powered">>, "link", <<"top">>, "")}

Toast == {Mark(<<>>, "toast")}

Screen ==
  Below(<<"header">>, Header)
  \union (IF Opened(ui) = {} THEN Below(<<"overview">>, Overview)
          ELSE Below(<<"rail">>, Rail)
               \union UNION {Below(<<"detail">>, Detail(r)) : r \in Opened(ui)})
  \union When(ui.agent, Below(<<"agent panel">>, AgentPanel))
  \union When(ui.toast # NoToast, Below(<<"toast">>, Toast))
-----------------------------------------------------------------------------
ToastEffect(new) ==
  IF new.toast = ui.toast THEN new
  ELSE [new EXCEPT !.left = IF new.toast = NoToast THEN 0 ELSE ToastTicks]

(* What unmounted components leave: the state they mount with again.       *)
Unmounted(new) ==
  [new EXCEPT !.tab = IF Opened(new) = {} THEN "output" ELSE @,
              !.draft = IF new.agent THEN @ ELSE "",
              !.sent = IF new.agent THEN @ ELSE 0]

(* The theme's effect dresses the document and keeps the theme.            *)
ThemeEffect(new) == applied' = new.theme /\ stored' = new.theme

Handled(new) ==
  /\ ui' = Unmounted(ToastEffect(new))
  /\ seen' = IF new.toast = ui.toast THEN seen ELSE 0
  /\ IF new.theme = ui.theme THEN UNCHANGED <<applied, stored>> ELSE ThemeEffect(new)

Does(act, new) == Offers(Screen, act) /\ Handled(new)
-----------------------------------------------------------------------------
Type(t) == Does(<<"type", "filter">>, [ui EXCEPT !.filter = t])
Clear == Does(<<"clear", "filter">>, [ui EXCEPT !.filter = ""])
Open(n) == Does(<<"open", n>>, [ui EXCEPT !.open = n])
Back == Does(<<"back">>, [ui EXCEPT !.open = None])
CycleSort == Does(<<"sort">>, [ui EXCEPT !.sort = (@ + 1) % Len(SORTS)])

(* Mutant: after the last theme comes none.                                *)
NoWrap(t) ==
  IF \E i \in DOMAIN THEMES : THEMES[i] = t
  THEN LET i == CHOOSE j \in DOMAIN THEMES : THEMES[j] = t
       IN IF i = Len(THEMES) THEN "undefined" ELSE THEMES[i + 1]
  ELSE THEMES[1]

(* A theme that is none of THEMES has index -1, and the first comes next.  *)
NextTheme(t) ==
  IF \E i \in DOMAIN THEMES : THEMES[i] = t
  THEN LET i == CHOOSE j \in DOMAIN THEMES : THEMES[j] = t IN THEMES[(i % Len(THEMES)) + 1]
  ELSE THEMES[1]

CycleTheme == Does(<<"theme">>, [ui EXCEPT !.theme = NextTheme(@)])
Tab(t) == Does(<<"tab", t>>, [ui EXCEPT !.tab = t])
Promote(n) ==
  Does(<<"promote", n>>, [ui EXCEPT !.resolved = @ \union {n}, !.toast = <<"Promoted", n>>])

ToggleAgent == Does(<<"agent">>, [ui EXCEPT !.agent = ~@])
CloseAgent == Does(<<"close", "agent">>, [ui EXCEPT !.agent = FALSE])
Draft(t) == Does(<<"type", "draft">>, [ui EXCEPT !.draft = t])
Send ==
  /\ ui.draft \notin Blank
  /\ ui.sent < MaxSent
  /\ Does(<<"send">>, [ui EXCEPT !.sent = @ + 1, !.draft = "", !.toast = <<"Sent">>])

Tick ==
  /\ ui.left > 0
  /\ ui' = [ui EXCEPT !.left = @ - 1, !.toast = IF ui.left = 1 THEN NoToast ELSE @]
  /\ seen' = seen + 1
  /\ UNCHANGED <<stored, applied>>

(* The page as it mounts, with the theme that was kept.                    *)
Mounted(kept) ==
  [filter |-> "", sort |-> 0, open |-> None, tab |-> "output", resolved |-> {},
   agent |-> FALSE, draft |-> "", sent |-> 0, toast |-> NoToast, left |-> 0,
   theme |-> IF kept = "" THEN "Dark" ELSE kept]

Reload == ui' = Mounted(stored) /\ seen' = 0 /\ ThemeEffect(Mounted(stored))
-----------------------------------------------------------------------------
Init ==
  \E kept \in Kept :
    /\ ui = Mounted(kept)
    /\ seen = 0
    /\ stored = ui.theme
    /\ applied = ui.theme

Next ==
  \/ \E t \in Text : Type(t) \/ Draft(t)
  \/ \E n \in Names : Open(n) \/ Promote(n)
  \/ \E t \in {"output", "blocks", "config"} : Tab(t)
  \/ Clear \/ Back \/ CycleSort \/ CycleTheme
  \/ ToggleAgent \/ CloseAgent \/ Send \/ Tick \/ Reload
-----------------------------------------------------------------------------
L == INSTANCE Library

TypeOK ==
  /\ {ui.filter, ui.draft} \subseteq Text
  /\ ui.sort \in 0 .. Len(SORTS) - 1
  /\ ui.open \in Names \union {None}
  /\ ui.resolved \subseteq Names
  /\ ui.sent \in 0 .. MaxSent /\ {ui.left, seen} \subseteq 0 .. ToastTicks
  /\ {ui.theme, stored, applied} \subseteq (Kept \ {""}) \union {THEMES[i] : i \in DOMAIN THEMES}

(* The runs that match the filter are each there once to be opened, and    *)
(* only a run that waits for a word can be given it.                       *)
ItemsShownOnce ==
  /\ \A r \in Run : Cardinality({e \in Screen : e.does = <<"open", r.name>>})
                      = IF r \in Visible THEN 1 ELSE 0
  /\ \A r \in Run : Offers(Screen, <<"promote", r.name>>)
                      <=> r.name = ui.open /\ r.attention > 0 /\ r.name \notin ui.resolved

(* The page's own copies of the library's components do what those do.     *)
AsTheLibrary ==
  /\ Deeds(Header) = Deeds(L!AmpHeader(
       Cardinality({r \in Run : AttentionOf(r) > 0}), <<"agent">>, ui.agent,
       When(Opened(ui) # {}, Below(<<"back">>, L!AmpTextControl(<<"back">>)))
       \union Below(<<"sort">>, L!AmpTextControl(<<"sort">>))
       \union Below(<<"theme">>, L!AmpTextControl(<<"theme">>))
       \union Below(<<"filter">>, L!AmpFilter(ui.filter, "filter"))))
  /\ \A r \in Run :
       /\ Deeds(Tile(r)) = Deeds(L!AmpTile(AttentionOf(r), <<"open", r.name>>))
       /\ \A selected \in BOOLEAN :
            Deeds(RailRow(r, selected)) = Deeds(L!AmpRailRow(AttentionOf(r), selected, <<"open", r.name>>))
  /\ ui.agent => Deeds(AgentPanel)
       = Deeds(L!AmpAgentPanel(<<"type", "draft">>, <<"send">>, <<"close", "agent">>))

OneHandler == \A e \in Screen : Cardinality(Fired(Screen, e)) <= 1

ScreenSound == ItemsShownOnce /\ AsTheLibrary /\ OneHandler

(* A toast is shown for its whole time, and what the document wears and    *)
(* what the next visit gets is the theme that is chosen.                   *)
EffectsInStep ==
  /\ ui.toast # NoToast => ui.left + seen = ToastTicks
  /\ applied = ui.theme /\ stored = ui.theme
=============================================================================
