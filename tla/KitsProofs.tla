----------------------------- MODULE KitsProofs -----------------------------
(***************************************************************************)
(* The pages of ui_kits, for any services, runs, sessions, texts and       *)
(* bounds: types, EffectsInStep, and that each page refines Browsing.      *)
(*                                                                         *)
(* An act takes what an element of the screen offers, so the proofs first  *)
(* say what a screen can offer: the lemmas ...Acts walk the tree of        *)
(* elements of a page and end in ...Offers, by which an item that is       *)
(* opened is listed and one that is removed may leave the list.  Then each *)
(* act of a page keeps the page's invariant and is a step of its list      *)
(* (Moved), and a page's list is mapped to Browsing.                       *)
(***************************************************************************)
EXTENDS Kits, TLAPS

-----------------------------------------------------------------------------
(* A step of a list and of what is open in it: nothing, an item is opened  *)
(* or closed, or one that may be removed goes.                             *)
Moved(listed, open, listed2, open2) ==
  \/ listed2 = listed /\ open2 \in listed \union {open, None}
  \/ \E n \in listed \intersect Removable :
       listed2 = listed \ {n} /\ open2 = IF open = n THEN None ELSE open
-----------------------------------------------------------------------------
(* The registry's page.                                                    *)

RegistryUI ==
  [listed : SUBSET Service, filter : Text, open : R!Names(Service) \union {None},
   mode : {"detail", "json", "fallback", "iframe"}, settings : BOOLEAN, token : Text,
   code : BOOLEAN, agent : BOOLEAN, draft : Text, sent : 0 .. MaxSent,
   toast : {<<>>} \union Said, left : 0 .. ToastTicks, ago : 0 .. MaxAgo, auto : BOOLEAN]

(* A toast has the time left that it was not shown yet.                    *)
ToastKept ==
  /\ ui.toast # <<>> => ui.left > 0 /\ ui.left + seen = ToastTicks
  /\ ui.toast = <<>> => ui.left = 0

RegistryInv ==
  /\ ui \in RegistryUI /\ seen \in 0 .. ToastTicks /\ since \in 0 .. MaxAgo
  /\ ToastKept
  /\ R!Counting(ui) => ui.ago = since

LEMMA Limits ==
  /\ ToastTicks \in Nat /\ ToastTicks > 0 /\ MaxAgo \in Nat /\ MaxSent \in Nat
  /\ 0 \in 0 .. MaxAgo /\ 0 \in 0 .. MaxSent
  /\ 0 \in 0 .. ToastTicks /\ ToastTicks \in 0 .. ToastTicks
<1>1. ToastTicks \in Nat \ {0} /\ MaxAgo \in Nat /\ MaxSent \in Nat
  BY Zenon, KitsAssumption
<1> QED BY <1>1

LEMMA NoText == "" \in Text
  BY KitsAssumption

(* What the page keeps of a component that is gone, with the values named. *)
RegistryPut(new, ago, auto, token, code, draft, sent) ==
  [new EXCEPT !.ago = ago, !.auto = auto, !.token = token, !.code = code,
              !.draft = draft, !.sent = sent]

LEMMA RegistryPutFields ==
  ASSUME NEW new \in RegistryUI, NEW ago \in 0 .. MaxAgo, NEW auto \in BOOLEAN,
         NEW token \in Text, NEW code \in BOOLEAN, NEW draft \in Text, NEW sent \in 0 .. MaxSent
  PROVE  LET put == RegistryPut(new, ago, auto, token, code, draft, sent)
         IN /\ put \in RegistryUI
            /\ put.toast = new.toast /\ put.left = new.left /\ put.mode = new.mode
            /\ put.listed = new.listed /\ put.open = new.open
            /\ put.ago = ago /\ put.auto = auto
  BY DEF RegistryUI, RegistryPut

LEMMA RegistryUnmounted ==
  ASSUME NEW new \in RegistryUI
  PROVE  LET put == R!Unmounted(new)
         IN /\ put \in RegistryUI
            /\ put.toast = new.toast /\ put.left = new.left /\ put.mode = new.mode
            /\ put.listed = new.listed /\ put.open = new.open
            /\ R!Opened(new) # {} => put.ago = new.ago /\ put.auto = new.auto
<1> DEFINE ago == IF R!Opened(new) = {} THEN 0 ELSE new.ago
           auto == R!Opened(new) = {} \/ new.auto
           token == IF new.settings THEN new.token ELSE ""
           code == new.settings /\ new.code
           draft == IF new.agent THEN new.draft ELSE ""
           sent == IF new.agent THEN new.sent ELSE 0
           put == RegistryPut(new, ago, auto, token, code, draft, sent)
<1>1. /\ ago \in 0 .. MaxAgo /\ sent \in 0 .. MaxSent /\ token \in Text /\ draft \in Text
      /\ auto \in BOOLEAN /\ code \in BOOLEAN
  BY Limits, NoText DEF RegistryUI
<1>2. R!Opened(new) # {} => ago = new.ago /\ auto = new.auto
  BY DEF RegistryUI
<1>3. R!Unmounted(new) = put
  BY Zenon DEF R!Unmounted, RegistryPut
<1>4. /\ put \in RegistryUI
      /\ put.toast = new.toast /\ put.left = new.left /\ put.mode = new.mode
      /\ put.listed = new.listed /\ put.open = new.open
      /\ put.ago = ago /\ put.auto = auto
  <2> HIDE DEF ago, auto, token, code, draft, sent
  <2> QED BY ONLY <1>1, RegistryPutFields
<1> HIDE DEF ago, auto, put
<1> QED BY <1>2, <1>3, <1>4

LEMMA RegistryEffects ==
  ASSUME ui \in RegistryUI, NEW new \in RegistryUI
  PROVE  R!ToastEffect(new) \in RegistryUI /\ R!CounterEffect(new) \in RegistryUI
<1>1. R!ToastEffect(new) \in RegistryUI
  BY Limits DEF R!ToastEffect, RegistryUI, R!NoToast
<1>2. R!CounterEffect(new) \in RegistryUI
  BY Limits DEF R!CounterEffect, RegistryUI
<1> QED BY <1>1, <1>2

RegistryChanged(new) == <<new.mode, new.auto, R!Opened(new)>> # <<ui.mode, ui.auto, R!Opened(ui)>>

LEMMA RegistryHandled ==
  ASSUME RegistryInv, NEW new \in RegistryUI, NEW read \in BOOLEAN, R!Handled(new, read),
         new.left = ui.left,
         R!Counting(new) =>
           IF read THEN new.ago = 0 \/ RegistryChanged(new)
           ELSE ~RegistryChanged(new) /\ new.ago = ui.ago
  PROVE  RegistryInv' /\ ui'.listed = new.listed /\ ui'.open = new.open
<1> DEFINE a == R!ToastEffect(new)
           b == R!CounterEffect(a)
<1>1. a \in RegistryUI /\ b \in RegistryUI /\ ui' \in RegistryUI
  BY RegistryEffects, RegistryUnmounted DEF RegistryInv, R!Handled
<1>2. seen' \in 0 .. ToastTicks /\ since' \in 0 .. MaxAgo
  BY Limits DEF RegistryInv, R!Handled
<1>3. /\ a.toast = new.toast /\ a.ago = new.ago /\ a.auto = new.auto /\ a.mode = new.mode
      /\ a.listed = new.listed /\ a.open = new.open
      /\ a.left = IF new.toast = ui.toast THEN new.left ELSE IF new.toast = <<>> THEN 0 ELSE ToastTicks
  BY DEF R!ToastEffect, R!NoToast, RegistryUI
<1>4. R!Opened(a) = R!Opened(new) /\ R!Counting(a) = R!Counting(new)
  BY <1>3 DEF R!Opened, R!Counting
<1>5. /\ b.toast = a.toast /\ b.left = a.left /\ b.auto = a.auto /\ b.mode = a.mode
      /\ b.listed = a.listed /\ b.open = a.open
      /\ b.ago = IF R!Counting(a) /\ RegistryChanged(a) THEN 0 ELSE a.ago
  BY <1>1 DEF R!CounterEffect, RegistryUI, RegistryChanged
<1>6. /\ ui'.toast = b.toast /\ ui'.left = b.left /\ ui'.mode = b.mode
      /\ ui'.listed = b.listed /\ ui'.open = b.open
      /\ R!Opened(b) # {} => ui'.ago = b.ago /\ ui'.auto = b.auto
  BY <1>1, RegistryUnmounted DEF R!Handled
<1>7. ToastKept'
  BY <1>1, <1>3, <1>5, <1>6, Limits DEF RegistryInv, ToastKept, R!Handled, RegistryUI
<1>8. R!Opened(ui') = R!Opened(new) /\ R!Opened(b) = R!Opened(new)
  BY <1>3, <1>5, <1>6 DEF R!Opened
<1>9. ASSUME R!Counting(ui') PROVE ui'.ago = since'
  <2>1. R!Counting(new) /\ ui'.ago = b.ago
    BY <1>9, <1>8, <1>6, <1>5, <1>3 DEF R!Counting
  <2>2. RegistryChanged(a) <=> RegistryChanged(new)
    BY <1>3, <1>4 DEF RegistryChanged
  <2>3. b.ago = IF RegistryChanged(new) THEN 0 ELSE new.ago
    BY <1>3, <1>4, <1>5, <2>1, <2>2
  <2>4. CASE read
    BY <2>1, <2>3, <2>4 DEF R!Handled
  <2>5. CASE ~read
    <3>1. R!Counting(ui)
      BY <2>1, <2>5 DEF R!Counting, RegistryChanged
    <3> QED BY <2>1, <2>3, <2>5, <3>1 DEF R!Handled, RegistryInv
  <2> QED BY <2>4, <2>5
<1>10. (R!Counting(ui) => ui.ago = since)'
  BY <1>9 DEF R!Counting, R!Opened
<1>11. RegistryInv'
  BY <1>1, <1>2, <1>7, <1>10 DEF RegistryInv
<1> QED BY <1>3, <1>5, <1>6, <1>11

(* What the page lets its user do: open and remove what is listed, and ask *)
(* for a view where the details are shown.                                 *)
RegistryAct(act) ==
  /\ \A n : act = <<"open", n>> => n \in R!Names(ui.listed)
  /\ \A n : act = <<"remove", n>> => \E s \in ui.listed : s.name = n /\ s.dynamic
  /\ \A n : act = <<"deregister", n>> => \E s \in ui.listed : s.name = n /\ s.attention > 0
  /\ act = <<"open here">> => ui.mode = "detail"
RegistryElement(e) == "does" \in DOMAIN e /\ RegistryAct(e.does)
RegistryActs(part) == \A e \in part : RegistryElement(e)

LEMMA RegistryPlain ==
  /\ RegistryAct(R!NoAct) /\ RegistryAct(<<"agent">>) /\ RegistryAct(<<"back">>)
  /\ RegistryAct(<<"refresh">>) /\ RegistryAct(<<"auto">>) /\ RegistryAct(<<"remove peer">>)
  /\ RegistryAct(<<"issue">>) /\ RegistryAct(<<"send">>) /\ RegistryAct(<<"new tab">>)
  /\ \A x : /\ RegistryAct(<<"type", x>>) /\ RegistryAct(<<"clear", x>>)
           /\ RegistryAct(<<"show", x>>) /\ RegistryAct(<<"close", x>>) /\ RegistryAct(<<"mode", x>>)
  BY DEF RegistryAct, R!NoAct

LEMMA RegistryElements ==
  ASSUME NEW at, NEW kind, NEW act, NEW look
  PROVE  /\ RegistryAct(act) => /\ RegistryElement(R!Element(at, kind, act, look))
                                /\ RegistryElement(R!Button(at, act))
                                /\ RegistryElement(R!Area(at, act, look))
                                /\ RegistryElement(R!Input(at, act))
                                /\ RegistryElement(R!Key(at, act))
                                /\ RegistryElement(R!Stopping(R!Button(at, act)))
         /\ RegistryElement(R!Mark(at, look))
         /\ RegistryElement(R!NewTab(at))
  BY RegistryPlain DEF RegistryElement, R!Element, R!Button, R!Area, R!Input, R!Key, R!Mark, R!NewTab, R!Stopping

LEMMA RegistryBelow ==
  ASSUME NEW at, NEW part, RegistryActs(part)
  PROVE  RegistryActs(R!Below(at, part))
  BY DEF RegistryActs, RegistryElement, R!Below

LEMMA RegistryOffersOpen ==
  ASSUME NEW s \in ui.listed
  PROVE  /\ RegistryAct(<<"open", s.name>>)
         /\ s.dynamic => RegistryAct(<<"remove", s.name>>)
         /\ s.attention > 0 => RegistryAct(<<"deregister", s.name>>)
         /\ ui.mode = "detail" => RegistryAct(<<"open here">>)
  BY DEF RegistryAct, R!Names

LEMMA RegistryHeader == RegistryActs(R!Header)
<1>1. RegistryActs(R!Filter)
  BY RegistryElements, RegistryPlain DEF R!Filter, R!When, RegistryActs
<1>2. RegistryActs(R!AgentButton) /\ RegistryActs(R!Attention)
  BY RegistryElements, RegistryPlain DEF R!AgentButton, R!Attention, RegistryActs
<1>3. RegistryActs(R!Link(<<"back">>)) /\ RegistryActs(R!Link(<<"show", "settings">>))
  BY RegistryElements, RegistryPlain DEF R!Link, RegistryActs
<1> DEFINE back == R!Below(<<"back">>, R!Link(<<"back">>))
           filter == R!Below(<<"filter">>, R!Filter)
           agent == R!Below(<<"agent">>, R!AgentButton)
           settings == R!Below(<<"settings">>, R!Link(<<"show", "settings">>))
<1>4. RegistryActs(back) /\ RegistryActs(filter) /\ RegistryActs(agent) /\ RegistryActs(settings)
  BY <1>1, <1>2, <1>3, RegistryBelow
<1> QED BY <1>2, <1>4 DEF R!Header, R!When, RegistryActs

LEMMA RegistryTiles ==
  ASSUME NEW s \in ui.listed
  PROVE  /\ RegistryActs(R!ServiceTile(s))
         /\ \A selected : RegistryActs(R!RailRow(s, selected))
         /\ ui.mode = "detail" => RegistryActs(R!Detail(s))
<1>1. RegistryActs(R!HealthDot(s)) /\ RegistryActs(R!Attention)
  BY RegistryElements DEF R!HealthDot, R!Attention, RegistryActs
<1>2. RegistryActs(R!ServiceTile(s))
  BY <1>1, RegistryElements, RegistryOffersOpen DEF R!ServiceTile, R!When, RegistryActs
<1>3. \A selected : RegistryActs(R!RailRow(s, selected))
  BY <1>1, RegistryElements, RegistryOffersOpen DEF R!RailRow, R!When, RegistryActs
<1>4. ASSUME ui.mode = "detail" PROVE RegistryActs(R!Detail(s))
  BY <1>1, <1>4, RegistryElements, RegistryOffersOpen DEF R!Detail, R!When, RegistryActs
<1> QED BY <1>2, <1>3, <1>4

LEMMA RegistryLists == RegistryActs(R!Overview) /\ RegistryActs(R!Rail)
<1> DEFINE rows(n) == {s \in R!Visible : s.origin = n}
           tile(s) == R!Below(<<s.name>>, R!ServiceTile(s))
           row(s) == R!Below(<<s.name>>, R!RailRow(s, s.name = ui.open))
           mark == {R!Mark(<<"reachable">>, "reachable")}
           section(n) == R!Below(<<"node", n>>, mark \union UNION {tile(s) : s \in rows(n)})
           railed(n) == R!Below(<<"node", n>>, UNION {row(s) : s \in rows(n)})
           filter == R!Below(<<"filter">>, R!Filter)
           nodes == {n \in Node : rows(n) # {}}
           empty == R!When(R!Visible = {}, {R!Mark(<<"empty">>, "No services match this filter")})
<1>1. \A n : \A s \in rows(n) : RegistryActs(tile(s)) /\ RegistryActs(row(s))
  BY RegistryTiles, RegistryBelow DEF R!Visible
<1>2. RegistryActs(mark)
  BY RegistryElements DEF RegistryActs
<1>3. RegistryActs(filter)
  <2>1. RegistryActs(R!Filter)
    BY RegistryElements, RegistryPlain DEF R!Filter, R!When, RegistryActs
  <2> QED BY <2>1, RegistryBelow
<1>4. \A n : RegistryActs(section(n)) /\ RegistryActs(railed(n))
  <2> TAKE n
  <2> HIDE DEF rows, tile, row, mark
  <2>1. RegistryActs(mark \union UNION {tile(s) : s \in rows(n)})
    BY <1>1, <1>2 DEF RegistryActs
  <2>2. RegistryActs(UNION {row(s) : s \in rows(n)})
    BY <1>1 DEF RegistryActs
  <2> QED BY <2>1, <2>2, RegistryBelow
<1>5. RegistryActs(empty)
  BY RegistryElements DEF RegistryActs, R!When
<1>6. /\ R!Overview = empty \union UNION {section(n) : n \in nodes}
      /\ R!Rail = filter \union UNION {railed(n) : n \in Node}
  BY Zenon DEF R!Overview, R!Rail
<1> HIDE DEF section, railed, rows, filter, nodes, empty
<1>7. RegistryActs(R!Overview)
  <2>1. RegistryActs(UNION {section(n) : n \in nodes})
    BY <1>4 DEF RegistryActs
  <2>2. RegistryActs(empty \union UNION {section(n) : n \in nodes})
    BY <1>5, <2>1 DEF RegistryActs
  <2> QED BY <1>6, <2>2
<1>8. RegistryActs(R!Rail)
  BY <1>3, <1>4, <1>6 DEF RegistryActs
<1> QED BY <1>7, <1>8

LEMMA RegistryPane ==
  ASSUME RegistryInv, NEW s \in ui.listed
  PROVE  RegistryActs(R!Pane(s))
<1>1. ui.mode \in {"detail", "json", "fallback", "iframe"}
  BY DEF RegistryInv, RegistryUI
<1>2. \A actions : RegistryActs(actions) => RegistryActs(R!ViewerToolbar(actions))
  BY RegistryElements, RegistryPlain DEF R!ViewerToolbar, RegistryActs
<1>3. CASE ui.mode = "detail"
  BY <1>3, RegistryTiles DEF R!Pane
<1>4. CASE ui.mode = "json"
  <2>1. RegistryActs({R!Button(<<"refresh">>, <<"refresh">>), R!Button(<<"auto">>, <<"auto">>)})
    BY RegistryElements, RegistryPlain DEF RegistryActs
  <2> QED BY <1>2, <1>4, <2>1 DEF R!Pane
<1>5. CASE ui.mode = "fallback"
  <2>1. RegistryActs({}) /\ RegistryActs({R!NewTab(<<"escape">>)})
    BY RegistryElements DEF RegistryActs
  <2>2. RegistryActs(R!ViewerToolbar({}) \union {R!NewTab(<<"escape">>)})
    BY <1>2, <2>1 DEF RegistryActs
  <2> QED BY <1>5, <2>2 DEF R!Pane
<1>6. CASE ui.mode = "iframe"
  <2>1. RegistryActs({R!Button(<<"reload">>, R!NoAct)})
    BY RegistryElements, RegistryPlain DEF RegistryActs
  <2> QED BY <1>2, <1>6, <2>1 DEF R!Pane
<1> QED BY <1>1, <1>3, <1>4, <1>5, <1>6

LEMMA RegistryScreen == ASSUME RegistryInv PROVE RegistryActs(R!Screen)
<1> DEFINE header == R!Below(<<"header">>, R!Header)
           overview == R!Below(<<"overview">>, R!Overview)
           rail == R!Below(<<"rail">>, R!Rail)
           pane(s) == R!Below(<<"pane">>, R!Pane(s))
           settings == R!Below(<<"settings">>, R!Settings)
           agent == R!Below(<<"agent">>, R!AgentPanel)
           toast == R!Below(<<"toast">>, R!Toast)
<1>1. RegistryActs(header) /\ RegistryActs(overview) /\ RegistryActs(rail)
  BY RegistryHeader, RegistryLists, RegistryBelow
<1>2. \A s \in R!Opened(ui) : RegistryActs(pane(s))
  BY RegistryPane, RegistryBelow DEF R!Opened
<1>3. RegistryActs(settings)
  <2>1. RegistryActs(R!Settings)
    BY RegistryElements, RegistryPlain DEF R!Settings, R!When, RegistryActs
  <2> QED BY <2>1, RegistryBelow
<1>4. RegistryActs(agent) /\ RegistryActs(toast)
  <2>1. RegistryActs(R!AgentPanel) /\ RegistryActs(R!Toast)
    BY RegistryElements, RegistryPlain DEF R!AgentPanel, R!Toast, RegistryActs
  <2> QED BY <2>1, RegistryBelow
<1>5. R!Screen = header
        \union (IF R!Opened(ui) = {} THEN overview
                ELSE rail \union UNION {pane(s) : s \in R!Opened(ui)})
        \union R!When(ui.settings, settings) \union R!When(ui.agent, agent)
        \union R!When(ui.toast # R!NoToast, toast)
  BY Zenon DEF R!Screen
<1> HIDE DEF header, overview, rail, pane, settings, agent, toast
<1>6. /\ RegistryActs(R!When(ui.settings, settings)) /\ RegistryActs(R!When(ui.agent, agent))
      /\ RegistryActs(R!When(ui.toast # R!NoToast, toast))
  BY <1>3, <1>4 DEF R!When, RegistryActs
<1>7. RegistryActs(IF R!Opened(ui) = {} THEN overview
                ELSE rail \union UNION {pane(s) : s \in R!Opened(ui)})
  BY <1>1, <1>2 DEF RegistryActs
<1> QED BY <1>1, <1>5, <1>6, <1>7 DEF RegistryActs

LEMMA RegistryOffers ==
  ASSUME RegistryInv, NEW act, R!Offers(R!Screen, act)
  PROVE  RegistryAct(act)
  BY RegistryScreen DEF R!Offers, RegistryActs, RegistryElement

(* What every step of the page keeps, and does to its list.                *)
RegistryKeeps ==
  RegistryInv' /\ Moved(R!Names(ui.listed), ui.open, R!Names(ui'.listed), ui'.open)

(* A handler that leaves the list and the view alone.                      *)
LEMMA RegistryAside ==
  ASSUME RegistryInv, NEW new \in RegistryUI, R!Handled(new, FALSE),
         new.left = ui.left, new.ago = ui.ago, new.mode = ui.mode, new.auto = ui.auto,
         new.listed = ui.listed, new.open = ui.open
  PROVE  RegistryKeeps
<1>1. ~RegistryChanged(new)
  BY DEF RegistryChanged, R!Opened
<1>2. RegistryInv' /\ ui'.listed = new.listed /\ ui'.open = new.open
  BY <1>1, RegistryHandled
<1> QED BY <1>2 DEF Moved, RegistryKeeps

LEMMA RegistryTexts ==
  ASSUME RegistryInv, NEW t \in Text, R!Type(t) \/ R!TypeToken(t) \/ R!Draft(t) \/ R!Clear
  PROVE  RegistryKeeps
<1> USE DEF R!Does
<1>1. CASE R!Type(t)
  BY <1>1, RegistryAside DEF RegistryInv, RegistryUI, R!Type
<1>2. CASE R!TypeToken(t)
  BY <1>2, RegistryAside DEF RegistryInv, RegistryUI, R!TypeToken
<1>3. CASE R!Draft(t)
  BY <1>3, RegistryAside DEF RegistryInv, RegistryUI, R!Draft
<1>4. CASE R!Clear
  BY <1>4, NoText, RegistryAside DEF RegistryInv, RegistryUI, R!Clear
<1> QED BY <1>1, <1>2, <1>3, <1>4

LEMMA RegistryToggles ==
  ASSUME RegistryInv,
         \/ R!ShowSettings \/ R!CloseSettings \/ R!RemovePeer \/ R!Issue
         \/ R!ToggleAgent \/ R!CloseAgent \/ R!Send
  PROVE  RegistryKeeps
<1> USE DEF R!Does
<1>1. CASE R!ShowSettings
  BY <1>1, RegistryAside DEF RegistryInv, RegistryUI, R!ShowSettings
<1>2. CASE R!CloseSettings
  BY <1>2, RegistryAside DEF RegistryInv, RegistryUI, R!CloseSettings
<1>3. CASE R!RemovePeer
  BY <1>3, RegistryAside DEF RegistryInv, RegistryUI, R!RemovePeer, Said
<1>4. CASE R!Issue
  BY <1>4, RegistryAside DEF RegistryInv, RegistryUI, R!Issue
<1>5. CASE R!ToggleAgent
  BY <1>5, RegistryAside DEF RegistryInv, RegistryUI, R!ToggleAgent
<1>6. CASE R!CloseAgent
  BY <1>6, RegistryAside DEF RegistryInv, RegistryUI, R!CloseAgent
<1>7. CASE R!Send
  <2>1. ui.sent + 1 \in 0 .. MaxSent
    BY <1>7, Limits DEF R!Send, RegistryInv, RegistryUI
  <2> QED BY <1>7, <2>1, NoText, RegistryAside DEF RegistryInv, RegistryUI, R!Send, Said
<1> QED BY <1>1, <1>2, <1>3, <1>4, <1>5, <1>6, <1>7

LEMMA RegistryOpens ==
  ASSUME RegistryInv, NEW n, R!Open(n) \/ R!Back \/ R!CloseView
  PROVE  RegistryKeeps
<1> USE DEF R!Does
<1>1. CASE R!Open(n)
  <2>1. n \in R!Names(ui.listed)
    BY <1>1, RegistryOffers DEF R!Open, RegistryAct
  <2>2. R!Names(ui.listed) \subseteq R!Names(Service)
    BY DEF R!Names, RegistryInv, RegistryUI
  <2> DEFINE new == [ui EXCEPT !.open = n, !.mode = "detail"]
  <2>3. /\ new \in RegistryUI /\ new.left = ui.left /\ new.mode = "detail"
        /\ new.listed = ui.listed /\ new.open = n
    BY <2>1, <2>2 DEF RegistryInv, RegistryUI
  <2>4. R!Handled(new, FALSE)
    BY <1>1 DEF R!Open
  <2> HIDE DEF new
  <2>5. RegistryInv' /\ ui'.listed = ui.listed /\ ui'.open = n
    BY <2>3, <2>4, RegistryHandled DEF R!Counting
  <2> QED BY <2>1, <2>5 DEF RegistryKeeps, Moved
<1>2. CASE R!Back
  <2> DEFINE new == [ui EXCEPT !.open = None, !.mode = "detail"]
  <2>1. /\ new \in RegistryUI /\ new.left = ui.left /\ new.mode = "detail"
        /\ new.listed = ui.listed /\ new.open = None
    BY DEF RegistryInv, RegistryUI
  <2>2. R!Handled(new, FALSE)
    BY <1>2 DEF R!Back, R!None, None
  <2> HIDE DEF new
  <2>3. RegistryInv' /\ ui'.listed = ui.listed /\ ui'.open = None
    BY <2>1, <2>2, RegistryHandled DEF R!Counting
  <2> QED BY <2>3 DEF RegistryKeeps, Moved
<1>3. CASE R!CloseView
  <2> DEFINE new == [ui EXCEPT !.mode = "detail"]
  <2>1. /\ new \in RegistryUI /\ new.left = ui.left /\ new.mode = "detail"
        /\ new.listed = ui.listed /\ new.open = ui.open
    BY DEF RegistryInv, RegistryUI
  <2>2. R!Handled(new, FALSE)
    BY <1>3 DEF R!CloseView
  <2> HIDE DEF new
  <2>3. RegistryInv' /\ ui'.listed = ui.listed /\ ui'.open = ui.open
    BY <2>1, <2>2, RegistryHandled DEF R!Counting
  <2> QED BY <2>3 DEF RegistryKeeps, Moved
<1> QED BY <1>1, <1>2, <1>3

LEMMA RegistryRemovals ==
  ASSUME RegistryInv, NEW n \in R!Names(Service), R!Remove(n) \/ R!Deregister(n)
  PROVE  RegistryKeeps
<1> DEFINE gone == R!Removed(n)
           told == [gone EXCEPT !.toast = <<"Deregistered", n>>]
<1>1. n \in R!Names(ui.listed) /\ n \in Removable
  <2>1. PICK s \in ui.listed : s.name = n /\ (s.dynamic \/ s.attention > 0)
    BY RegistryOffers DEF R!Remove, R!Deregister, R!Does, RegistryAct
  <2>2. s \in Service
    BY <2>1 DEF RegistryInv, RegistryUI
  <2> QED BY <2>1, <2>2 DEF R!Names, Removable
<1>2. <<"Deregistered", n>> \in Said
  BY DEF R!Names, Said
<1>3. /\ gone \in RegistryUI /\ gone.left = ui.left /\ gone.ago = ui.ago
      /\ gone.listed = {s \in ui.listed : s.name # n} /\ gone.auto = ui.auto
      /\ gone.open = (IF ui.open = n THEN None ELSE ui.open)
      /\ gone.mode = (IF ui.open = n THEN "detail" ELSE ui.mode)
  BY DEF RegistryInv, RegistryUI, R!Removed, R!None, None
<1>4. /\ told \in RegistryUI /\ told.left = ui.left /\ told.ago = ui.ago
      /\ told.listed = gone.listed /\ told.auto = ui.auto
      /\ told.open = gone.open /\ told.mode = gone.mode
  BY <1>2, <1>3 DEF RegistryUI
<1>5. R!Handled(gone, FALSE) \/ R!Handled(told, FALSE)
  BY DEF R!Remove, R!Deregister, R!Does
<1> HIDE DEF gone, told
<1>6. PICK new \in {gone, told} : R!Handled(new, FALSE)
  BY <1>5
<1>7. /\ new \in RegistryUI /\ new.left = ui.left /\ new.ago = ui.ago
      /\ new.listed = {s \in ui.listed : s.name # n} /\ new.auto = ui.auto
      /\ new.open = (IF ui.open = n THEN None ELSE ui.open)
      /\ new.mode = (IF ui.open = n THEN "detail" ELSE ui.mode)
  BY <1>3, <1>4
<1>8. R!Counting(new) => ~RegistryChanged(new)
  <2>1. CASE ui.open = n
    BY <1>7, <2>1 DEF R!Counting
  <2>2. CASE ui.open # n
    <3>1. R!Opened(new) = R!Opened(ui)
      BY <1>7, <2>2 DEF R!Opened
    <3> QED BY <1>7, <2>2, <3>1 DEF RegistryChanged
  <2> QED BY <2>1, <2>2
<1>9. RegistryInv' /\ ui'.listed = new.listed /\ ui'.open = new.open
  BY <1>6, <1>7, <1>8, RegistryHandled
<1>10. R!Names(ui'.listed) = R!Names(ui.listed) \ {n}
  BY <1>7, <1>9 DEF R!Names
<1> QED BY <1>1, <1>7, <1>9, <1>10 DEF RegistryKeeps, Moved

LEMMA RegistryViews ==
  ASSUME RegistryInv, R!OpenHere \/ R!Refresh \/ R!ToggleAuto
  PROVE  RegistryKeeps
<1>1. CASE R!OpenHere
  <2>1. ui.mode = "detail"
    BY <1>1, RegistryOffers DEF R!OpenHere, RegistryAct
  <2>2. PICK s \in R!Opened(ui) :
          R!Handled([ui EXCEPT !.mode = CASE s.view = "json" -> "json"
                                     [] s.view # "json" /\ s.name = "grafana" -> "fallback"
                                     [] s.view # "json" /\ s.name # "grafana" -> "iframe"],
                    s.view = "json")
    BY <1>1 DEF R!OpenHere
  <2> DEFINE mode == CASE s.view = "json" -> "json"
                       [] s.view # "json" /\ s.name = "grafana" -> "fallback"
                       [] s.view # "json" /\ s.name # "grafana" -> "iframe"
             new == [ui EXCEPT !.mode = mode]
             read == s.view = "json"
  <2>3. mode \in {"json", "fallback", "iframe"} /\ (mode = "json" <=> read) /\ read \in BOOLEAN
    OBVIOUS
  <2>4. R!Handled(new, read)
    BY <2>2
  <2> HIDE DEF mode, read
  <2>5. /\ new \in RegistryUI /\ new.left = ui.left /\ new.ago = ui.ago /\ new.mode = mode
        /\ new.listed = ui.listed /\ new.open = ui.open
    BY <2>3 DEF RegistryInv, RegistryUI
  <2> HIDE DEF new
  <2>6. R!Counting(new) => read /\ RegistryChanged(new)
    BY <2>1, <2>3, <2>5 DEF R!Counting, RegistryChanged
  <2>7. RegistryInv' /\ ui'.listed = ui.listed /\ ui'.open = ui.open
    BY <2>3, <2>4, <2>5, <2>6, RegistryHandled
  <2> QED BY <2>7 DEF RegistryKeeps, Moved
<1>2. CASE R!Refresh
  <2> DEFINE new == [ui EXCEPT !.ago = 0]
  <2>1. /\ new \in RegistryUI /\ new.left = ui.left /\ new.ago = 0
        /\ new.listed = ui.listed /\ new.open = ui.open
    BY Limits DEF RegistryInv, RegistryUI
  <2>2. R!Handled(new, TRUE)
    BY <1>2 DEF R!Refresh
  <2> HIDE DEF new
  <2>3. RegistryInv' /\ ui'.listed = ui.listed /\ ui'.open = ui.open
    BY <2>1, <2>2, RegistryHandled
  <2> QED BY <2>3 DEF RegistryKeeps, Moved
<1>3. CASE R!ToggleAuto
  <2> DEFINE new == [ui EXCEPT !.auto = ~@]
  <2>1. /\ new \in RegistryUI /\ new.left = ui.left /\ new.ago = ui.ago /\ new.auto = ~ui.auto
        /\ new.listed = ui.listed /\ new.open = ui.open /\ ui.auto \in BOOLEAN
    BY DEF RegistryInv, RegistryUI
  <2>2. R!Handled(new, ~ui.auto)
    BY <1>3 DEF R!ToggleAuto
  <2> HIDE DEF new
  <2>3. R!Counting(new) => ~ui.auto /\ RegistryChanged(new)
    BY <2>1 DEF R!Counting, RegistryChanged
  <2>4. RegistryInv' /\ ui'.listed = ui.listed /\ ui'.open = ui.open
    BY <2>1, <2>2, <2>3, RegistryHandled
  <2> QED BY <2>4 DEF RegistryKeeps, Moved
<1> QED BY <1>1, <1>2, <1>3

LEMMA RegistryTimers == ASSUME RegistryInv, R!Tick \/ R!Second PROVE RegistryKeeps
<1>1. CASE R!Tick
  <2> DEFINE toast == IF ui.left = 1 THEN R!NoToast ELSE ui.toast
             left == ui.left - 1
  <2>1. ui' = [ui EXCEPT !.left = left, !.toast = toast]
    BY <1>1 DEF R!Tick
  <2>2. /\ ui.left \in 0 .. ToastTicks /\ ui.left > 0 /\ left \in 0 .. ToastTicks
        /\ ui.toast # <<>> /\ ui.left + seen = ToastTicks
        /\ seen' = seen + 1 /\ since' = since /\ seen \in 0 .. ToastTicks
    BY <1>1, Limits DEF R!Tick, RegistryInv, RegistryUI, ToastKept
  <2>3. toast \in {<<>>} \union Said /\ (toast = <<>> <=> left = 0)
    BY <2>2, Limits DEF RegistryInv, RegistryUI, R!NoToast
  <2> HIDE DEF toast, left
  <2>4. /\ ui' \in RegistryUI /\ ui'.left = left /\ ui'.toast = toast /\ ui'.ago = ui.ago
        /\ ui'.listed = ui.listed /\ ui'.open = ui.open /\ ui'.mode = ui.mode /\ ui'.auto = ui.auto
    BY <2>1, <2>2, <2>3 DEF RegistryInv, RegistryUI
  <2>5. seen' \in 0 .. ToastTicks /\ left + seen' = ToastTicks
    BY <2>2, Limits DEF left
  <2>6. ToastKept'
    BY <2>2, <2>3, <2>4, <2>5, Limits DEF ToastKept
  <2>7. R!Counting(ui)' => R!Counting(ui)
    BY <2>4 DEF R!Counting, R!Opened
  <2>8. RegistryInv'
    BY <2>2, <2>4, <2>5, <2>6, <2>7 DEF RegistryInv
  <2> QED BY <2>4, <2>8 DEF RegistryKeeps, Moved
<1>2. CASE R!Second
  <2> DEFINE ago == IF ui.auto THEN ui.ago + 1 ELSE ui.ago
  <2>1. /\ ui' = [ui EXCEPT !.ago = ago] /\ since' = since + 1 /\ seen' = seen
        /\ since < MaxAgo /\ since \in 0 .. MaxAgo /\ R!Opened(ui) # {} /\ ui.mode = "json"
    BY <1>2 DEF R!Second, RegistryInv
  <2>2. ui.auto \in BOOLEAN /\ ui.ago \in 0 .. MaxAgo /\ (ui.auto => ui.ago = since)
    BY <2>1 DEF RegistryInv, RegistryUI, R!Counting
  <2>3. ago \in 0 .. MaxAgo /\ since' \in 0 .. MaxAgo /\ (ui.auto => ago = since')
    BY <2>1, <2>2, Limits
  <2> HIDE DEF ago
  <2>4. /\ ui' \in RegistryUI /\ ui'.ago = ago /\ ui'.left = ui.left /\ ui'.toast = ui.toast
        /\ ui'.listed = ui.listed /\ ui'.open = ui.open /\ ui'.mode = ui.mode /\ ui'.auto = ui.auto
    BY <2>1, <2>3 DEF RegistryInv, RegistryUI
  <2>5. ToastKept'
    BY <2>1, <2>4 DEF ToastKept, RegistryInv
  <2>6. (R!Counting(ui) => ui.ago = since)'
    BY <2>3, <2>4 DEF R!Counting
  <2>7. RegistryInv'
    BY <2>1, <2>3, <2>4, <2>5, <2>6 DEF RegistryInv
  <2> QED BY <2>4, <2>7 DEF RegistryKeeps, Moved
<1> QED BY <1>1, <1>2

LEMMA RegistryNext == ASSUME RegistryInv, R!Next PROVE RegistryKeeps
<1>1. ASSUME NEW t \in Text, R!Type(t) \/ R!TypeToken(t) \/ R!Draft(t) PROVE RegistryKeeps
  BY <1>1, RegistryTexts
<1>2. CASE R!Clear
  BY <1>2, NoText, RegistryTexts
<1>3. ASSUME NEW n \in R!Names(Service), R!Open(n) \/ R!Remove(n) \/ R!Deregister(n)
      PROVE  RegistryKeeps
  BY <1>3, RegistryOpens, RegistryRemovals
<1>4. CASE R!Back \/ R!CloseView
  BY <1>4, RegistryOpens
<1>5. CASE R!OpenHere \/ R!Refresh \/ R!ToggleAuto
  BY <1>5, RegistryViews
<1>6. CASE R!ShowSettings \/ R!CloseSettings \/ R!RemovePeer \/ R!Issue
             \/ R!ToggleAgent \/ R!CloseAgent \/ R!Send
  BY <1>6, RegistryToggles
<1>7. CASE R!Tick \/ R!Second
  BY <1>7, RegistryTimers
<1> QED BY <1>1, <1>2, <1>3, <1>4, <1>5, <1>6, <1>7 DEF R!Next

-----------------------------------------------------------------------------
(* The directory's page.                                                   *)

DirectoryUI ==
  [listed : SUBSET Service, filter : Text, collapsed : BOOLEAN,
   selected : D!Names(Service) \union {None},
   mode : {"welcome", "detail", "json", "fallback", "iframe"}, settings : BOOLEAN,
   token : Text, code : BOOLEAN, register : BOOLEAN, ago : 0 .. MaxAgo, auto : BOOLEAN]

DirectoryInv ==
  /\ ui \in DirectoryUI /\ since \in 0 .. MaxAgo
  /\ ui.mode = "json" => ui.ago = since

(* The service the page has open, if it is still there.                    *)
DirectoryOpen(u) == IF D!Shown(u) = {} THEN None ELSE u.selected

(* What a step leaves of what is listed and looked at.                     *)
DirectorySame(u, v) == u.listed = v.listed /\ u.selected = v.selected /\ u.mode = v.mode

LEMMA DirectoryLooks ==
  ASSUME NEW u, NEW v, DirectorySame(u, v)
  PROVE  D!Shown(u) = D!Shown(v) /\ DirectoryOpen(u) = DirectoryOpen(v)
  BY DEF DirectorySame, DirectoryOpen, D!Shown

DirectoryPut(new, register, token, code) ==
  [new EXCEPT !.register = register, !.token = token, !.code = code]

LEMMA DirectoryPutFields ==
  ASSUME NEW new \in DirectoryUI, NEW register \in BOOLEAN, NEW token \in Text, NEW code \in BOOLEAN
  PROVE  LET put == DirectoryPut(new, register, token, code)
         IN put \in DirectoryUI /\ DirectorySame(put, new) /\ put.ago = new.ago
  BY DEF DirectoryUI, DirectoryPut, DirectorySame

LEMMA DirectoryUnmounted ==
  ASSUME NEW new \in DirectoryUI
  PROVE  LET put == D!Unmounted(new)
         IN put \in DirectoryUI /\ DirectorySame(put, new) /\ put.ago = new.ago
<1> DEFINE register == D!Shown(new) = {} /\ new.register
           token == IF new.settings THEN new.token ELSE ""
           code == new.settings /\ new.code
           put == DirectoryPut(new, register, token, code)
<1>1. register \in BOOLEAN /\ token \in Text /\ code \in BOOLEAN
  BY NoText DEF DirectoryUI
<1>2. D!Unmounted(new) = put
  BY Zenon DEF D!Unmounted, DirectoryPut
<1>3. put \in DirectoryUI /\ DirectorySame(put, new) /\ put.ago = new.ago
  <2> HIDE DEF register, token, code
  <2> QED BY ONLY <1>1, DirectoryPutFields
<1> HIDE DEF put
<1> QED BY <1>2, <1>3

LEMMA DirectoryHandled ==
  ASSUME DirectoryInv, NEW new \in DirectoryUI, D!Handled(new), new.ago = ui.ago
  PROVE  DirectoryInv' /\ DirectorySame(ui', new)
<1> DEFINE changed == <<new.mode, D!Shown(new)>> # <<ui.mode, D!Shown(ui)>>
           counted == D!CounterEffect(new)
<1>1. /\ counted \in DirectoryUI /\ DirectorySame(counted, new)
      /\ counted.ago = IF new.mode = "json" /\ changed THEN 0 ELSE new.ago
  BY Limits DEF D!CounterEffect, DirectoryUI, DirectorySame
<1>2. ui' = D!Unmounted(counted)
  BY DEF D!Handled
<1>3. ui' \in DirectoryUI /\ DirectorySame(ui', new) /\ ui'.ago = counted.ago
  BY <1>1, <1>2, DirectoryUnmounted DEF DirectorySame
<1>4. since' = IF new.mode = "json" /\ changed THEN 0 ELSE since
  BY DEF D!Handled
<1>5. since' \in 0 .. MaxAgo
  BY <1>4, Limits DEF DirectoryInv
<1>6. ASSUME ui'.mode = "json" PROVE ui'.ago = since'
  <2>1. new.mode = "json"
    BY <1>3, <1>6 DEF DirectorySame
  <2>2. CASE changed
    BY <1>1, <1>3, <1>4, <2>1, <2>2
  <2>3. CASE ~changed
    <3>1. ui.ago = since
      BY <2>1, <2>3 DEF DirectoryInv
    <3> QED BY <1>1, <1>3, <1>4, <2>1, <2>3, <3>1
  <2> QED BY <2>2, <2>3
<1>7. DirectoryInv'
  BY <1>3, <1>5, <1>6 DEF DirectoryInv
<1> QED BY <1>3, <1>7

(* What the page lets its user do: open and remove what is listed, and ask *)
(* for a view of the service whose details are shown.                      *)
DirectoryAct(act) ==
  /\ \A n : act = <<"open", n>> => n \in D!Names(ui.listed)
  /\ \A n : act = <<"remove", n>> => \E s \in ui.listed : s.name = n /\ s.dynamic
  /\ \A n : act = <<"open here", n>> => ui.mode = "detail"
DirectoryElement(e) == "does" \in DOMAIN e /\ DirectoryAct(e.does)
DirectoryActs(part) == \A e \in part : DirectoryElement(e)

LEMMA DirectoryPlain ==
  /\ DirectoryAct(D!NoAct) /\ DirectoryAct(<<"close">>) /\ DirectoryAct(<<"collapse">>)
  /\ DirectoryAct(<<"expand">>) /\ DirectoryAct(<<"refresh">>) /\ DirectoryAct(<<"auto">>)
  /\ DirectoryAct(<<"register">>) /\ DirectoryAct(<<"issue">>) /\ DirectoryAct(<<"new tab">>)
  /\ \A x : DirectoryAct(<<"type", x>>) /\ DirectoryAct(<<"show", x>>) /\ DirectoryAct(<<"close", x>>)
  BY DEF DirectoryAct, D!NoAct

LEMMA DirectoryOffersOpen ==
  ASSUME NEW s \in ui.listed
  PROVE  /\ DirectoryAct(<<"open", s.name>>)
         /\ s.dynamic => DirectoryAct(<<"remove", s.name>>)
         /\ ui.mode = "detail" => DirectoryAct(<<"open here", s.name>>)
  BY DEF DirectoryAct, D!Names

LEMMA DirectoryElements ==
  ASSUME NEW at, NEW kind, NEW act, NEW look
  PROVE  /\ DirectoryAct(act) => /\ DirectoryElement(D!Element(at, kind, act, look))
                                 /\ DirectoryElement(D!Button(at, act))
                                 /\ DirectoryElement(D!Area(at, act, look))
                                 /\ DirectoryElement(D!Input(at, act))
                                 /\ DirectoryElement(D!Stopping(D!Button(at, act)))
                                 /\ DirectoryElement(D!Stopping(D!Area(at, act, look)))
         /\ DirectoryElement(D!Mark(at, look))
         /\ DirectoryElement(D!NewTab(at))
  BY DirectoryPlain DEF DirectoryElement, D!Element, D!Button, D!Area, D!Input, D!Mark, D!NewTab, D!Stopping

LEMMA DirectoryBelow ==
  ASSUME NEW at, NEW part, DirectoryActs(part)
  PROVE  DirectoryActs(D!Below(at, part))
  BY DEF DirectoryActs, DirectoryElement, D!Below

LEMMA DirectorySidebar == DirectoryActs(D!Sidebar)
<1> DEFINE row(s) == D!Below(<<s.name>>, D!ServiceRow(s))
           of(n) == {s \in D!Visible : s.origin = n}
           group(n) == D!Below(<<"node", n>>, D!NodeGroup(of(n)))
           bar == {D!Input(<<"filter">>, <<"type", "filter">>), D!Button(<<"collapse">>, <<"collapse">>)}
           empty == D!When(D!Visible = {}, {D!Mark(<<"empty">>, "No services match this filter.")})
<1>1. \A s \in ui.listed : DirectoryActs(row(s))
  <2>1. \A s \in ui.listed : DirectoryActs(D!ServiceRow(s))
    BY DirectoryElements, DirectoryOffersOpen
    DEF D!ServiceRow, D!HealthPill, D!When, DirectoryActs
  <2> QED BY <2>1, DirectoryBelow
<1>2. \A rows \in SUBSET ui.listed : DirectoryActs(D!NodeGroup(rows))
  <2> TAKE rows \in SUBSET ui.listed
  <2> DEFINE mark == {D!Mark(<<"reachable">>, "reachable")}
  <2>1. DirectoryActs(mark)
    BY DirectoryElements DEF DirectoryActs
  <2>2. D!NodeGroup(rows) = D!When(rows # {}, mark \union UNION {row(s) : s \in rows})
    BY Zenon DEF D!NodeGroup
  <2> HIDE DEF mark, row
  <2> QED BY <1>1, <2>1, <2>2 DEF D!When, DirectoryActs
<1>3. \A n : DirectoryActs(group(n))
  BY <1>2, DirectoryBelow DEF D!Visible
<1>4. DirectoryActs(bar) /\ DirectoryActs(empty)
  BY DirectoryElements, DirectoryPlain DEF DirectoryActs, D!When
<1>5. D!Sidebar = bar \union empty \union UNION {group(n) : n \in Node}
  BY Zenon DEF D!Sidebar
<1> HIDE DEF bar, empty, group
<1> QED BY <1>3, <1>4, <1>5 DEF DirectoryActs

LEMMA DirectoryViewer ==
  ASSUME DirectoryInv, NEW s \in D!Shown(ui)
  PROVE  DirectoryActs(D!Viewer(s))
<1>1. ui.mode \in {"detail", "json", "fallback", "iframe"} /\ s \in ui.listed
  BY DEF DirectoryInv, DirectoryUI, D!Shown
<1>2. \A actions : DirectoryActs(actions) => DirectoryActs(D!ViewerHeader(actions))
  BY DirectoryElements, DirectoryPlain DEF D!ViewerHeader, DirectoryActs
<1>3. CASE ui.mode = "detail"
  <2>1. DirectoryActs(D!ServiceDetail(s))
    BY <1>1, <1>3, DirectoryElements, DirectoryOffersOpen
    DEF D!ServiceDetail, D!HealthPill, D!When, DirectoryActs
  <2> QED BY <1>3, <2>1 DEF D!Viewer
<1>4. CASE ui.mode = "json"
  <2>1. DirectoryActs({D!Button(<<"refresh">>, <<"refresh">>), D!Button(<<"auto">>, <<"auto">>)})
    BY DirectoryElements, DirectoryPlain DEF DirectoryActs
  <2> QED BY <1>2, <1>4, <2>1 DEF D!Viewer
<1>5. CASE ui.mode = "fallback"
  <2>1. DirectoryActs({}) /\ DirectoryActs({D!NewTab(<<"escape">>)})
    BY DirectoryElements DEF DirectoryActs
  <2>2. DirectoryActs(D!ViewerHeader({}) \union {D!NewTab(<<"escape">>)})
    BY <1>2, <2>1 DEF DirectoryActs
  <2> QED BY <1>5, <2>2 DEF D!Viewer
<1>6. CASE ui.mode = "iframe"
  <2>1. DirectoryActs({D!Button(<<"reload">>, D!NoAct)})
    BY DirectoryElements, DirectoryPlain DEF DirectoryActs
  <2> QED BY <1>2, <1>6, <2>1 DEF D!Viewer
<1> QED BY <1>1, <1>3, <1>4, <1>5, <1>6

LEMMA DirectoryScreen == ASSUME DirectoryInv PROVE DirectoryActs(D!Screen)
<1> DEFINE header == {D!Button(<<"header", "settings">>, <<"show", "settings">>)}
           sidebar == D!Below(<<"sidebar">>, D!Sidebar)
           expand == D!When(ui.collapsed, {D!Button(<<"expand">>, <<"expand">>)})
           view == IF D!Shown(ui) = {} THEN D!ViewerWelcome \union D!RegisterPanel
                   ELSE UNION {D!Viewer(s) : s \in D!Shown(ui)}
           viewer == D!Below(<<"viewer">>, view)
           settings == D!When(ui.settings, D!Below(<<"settings">>, D!SettingsOverlay))
<1>1. DirectoryActs(header) /\ DirectoryActs(expand)
  BY DirectoryElements, DirectoryPlain DEF DirectoryActs, D!When
<1>2. DirectoryActs(sidebar)
  BY DirectorySidebar, DirectoryBelow
<1>3. DirectoryActs(viewer)
  <2>1. DirectoryActs(D!ViewerWelcome) /\ DirectoryActs(D!RegisterPanel)
    BY DirectoryElements, DirectoryPlain DEF D!ViewerWelcome, D!RegisterPanel, D!When, DirectoryActs
  <2>2. DirectoryActs(view)
    BY <2>1, DirectoryViewer DEF DirectoryActs
  <2> QED BY <2>2, DirectoryBelow
<1>4. DirectoryActs(settings)
  <2>1. DirectoryActs(D!SettingsOverlay)
    BY DirectoryElements, DirectoryPlain DEF D!SettingsOverlay, D!When, DirectoryActs
  <2>2. DirectoryActs(D!Below(<<"settings">>, D!SettingsOverlay))
    BY <2>1, DirectoryBelow
  <2> QED BY <2>2 DEF D!When, DirectoryActs
<1>5. D!Screen = header \union sidebar \union expand \union viewer \union settings
  BY Zenon DEF D!Screen
<1> HIDE DEF header, sidebar, expand, viewer, settings
<1> QED BY <1>1, <1>2, <1>3, <1>4, <1>5 DEF DirectoryActs

LEMMA DirectoryOffers ==
  ASSUME DirectoryInv, NEW act, D!Offers(D!Screen, act)
  PROVE  DirectoryAct(act)
  BY DirectoryScreen DEF D!Offers, DirectoryActs, DirectoryElement

(* What every step of the page keeps, and does to its list.                *)
DirectoryKeeps ==
  DirectoryInv' /\ Moved(D!Names(ui.listed), DirectoryOpen(ui), D!Names(ui'.listed), DirectoryOpen(ui'))

(* A handler that leaves the list and the view alone.                      *)
LEMMA DirectoryAside ==
  ASSUME DirectoryInv, NEW new \in DirectoryUI, D!Handled(new), new.ago = ui.ago,
         new.listed = ui.listed, new.selected = ui.selected, new.mode = ui.mode
  PROVE  DirectoryKeeps
<1>1. DirectoryInv' /\ DirectorySame(ui', ui)
  BY DirectoryHandled DEF DirectorySame
<1>2. DirectoryOpen(ui') = DirectoryOpen(ui) /\ ui'.listed = ui.listed
  BY <1>1, DirectoryLooks DEF DirectorySame
<1> QED BY <1>1, <1>2 DEF DirectoryKeeps, Moved

LEMMA DirectoryForms ==
  ASSUME DirectoryInv, NEW t \in Text,
         \/ D!Type(t) \/ D!TypeToken(t) \/ D!ToggleAuto \/ D!Collapse \/ D!Expand \/ D!Register
         \/ D!ShowSettings \/ D!CloseSettings \/ D!Issue
  PROVE  DirectoryKeeps
<1> USE DEF D!Does
<1>1. CASE D!Type(t)
  BY <1>1, DirectoryAside DEF DirectoryInv, DirectoryUI, D!Type
<1>2. CASE D!TypeToken(t)
  BY <1>2, DirectoryAside DEF DirectoryInv, DirectoryUI, D!TypeToken
<1>3. CASE D!ToggleAuto
  BY <1>3, DirectoryAside DEF DirectoryInv, DirectoryUI, D!ToggleAuto
<1>4. CASE D!Collapse
  BY <1>4, DirectoryAside DEF DirectoryInv, DirectoryUI, D!Collapse
<1>5. CASE D!Expand
  BY <1>5, DirectoryAside DEF DirectoryInv, DirectoryUI, D!Expand
<1>6. CASE D!Register
  BY <1>6, DirectoryAside DEF DirectoryInv, DirectoryUI, D!Register
<1>7. CASE D!ShowSettings
  BY <1>7, DirectoryAside DEF DirectoryInv, DirectoryUI, D!ShowSettings
<1>8. CASE D!CloseSettings
  BY <1>8, DirectoryAside DEF DirectoryInv, DirectoryUI, D!CloseSettings
<1>9. CASE D!Issue
  BY <1>9, DirectoryAside DEF DirectoryInv, DirectoryUI, D!Issue
<1> QED BY <1>1, <1>2, <1>3, <1>4, <1>5, <1>6, <1>7, <1>8, <1>9

LEMMA DirectoryOpens ==
  ASSUME DirectoryInv, NEW n, D!Open(n) \/ D!Close
  PROVE  DirectoryKeeps
<1>1. CASE D!Open(n)
  <2>1. n \in D!Names(ui.listed)
    BY <1>1, DirectoryOffers DEF D!Open, D!Does, DirectoryAct
  <2>2. n \in D!Names(Service)
    BY <2>1 DEF D!Names, DirectoryInv, DirectoryUI
  <2> DEFINE new == [ui EXCEPT !.selected = n, !.mode = "detail"]
  <2>3. /\ new \in DirectoryUI /\ new.ago = ui.ago
        /\ new.listed = ui.listed /\ new.selected = n /\ new.mode = "detail"
    BY <2>2 DEF DirectoryInv, DirectoryUI
  <2>4. D!Handled(new)
    BY <1>1 DEF D!Open, D!Does
  <2> HIDE DEF new
  <2>5. DirectoryInv' /\ DirectorySame(ui', new)
    BY <2>3, <2>4, DirectoryHandled
  <2>6. DirectoryOpen(new) = n
    BY <2>1, <2>3 DEF DirectoryOpen, D!Shown, D!Names
  <2>7. DirectoryOpen(ui') = n /\ ui'.listed = ui.listed
    BY <2>3, <2>5, <2>6, DirectoryLooks DEF DirectorySame
  <2> QED BY <2>1, <2>5, <2>7 DEF DirectoryKeeps, Moved
<1>2. CASE D!Close
  <2> DEFINE new == [ui EXCEPT !.mode = "welcome", !.selected = None]
  <2>1. new \in DirectoryUI /\ new.ago = ui.ago /\ new.listed = ui.listed /\ new.mode = "welcome"
    BY DEF DirectoryInv, DirectoryUI
  <2>2. D!Handled(new)
    BY <1>2 DEF D!Close, D!Does, D!None, None
  <2> HIDE DEF new
  <2>3. DirectoryInv' /\ DirectorySame(ui', new)
    BY <2>1, <2>2, DirectoryHandled
  <2>4. DirectoryOpen(ui') = None /\ ui'.listed = ui.listed
    BY <2>1, <2>3 DEF DirectorySame, DirectoryOpen, D!Shown
  <2> QED BY <2>3, <2>4 DEF DirectoryKeeps, Moved
<1> QED BY <1>1, <1>2

LEMMA DirectoryRemovals ==
  ASSUME DirectoryInv, NEW n, D!Remove(n)
  PROVE  DirectoryKeeps
<1>1. n \in D!Names(ui.listed) /\ n \in Removable
  <2>1. PICK s \in ui.listed : s.name = n /\ s.dynamic
    BY DirectoryOffers DEF D!Remove, D!Does, DirectoryAct
  <2>2. s \in Service
    BY <2>1 DEF DirectoryInv, DirectoryUI
  <2> QED BY <2>1, <2>2 DEF D!Names, Removable
<1> DEFINE new == [ui EXCEPT !.listed = {s \in @ : s.name # n}]
<1>2. /\ new \in DirectoryUI /\ new.ago = ui.ago /\ new.selected = ui.selected /\ new.mode = ui.mode
      /\ new.listed = {s \in ui.listed : s.name # n}
  BY DEF DirectoryInv, DirectoryUI
<1>3. D!Handled(new)
  BY DEF D!Remove, D!Does
<1> HIDE DEF new
<1>4. DirectoryInv' /\ DirectorySame(ui', new)
  BY <1>2, <1>3, DirectoryHandled
<1>5. DirectoryOpen(new) = IF DirectoryOpen(ui) = n THEN None ELSE DirectoryOpen(ui)
  <2>1. CASE ui.selected = n
    <3>1. D!Shown(new) = {}
      BY <1>2, <2>1 DEF D!Shown
    <3> QED BY <2>1, <3>1 DEF DirectoryOpen
  <2>2. CASE ui.selected # n
    <3>1. D!Shown(new) = D!Shown(ui)
      BY <1>2, <2>2 DEF D!Shown
    <3>2. DirectoryOpen(new) = DirectoryOpen(ui)
      BY <1>2, <3>1 DEF DirectoryOpen
    <3>3. DirectoryOpen(ui) = n => DirectoryOpen(ui) = None
      BY <2>2 DEF DirectoryOpen
    <3> QED BY <3>2, <3>3
  <2> QED BY <2>1, <2>2
<1>6. /\ DirectoryOpen(ui') = IF DirectoryOpen(ui) = n THEN None ELSE DirectoryOpen(ui)
      /\ D!Names(ui'.listed) = D!Names(ui.listed) \ {n}
  BY <1>2, <1>4, <1>5, DirectoryLooks DEF DirectorySame, D!Names
<1> QED BY <1>1, <1>4, <1>6 DEF DirectoryKeeps, Moved

LEMMA DirectoryViews ==
  ASSUME DirectoryInv, NEW s, D!OpenHere(s) \/ D!Refresh \/ D!Second
  PROVE  DirectoryKeeps
<1>1. CASE D!OpenHere(s)
  <2>1. ui.mode = "detail"
    BY <1>1, DirectoryOffers DEF D!OpenHere, D!Does, DirectoryAct
  <2> DEFINE mode == CASE s.view = "json" -> "json"
                       [] s.view # "json" /\ s.name = "grafana" -> "fallback"
                       [] s.view # "json" /\ s.name # "grafana" -> "iframe"
             new == [ui EXCEPT !.mode = mode]
  <2>2. mode \in {"json", "fallback", "iframe"}
    OBVIOUS
  <2>3. D!Handled(new)
    BY <1>1 DEF D!OpenHere, D!Does
  <2> HIDE DEF mode
  <2>4. /\ new \in DirectoryUI /\ new.ago = ui.ago /\ new.mode = mode
        /\ new.listed = ui.listed /\ new.selected = ui.selected
    BY <2>2 DEF DirectoryInv, DirectoryUI
  <2> HIDE DEF new
  <2>5. DirectoryInv' /\ DirectorySame(ui', new)
    BY <2>3, <2>4, DirectoryHandled
  <2>6. D!Shown(ui') = D!Shown(ui)
    BY <2>1, <2>2, <2>4, <2>5 DEF DirectorySame, D!Shown
  <2>7. DirectoryOpen(ui') = DirectoryOpen(ui) /\ ui'.listed = ui.listed
    BY <2>4, <2>5, <2>6 DEF DirectorySame, DirectoryOpen
  <2> QED BY <2>5, <2>7 DEF DirectoryKeeps, Moved
<1>2. CASE D!Refresh \/ D!Second
  <2>1. PICK ago : ui' = [ui EXCEPT !.ago = ago] /\ ago \in 0 .. MaxAgo /\ since' \in 0 .. MaxAgo
                   /\ (ui.mode = "json" => ago = since')
    <3>1. CASE D!Refresh
      BY <3>1, Limits DEF D!Refresh
    <3>2. CASE D!Second
      <4>1. /\ ui' = [ui EXCEPT !.ago = ui.ago + 1] /\ since' = since + 1 /\ since < MaxAgo
            /\ ui.ago = since /\ since \in 0 .. MaxAgo
        BY <3>2 DEF D!Second, DirectoryInv
      <4>2. ui.ago + 1 \in 0 .. MaxAgo /\ since' = ui.ago + 1
        BY <4>1, Limits
      <4> QED BY <4>1, <4>2
    <3> QED BY <1>2, <3>1, <3>2
  <2>2. ui' \in DirectoryUI /\ DirectorySame(ui', ui) /\ ui'.ago = ago
    BY <2>1 DEF DirectoryInv, DirectoryUI, DirectorySame
  <2>3. DirectoryInv'
    BY <2>1, <2>2 DEF DirectoryInv, DirectorySame
  <2>4. DirectoryOpen(ui') = DirectoryOpen(ui) /\ ui'.listed = ui.listed
    BY <2>2, DirectoryLooks DEF DirectorySame
  <2> QED BY <2>3, <2>4 DEF DirectoryKeeps, Moved
<1> QED BY <1>1, <1>2

LEMMA DirectoryNext == ASSUME DirectoryInv, D!Next PROVE DirectoryKeeps
<1>1. ASSUME NEW t \in Text, D!Type(t) \/ D!TypeToken(t) PROVE DirectoryKeeps
  BY <1>1, DirectoryForms
<1>2. CASE \/ D!ToggleAuto \/ D!Collapse \/ D!Expand \/ D!Register
           \/ D!ShowSettings \/ D!CloseSettings \/ D!Issue
  BY <1>2, NoText, DirectoryForms
<1>3. ASSUME NEW n \in D!Names(Service), D!Open(n) \/ D!Remove(n) PROVE DirectoryKeeps
  BY <1>3, DirectoryOpens, DirectoryRemovals
<1>4. CASE D!Close
  BY <1>4, DirectoryOpens
<1>5. ASSUME NEW s \in Service, D!OpenHere(s) PROVE DirectoryKeeps
  BY <1>5, DirectoryViews
<1>6. CASE D!Refresh \/ D!Second
  BY <1>6, DirectoryViews
<1> QED BY <1>1, <1>2, <1>3, <1>4, <1>5, <1>6 DEF D!Next

-----------------------------------------------------------------------------
(* The application shell.                                                  *)

Themes == (Kept \ {""}) \union {"Dark", "Light", "Auto"}

AmplifierUI ==
  [filter : Text, sort : 0 .. 3, open : A!Names \union {None},
   tab : {"output", "blocks", "config"}, resolved : SUBSET A!Names, agent : BOOLEAN,
   draft : Text, sent : 0 .. MaxSent, toast : {<<>>} \union Said, left : 0 .. ToastTicks,
   theme : Themes]

AmplifierInv ==
  /\ ui \in AmplifierUI /\ seen \in 0 .. ToastTicks
  /\ ToastKept
  /\ applied = ui.theme /\ stored = ui.theme

AmplifierKeeps == AmplifierInv' /\ Moved(A!Names, ui.open, A!Names, ui'.open)

LEMMA AmplifierUnmounted ==
  ASSUME NEW new \in AmplifierUI
  PROVE  LET put == A!Unmounted(new)
         IN /\ put \in AmplifierUI /\ put.toast = new.toast /\ put.left = new.left
            /\ put.theme = new.theme /\ put.open = new.open
<1> DEFINE tab == IF A!Opened(new) = {} THEN "output" ELSE new.tab
           draft == IF new.agent THEN new.draft ELSE ""
           sent == IF new.agent THEN new.sent ELSE 0
<1>1. tab \in {"output", "blocks", "config"} /\ draft \in Text /\ sent \in 0 .. MaxSent
  BY Limits, NoText DEF AmplifierUI
<1>2. A!Unmounted(new) = [new EXCEPT !.tab = tab, !.draft = draft, !.sent = sent]
  BY DEF A!Unmounted
<1> HIDE DEF tab, draft, sent
<1> QED BY <1>1, <1>2 DEF AmplifierUI

LEMMA AmplifierHandled ==
  ASSUME AmplifierInv, NEW new \in AmplifierUI, A!Handled(new), new.left = ui.left,
         new.open \in A!Names \union {ui.open, None}
  PROVE  AmplifierKeeps
<1> DEFINE told == A!ToastEffect(new)
<1>1. /\ told \in AmplifierUI /\ told.toast = new.toast /\ told.theme = new.theme /\ told.open = new.open
      /\ told.left = IF new.toast = ui.toast THEN new.left ELSE IF new.toast = <<>> THEN 0 ELSE ToastTicks
  BY Limits DEF A!ToastEffect, A!NoToast, AmplifierUI
<1>2. ui' = A!Unmounted(told)
  BY DEF A!Handled
<1> HIDE DEF told
<1>3. /\ ui' \in AmplifierUI /\ ui'.toast = told.toast /\ ui'.left = told.left
      /\ ui'.theme = told.theme /\ ui'.open = told.open
  BY <1>1, <1>2, AmplifierUnmounted
<1>4. seen' = IF new.toast = ui.toast THEN seen ELSE 0
  BY DEF A!Handled
<1>5. seen' \in 0 .. ToastTicks /\ ToastKept'
  BY <1>1, <1>3, <1>4, Limits DEF AmplifierInv, ToastKept
<1>6. applied' = new.theme /\ stored' = new.theme
  BY DEF A!Handled, A!ThemeEffect, AmplifierInv
<1>7. AmplifierInv'
  BY <1>1, <1>3, <1>5, <1>6 DEF AmplifierInv
<1> QED BY <1>1, <1>3, <1>7 DEF AmplifierKeeps, Moved

LEMMA AmplifierForms ==
  ASSUME AmplifierInv, NEW t \in Text, A!Type(t) \/ A!Draft(t) \/ A!Clear \/ A!Send
  PROVE  AmplifierKeeps
<1> USE DEF A!Does
<1>1. CASE A!Type(t)
  BY <1>1, AmplifierHandled DEF AmplifierInv, AmplifierUI, A!Type
<1>2. CASE A!Draft(t)
  BY <1>2, AmplifierHandled DEF AmplifierInv, AmplifierUI, A!Draft
<1>3. CASE A!Clear
  BY <1>3, NoText, AmplifierHandled DEF AmplifierInv, AmplifierUI, A!Clear
<1>4. CASE A!Send
  <2>1. ui.sent + 1 \in 0 .. MaxSent
    BY <1>4, Limits DEF A!Send, AmplifierInv, AmplifierUI
  <2> QED BY <1>4, <2>1, NoText, AmplifierHandled DEF AmplifierInv, AmplifierUI, A!Send, Said
<1> QED BY <1>1, <1>2, <1>3, <1>4

LEMMA AmplifierItems ==
  ASSUME AmplifierInv,
         \/ \E n \in A!Names : A!Open(n) \/ A!Promote(n)
         \/ \E t \in {"output", "blocks", "config"} : A!Tab(t)
         \/ A!Back
  PROVE  AmplifierKeeps
<1> USE DEF A!Does
<1>1. ASSUME NEW n \in A!Names, A!Open(n) PROVE AmplifierKeeps
  BY <1>1, AmplifierHandled DEF AmplifierInv, AmplifierUI, A!Open
<1>2. CASE A!Back
  BY <1>2, AmplifierHandled DEF AmplifierInv, AmplifierUI, A!Back, A!None, None
<1>3. ASSUME NEW n \in A!Names, A!Promote(n) PROVE AmplifierKeeps
  <2>1. <<"Promoted", n>> \in Said
    BY DEF Said, A!Names
  <2> QED BY <1>3, <2>1, AmplifierHandled DEF AmplifierInv, AmplifierUI, A!Promote
<1>4. ASSUME NEW t \in {"output", "blocks", "config"}, A!Tab(t) PROVE AmplifierKeeps
  BY <1>4, AmplifierHandled DEF AmplifierInv, AmplifierUI, A!Tab
<1> QED BY <1>1, <1>2, <1>3, <1>4

(* The theme that comes next is one of THEMES.                             *)
LEMMA NextThemeIsOne == \A t : A!NextTheme(t) \in Themes
<1> TAKE t
<1>1. DOMAIN A!THEMES = 1 .. 3 /\ Len(A!THEMES) = 3
      /\ \A i \in 1 .. 3 : A!THEMES[i] \in {"Dark", "Light", "Auto"}
  BY DEF A!THEMES
<1>2. CASE \E i \in DOMAIN A!THEMES : A!THEMES[i] = t
  <2> DEFINE i == CHOOSE j \in DOMAIN A!THEMES : A!THEMES[j] = t
  <2>1. i \in 1 .. 3
    BY <1>1, <1>2
  <2>2. A!NextTheme(t) = A!THEMES[(i % 3) + 1]
    BY <1>1, <1>2 DEF A!NextTheme
  <2> HIDE DEF i
  <2>3. (i % 3) + 1 \in 1 .. 3
    BY <2>1
  <2> QED BY <1>1, <2>2, <2>3 DEF Themes
<1>3. CASE ~\E i \in DOMAIN A!THEMES : A!THEMES[i] = t
  <2>1. A!NextTheme(t) = A!THEMES[1]
    BY Zenon, <1>3 DEF A!NextTheme
  <2>2. A!THEMES[1] = "Dark"
    BY DEF A!THEMES
  <2> QED BY <2>1, <2>2 DEF Themes
<1> QED BY <1>2, <1>3

LEMMA AmplifierCycles ==
  ASSUME AmplifierInv, A!CycleSort \/ A!CycleTheme \/ A!ToggleAgent \/ A!CloseAgent
  PROVE  AmplifierKeeps
<1> USE DEF A!Does
<1>1. CASE A!CycleSort
  <2>1. (ui.sort + 1) % Len(A!SORTS) \in 0 .. 3
    BY DEF AmplifierInv, AmplifierUI, A!SORTS
  <2> QED BY <1>1, <2>1, AmplifierHandled DEF AmplifierInv, AmplifierUI, A!CycleSort
<1>2. CASE A!CycleTheme
  BY <1>2, NextThemeIsOne, AmplifierHandled DEF AmplifierInv, AmplifierUI, A!CycleTheme
<1>3. CASE A!ToggleAgent
  BY <1>3, AmplifierHandled DEF AmplifierInv, AmplifierUI, A!ToggleAgent
<1>4. CASE A!CloseAgent
  BY <1>4, AmplifierHandled DEF AmplifierInv, AmplifierUI, A!CloseAgent
<1> QED BY <1>1, <1>2, <1>3, <1>4

LEMMA AmplifierFresh ==
  ASSUME NEW new, NEW theme \in Themes, NEW toast \in {<<>>} \union Said,
         NEW none \in A!Names \union {None}, NEW text \in Text,
         new = [filter |-> text, sort |-> 0, open |-> none, tab |-> "output", resolved |-> {},
                agent |-> FALSE, draft |-> text, sent |-> 0, toast |-> toast, left |-> 0,
                theme |-> theme]
  PROVE  new \in AmplifierUI /\ new.toast = toast /\ new.left = 0 /\ new.open = none
<1>1. new.toast = toast /\ new.left = 0 /\ new.open = none
  OBVIOUS
<1>2. new \in AmplifierUI
  BY Limits DEF AmplifierUI
<1> QED BY <1>1, <1>2

LEMMA AmplifierMounted ==
  ASSUME NEW kept, kept \in Kept \/ kept \in Themes
  PROVE  LET new == A!Mounted(kept)
         IN new \in AmplifierUI /\ new.toast = <<>> /\ new.left = 0 /\ new.open = None
<1>1. (IF kept = "" THEN "Dark" ELSE kept) \in Themes
  BY DEF Themes
<1>2. A!NoToast = <<>> /\ A!NoToast \in {<<>>} \union Said
  BY DEF A!NoToast
<1>3. A!None = None /\ A!None \in A!Names \union {None}
  BY DEF A!None, None
<1> QED BY <1>1, <1>2, <1>3, NoText, AmplifierFresh DEF A!Mounted

LEMMA AmplifierTimers == ASSUME AmplifierInv, A!Tick \/ A!Reload PROVE AmplifierKeeps
<1>1. CASE A!Tick
  <2> DEFINE toast == IF ui.left = 1 THEN A!NoToast ELSE ui.toast
             left == ui.left - 1
  <2>1. ui' = [ui EXCEPT !.left = left, !.toast = toast]
    BY <1>1 DEF A!Tick
  <2>2. /\ ui.left \in 0 .. ToastTicks /\ ui.left > 0 /\ left \in 0 .. ToastTicks
        /\ ui.toast # <<>> /\ ui.left + seen = ToastTicks
        /\ seen' = seen + 1 /\ stored' = stored /\ applied' = applied /\ seen \in 0 .. ToastTicks
    BY <1>1, Limits DEF A!Tick, AmplifierInv, AmplifierUI, ToastKept
  <2>3. toast \in {<<>>} \union Said /\ (toast = <<>> <=> left = 0)
    BY <2>2, Limits DEF AmplifierInv, AmplifierUI, A!NoToast
  <2>4. seen' \in 0 .. ToastTicks /\ left + seen' = ToastTicks
    BY <2>2, Limits
  <2> HIDE DEF toast, left
  <2>5. /\ ui' \in AmplifierUI /\ ui'.left = left /\ ui'.toast = toast
        /\ ui'.open = ui.open /\ ui'.theme = ui.theme
    BY <2>1, <2>2, <2>3 DEF AmplifierInv, AmplifierUI
  <2>6. ToastKept'
    BY <2>2, <2>3, <2>4, <2>5, Limits DEF ToastKept
  <2>7. AmplifierInv'
    BY <2>2, <2>4, <2>5, <2>6 DEF AmplifierInv
  <2> QED BY <2>5, <2>7 DEF AmplifierKeeps, Moved
<1>2. CASE A!Reload
  <2>1. /\ ui' \in AmplifierUI /\ ui'.toast = <<>> /\ ui'.left = 0 /\ ui'.open = None
    BY <1>2, AmplifierMounted DEF A!Reload, AmplifierInv, AmplifierUI
  <2>2. seen' = 0 /\ applied' = ui'.theme /\ stored' = ui'.theme
    BY <1>2 DEF A!Reload, A!ThemeEffect
  <2>3. AmplifierInv'
    BY <2>1, <2>2, Limits DEF AmplifierInv, ToastKept
  <2> QED BY <2>1, <2>3 DEF AmplifierKeeps, Moved
<1> QED BY <1>1, <1>2

LEMMA AmplifierNext == ASSUME AmplifierInv, A!Next PROVE AmplifierKeeps
<1>1. ASSUME NEW t \in Text, A!Type(t) \/ A!Draft(t) PROVE AmplifierKeeps
  BY <1>1, AmplifierForms
<1>2. CASE A!Clear \/ A!Send
  BY <1>2, NoText, AmplifierForms
<1>3. ASSUME NEW n \in A!Names, A!Open(n) \/ A!Promote(n) PROVE AmplifierKeeps
  BY <1>3, AmplifierItems
<1>4. CASE A!Back \/ \E t \in {"output", "blocks", "config"} : A!Tab(t)
  BY <1>4, AmplifierItems
<1>5. CASE A!CycleSort \/ A!CycleTheme \/ A!ToggleAgent \/ A!CloseAgent
  BY <1>5, AmplifierCycles
<1>6. CASE A!Tick \/ A!Reload
  BY <1>6, AmplifierTimers
<1> QED BY <1>1, <1>2, <1>3, <1>4, <1>5, <1>6 DEF A!Next

-----------------------------------------------------------------------------
(* The session dashboard.                                                  *)

MuxplexUI ==
  [rail : BOOLEAN, view : {"Grid", "List"}, sort : 0 .. 2, filter : Text, tier : M!Tier,
   open : M!Names \union {None}, settings : BOOLEAN, zoom : Zoom, bellMode : M!BellMode,
   agent : BOOLEAN, draft : Text, sent : 0 .. MaxSent, toast : {<<>>} \union Said,
   left : 0 .. ToastTicks]

MuxplexInv == ui \in MuxplexUI /\ seen \in 0 .. ToastTicks /\ ToastKept

MuxplexKeeps == MuxplexInv' /\ Moved(M!Names, ui.open, M!Names, ui'.open)

LEMMA MuxplexHandled ==
  ASSUME MuxplexInv, NEW new \in MuxplexUI, M!Handled(new), new.left = ui.left,
         new.open \in M!Names \union {ui.open, None}
  PROVE  MuxplexKeeps
<1> DEFINE told == M!ToastEffect(new)
           draft == IF told.agent THEN told.draft ELSE ""
           sent == IF told.agent THEN told.sent ELSE 0
<1>1. /\ told \in MuxplexUI /\ told.toast = new.toast /\ told.open = new.open
      /\ told.left = IF new.toast = ui.toast THEN new.left ELSE IF new.toast = <<>> THEN 0 ELSE ToastTicks
  BY Limits DEF M!ToastEffect, M!NoToast, MuxplexUI
<1>2. ui' = [told EXCEPT !.draft = draft, !.sent = sent]
  BY DEF M!Handled, M!Unmounted
<1> HIDE DEF told
<1>3. draft \in Text /\ sent \in 0 .. MaxSent
  BY <1>1, Limits, NoText DEF MuxplexUI
<1> HIDE DEF draft, sent
<1>4. ui' \in MuxplexUI /\ ui'.toast = told.toast /\ ui'.left = told.left /\ ui'.open = told.open
  BY <1>1, <1>2, <1>3 DEF MuxplexUI
<1>5. seen' = IF new.toast = ui.toast THEN seen ELSE 0
  BY DEF M!Handled
<1>6. seen' \in 0 .. ToastTicks /\ ToastKept'
  BY <1>1, <1>4, <1>5, Limits DEF MuxplexInv, ToastKept
<1>7. MuxplexInv'
  BY <1>4, <1>6 DEF MuxplexInv
<1> QED BY <1>1, <1>4, <1>7 DEF MuxplexKeeps, Moved

LEMMA MuxplexItems ==
  ASSUME MuxplexInv,
         M!Back \/ \E n \in M!Names : M!Open(n) \/ M!Attach(n)
  PROVE  MuxplexKeeps
<1> USE DEF M!Does
<1>1. CASE M!Back
  BY <1>1, MuxplexHandled DEF MuxplexInv, MuxplexUI, M!Back, M!None, None
<1>2. ASSUME NEW n \in M!Names, M!Open(n) PROVE MuxplexKeeps
  BY <1>2, MuxplexHandled DEF MuxplexInv, MuxplexUI, M!Open
<1>3. ASSUME NEW n \in M!Names, M!Attach(n) PROVE MuxplexKeeps
  <2>1. <<"Attached to", n>> \in Said
    BY DEF Said
  <2> QED BY <1>3, <2>1, MuxplexHandled DEF MuxplexInv, MuxplexUI, M!Attach
<1> QED BY <1>1, <1>2, <1>3

LEMMA MuxplexForms ==
  ASSUME MuxplexInv, M!Clear \/ M!Send \/ \E t \in Text : M!Type(t) \/ M!Draft(t)
  PROVE  MuxplexKeeps
<1> USE DEF M!Does
<1>1. CASE M!Clear
  BY <1>1, NoText, MuxplexHandled DEF MuxplexInv, MuxplexUI, M!Clear
<1>2. CASE M!Send
  <2>1. ui.sent + 1 \in 0 .. MaxSent
    BY <1>2, Limits DEF M!Send, MuxplexInv, MuxplexUI
  <2> QED BY <1>2, <2>1, NoText, MuxplexHandled DEF MuxplexInv, MuxplexUI, M!Send, Said
<1>3. ASSUME NEW t \in Text, M!Type(t) PROVE MuxplexKeeps
  BY <1>3, MuxplexHandled DEF MuxplexInv, MuxplexUI, M!Type
<1>4. ASSUME NEW t \in Text, M!Draft(t) PROVE MuxplexKeeps
  BY <1>4, MuxplexHandled DEF MuxplexInv, MuxplexUI, M!Draft
<1> QED BY <1>1, <1>2, <1>3, <1>4

LEMMA MuxplexLooks ==
  ASSUME MuxplexInv,
         \/ M!ToggleRail \/ M!CycleView \/ M!CycleSort \/ \E t \in M!Tier : M!SetTier(t)
         \/ \E z \in Zoom : M!SetZoom(z)
         \/ \E m \in M!BellMode : M!SetBell(m)
  PROVE  MuxplexKeeps
<1> USE DEF M!Does
<1>1. CASE M!ToggleRail
  BY <1>1, MuxplexHandled DEF MuxplexInv, MuxplexUI, M!ToggleRail
<1>2. CASE M!CycleView
  BY <1>2, MuxplexHandled DEF MuxplexInv, MuxplexUI, M!CycleView
<1>3. CASE M!CycleSort
  <2>1. (ui.sort + 1) % Len(M!SORTS) \in 0 .. 2
    BY DEF MuxplexInv, MuxplexUI, M!SORTS
  <2> QED BY <1>3, <2>1, MuxplexHandled DEF MuxplexInv, MuxplexUI, M!CycleSort
<1>4. ASSUME NEW t \in M!Tier, M!SetTier(t) PROVE MuxplexKeeps
  BY <1>4, MuxplexHandled DEF MuxplexInv, MuxplexUI, M!SetTier
<1>5. ASSUME NEW z \in Zoom, M!SetZoom(z) PROVE MuxplexKeeps
  BY <1>5, MuxplexHandled DEF MuxplexInv, MuxplexUI, M!SetZoom
<1>6. ASSUME NEW m \in M!BellMode, M!SetBell(m) PROVE MuxplexKeeps
  BY <1>6, MuxplexHandled DEF MuxplexInv, MuxplexUI, M!SetBell
<1> QED BY <1>1, <1>2, <1>3, <1>4, <1>5, <1>6

LEMMA MuxplexDialogs ==
  ASSUME MuxplexInv, M!ShowSettings \/ M!CloseSettings \/ M!ToggleAgent \/ M!CloseAgent
  PROVE  MuxplexKeeps
<1> USE DEF M!Does
<1>1. CASE M!ShowSettings
  BY <1>1, MuxplexHandled DEF MuxplexInv, MuxplexUI, M!ShowSettings
<1>2. CASE M!CloseSettings
  BY <1>2, MuxplexHandled DEF MuxplexInv, MuxplexUI, M!CloseSettings
<1>3. CASE M!ToggleAgent
  BY <1>3, MuxplexHandled DEF MuxplexInv, MuxplexUI, M!ToggleAgent
<1>4. CASE M!CloseAgent
  BY <1>4, MuxplexHandled DEF MuxplexInv, MuxplexUI, M!CloseAgent
<1> QED BY <1>1, <1>2, <1>3, <1>4

LEMMA MuxplexTimer == ASSUME MuxplexInv, M!Tick PROVE MuxplexKeeps
<1> DEFINE toast == IF ui.left = 1 THEN M!NoToast ELSE ui.toast
           left == ui.left - 1
<1>1. ui' = [ui EXCEPT !.left = left, !.toast = toast]
  BY DEF M!Tick
<1>2. /\ ui.left \in 0 .. ToastTicks /\ ui.left > 0 /\ left \in 0 .. ToastTicks
      /\ ui.toast # <<>> /\ ui.left + seen = ToastTicks
      /\ seen' = seen + 1 /\ seen \in 0 .. ToastTicks
  BY Limits DEF M!Tick, MuxplexInv, MuxplexUI, ToastKept
<1>3. toast \in {<<>>} \union Said /\ (toast = <<>> <=> left = 0)
  BY <1>2, Limits DEF MuxplexInv, MuxplexUI, M!NoToast
<1>4. seen' \in 0 .. ToastTicks /\ left + seen' = ToastTicks
  BY <1>2, Limits
<1> HIDE DEF toast, left
<1>5. ui' \in MuxplexUI /\ ui'.left = left /\ ui'.toast = toast /\ ui'.open = ui.open
  BY <1>1, <1>2, <1>3 DEF MuxplexInv, MuxplexUI
<1>6. ToastKept'
  BY <1>2, <1>3, <1>4, <1>5, Limits DEF ToastKept
<1>7. MuxplexInv'
  BY <1>4, <1>5, <1>6 DEF MuxplexInv
<1> QED BY <1>5, <1>7 DEF MuxplexKeeps, Moved

LEMMA MuxplexNext == ASSUME MuxplexInv, M!Next PROVE MuxplexKeeps
<1>1. CASE M!Back \/ \E n \in M!Names : M!Open(n) \/ M!Attach(n)
  BY <1>1, MuxplexItems
<1>2. CASE M!Clear \/ M!Send \/ \E t \in Text : M!Type(t) \/ M!Draft(t)
  BY <1>2, MuxplexForms
<1>3. CASE \/ M!ToggleRail \/ M!CycleView \/ M!CycleSort \/ \E t \in M!Tier : M!SetTier(t)
           \/ \E z \in Zoom : M!SetZoom(z)
           \/ \E m \in M!BellMode : M!SetBell(m)
  BY <1>3, MuxplexLooks
<1>4. CASE M!ShowSettings \/ M!CloseSettings \/ M!ToggleAgent \/ M!CloseAgent
  BY <1>4, MuxplexDialogs
<1>5. CASE M!Tick
  BY <1>5, MuxplexTimer
<1> QED BY <1>1, <1>2, <1>3, <1>4, <1>5 DEF M!Next
-----------------------------------------------------------------------------
(* The four pages.                                                         *)

IInv ==
  /\ kit \in {"registry", "directory", "amplifier", "muxplex"}
  /\ kit = "registry" => RegistryInv
  /\ kit = "directory" => DirectoryInv
  /\ kit = "amplifier" => AmplifierInv
  /\ kit = "muxplex" => MuxplexInv

LEMMA RegistryStarts == ASSUME R!Init PROVE RegistryInv /\ ui.open = None
<1>1. ui \in RegistryUI
  BY NoText, Limits DEF R!Init, RegistryUI, R!NoToast, R!None, None
<1>2. ui.open = None /\ ui.toast = <<>> /\ ui.left = 0 /\ ui.ago = 0 /\ seen = 0 /\ since = 0
  BY DEF R!Init, R!NoToast, R!None, None
<1> QED BY <1>1, <1>2, Limits DEF RegistryInv, ToastKept

LEMMA DirectoryStarts == ASSUME D!Init PROVE DirectoryInv /\ DirectoryOpen(ui) = None
<1>1. ui \in DirectoryUI
  BY NoText, Limits DEF D!Init, DirectoryUI, D!None, None
<1>2. ui.mode = "welcome" /\ since = 0
  BY DEF D!Init
<1> QED BY <1>1, <1>2, Limits DEF DirectoryInv, DirectoryOpen, D!Shown

LEMMA AmplifierStarts == ASSUME A!Init PROVE AmplifierInv /\ ui.open = None
<1>1. PICK kept \in Kept : ui = A!Mounted(kept) /\ seen = 0 /\ stored = ui.theme /\ applied = ui.theme
  BY DEF A!Init
<1>2. ui \in AmplifierUI /\ ui.toast = <<>> /\ ui.left = 0 /\ ui.open = None
  BY <1>1, AmplifierMounted
<1> QED BY <1>1, <1>2, Limits DEF AmplifierInv, ToastKept

LEMMA MuxplexFresh ==
  ASSUME NEW new, NEW text \in Text, NEW tier \in M!Tier, NEW none \in M!Names \union {None},
         NEW zoom \in Zoom, NEW bell \in M!BellMode, NEW toast \in {<<>>} \union Said,
         new = [rail |-> TRUE, view |-> "Grid", sort |-> 0, filter |-> text, tier |-> tier,
                open |-> none, settings |-> FALSE, zoom |-> zoom, bellMode |-> bell,
                agent |-> FALSE, draft |-> text, sent |-> 0, toast |-> toast, left |-> 0]
  PROVE  new \in MuxplexUI
  BY Limits DEF MuxplexUI

LEMMA MuxplexStarts == ASSUME M!Init PROVE MuxplexInv /\ ui.open = None
<1>1. ui \in MuxplexUI
  <2>1. 100 \in Zoom
    BY KitsAssumption
  <2>2. "all" \in M!Tier /\ "glow" \in M!BellMode
    BY DEF M!Tier, M!BellMode
  <2>3. M!NoToast \in {<<>>} \union Said /\ M!None \in M!Names \union {None}
    BY DEF M!NoToast, M!None, None
  <2> QED BY <2>1, <2>2, <2>3, NoText, MuxplexFresh DEF M!Init
<1>2. ui.open = None /\ ui.toast = <<>> /\ ui.left = 0 /\ seen = 0
  BY DEF M!Init, M!NoToast, M!None, None
<1> QED BY <1>1, <1>2, Limits DEF MuxplexInv, ToastKept

LEMMA Starts == Init => IInv /\ Page!Init
<1> SUFFICES ASSUME Init PROVE IInv /\ Page!Init
  OBVIOUS
<1>1. CASE kit = "registry" /\ R!Init
  BY <1>1, RegistryStarts DEF IInv, Page!Init, OpenNow
<1>2. CASE kit = "directory" /\ D!Init
  BY <1>2, DirectoryStarts DEF IInv, Page!Init, OpenNow, DirectoryOpen
<1>3. CASE kit = "amplifier" /\ A!Init
  BY <1>3, AmplifierStarts DEF IInv, Page!Init, OpenNow
<1>4. CASE kit = "muxplex" /\ M!Init
  BY <1>4, MuxplexStarts DEF IInv, Page!Init, OpenNow
<1> QED BY <1>1, <1>2, <1>3, <1>4 DEF Init

LEMMA Steps == IInv /\ Next => IInv' /\ Moved(Listed, OpenNow, Listed', OpenNow')
<1> SUFFICES ASSUME IInv, Next PROVE IInv' /\ Moved(Listed, OpenNow, Listed', OpenNow')
  OBVIOUS
<1>1. kit' = kit
  BY DEF Next
<1>2. CASE kit = "registry" /\ R!Next
  <2>1. RegistryKeeps
    BY <1>2, RegistryNext DEF IInv
  <2>2. /\ Listed = R!Names(ui.listed) /\ Listed' = R!Names(ui'.listed)
        /\ OpenNow = ui.open /\ OpenNow' = ui'.open
    BY <1>1, <1>2 DEF Listed, OpenNow, R!Names
  <2> QED BY <1>1, <1>2, <2>1, <2>2 DEF IInv, RegistryKeeps
<1>3. CASE kit = "directory" /\ D!Next
  <2>1. DirectoryKeeps
    BY <1>3, DirectoryNext DEF IInv
  <2>2. /\ Listed = D!Names(ui.listed) /\ Listed' = D!Names(ui'.listed)
        /\ OpenNow = DirectoryOpen(ui) /\ OpenNow' = DirectoryOpen(ui')
    BY <1>1, <1>3 DEF Listed, OpenNow, D!Names, DirectoryOpen
  <2> QED BY <1>1, <1>3, <2>1, <2>2 DEF IInv, DirectoryKeeps
<1>4. CASE kit = "amplifier" /\ A!Next
  <2>1. AmplifierKeeps
    BY <1>4, AmplifierNext DEF IInv
  <2>2. Listed = A!Names /\ Listed' = A!Names /\ OpenNow = ui.open /\ OpenNow' = ui'.open
    BY <1>1, <1>4 DEF Listed, OpenNow
  <2> QED BY <1>1, <1>4, <2>1, <2>2 DEF IInv, AmplifierKeeps
<1>5. CASE kit = "muxplex" /\ M!Next
  <2>1. MuxplexKeeps
    BY <1>5, MuxplexNext DEF IInv
  <2>2. Listed = M!Names /\ Listed' = M!Names /\ OpenNow = ui.open /\ OpenNow' = ui'.open
    BY <1>1, <1>5 DEF Listed, OpenNow
  <2> QED BY <1>1, <1>5, <2>1, <2>2 DEF IInv, MuxplexKeeps
<1> QED BY <1>2, <1>3, <1>4, <1>5 DEF Next

(* What a step does to a list is a step of Browsing, or none.              *)
LEMMA MovedBrowses ==
  Moved(Listed, OpenNow, Listed', OpenNow') => [Page!Next]_<<Listed, OpenNow>>
<1> SUFFICES ASSUME Moved(Listed, OpenNow, Listed', OpenNow')
             PROVE  Page!Next \/ (Listed' = Listed /\ OpenNow' = OpenNow)
  OBVIOUS
<1>1. CASE Listed' = Listed /\ OpenNow' = None
  BY <1>1 DEF Page!Next, Page!Leave
<1>2. CASE Listed' = Listed /\ OpenNow' \in Listed
  BY <1>2 DEF Page!Next, Page!Choose
<1>3. ASSUME NEW n \in Listed \intersect Removable,
             Listed' = Listed \ {n}, OpenNow' = IF OpenNow = n THEN None ELSE OpenNow
      PROVE  Page!Next
  BY <1>3 DEF Page!Next, Page!Remove
<1> QED BY <1>1, <1>2, <1>3 DEF Moved

LEMMA Stutters == IInv /\ UNCHANGED vars => IInv' /\ Listed' = Listed /\ OpenNow' = OpenNow
<1> SUFFICES ASSUME IInv, UNCHANGED vars PROVE IInv' /\ Listed' = Listed /\ OpenNow' = OpenNow
  OBVIOUS
<1>1. kit' = kit /\ ui' = ui /\ seen' = seen /\ since' = since /\ stored' = stored /\ applied' = applied
  BY DEF vars
<1>2. ToastKept' <=> ToastKept
  BY <1>1 DEF ToastKept
<1>3. (RegistryInv' <=> RegistryInv) /\ (DirectoryInv' <=> DirectoryInv)
  BY <1>1, <1>2 DEF RegistryInv, DirectoryInv, R!Counting, R!Opened
<1>4. (AmplifierInv' <=> AmplifierInv) /\ (MuxplexInv' <=> MuxplexInv)
  BY <1>1, <1>2 DEF AmplifierInv, MuxplexInv
<1>5. IInv'
  BY <1>1, <1>3, <1>4 DEF IInv
<1>6. Listed' = Listed /\ OpenNow' = OpenNow
  BY <1>1 DEF Listed, OpenNow, D!Shown
<1> QED BY <1>5, <1>6

LEMMA Invariant == Spec => []IInv
<1>1. Init => IInv
  BY Starts
<1>2. IInv /\ [Next]_vars => IInv'
  BY Steps, Stutters
<1> QED BY <1>1, <1>2, PTL DEF Spec

LEMMA RegistryTyped == ASSUME RegistryInv PROVE R!TypeOK
  BY DEF RegistryInv, RegistryUI, R!TypeOK, R!None, None

LEMMA DirectoryTyped == ASSUME DirectoryInv PROVE D!TypeOK
  BY DEF DirectoryInv, DirectoryUI, D!TypeOK, D!None, None

LEMMA AmplifierTyped == ASSUME AmplifierInv PROVE A!TypeOK
<1>1. DOMAIN A!THEMES = 1 .. 3 /\ A!THEMES[1] = "Dark" /\ A!THEMES[2] = "Light" /\ A!THEMES[3] = "Auto"
  BY DEF A!THEMES
<1>2. Themes \subseteq (Kept \ {""}) \union {A!THEMES[i] : i \in DOMAIN A!THEMES}
  <2>1. {"Dark", "Light", "Auto"} \subseteq {A!THEMES[i] : i \in DOMAIN A!THEMES}
    <3>1. 1 \in DOMAIN A!THEMES /\ 2 \in DOMAIN A!THEMES /\ 3 \in DOMAIN A!THEMES
      BY <1>1
    <3> QED BY <1>1, <3>1, Zenon
  <2> QED BY <2>1, Zenon DEF Themes
<1>3. Len(A!SORTS) - 1 = 3
  BY DEF A!SORTS
<1> QED BY <1>2, <1>3 DEF AmplifierInv, AmplifierUI, A!TypeOK, A!None, None

LEMMA MuxplexTyped == ASSUME MuxplexInv PROVE M!TypeOK
<1>1. Len(M!SORTS) - 1 = 2
  BY DEF M!SORTS
<1> QED BY <1>1 DEF MuxplexInv, MuxplexUI, M!TypeOK, M!None, None

(* Every page's state has its type, whatever is clicked.                   *)
THEOREM TypeCorrect == Spec => []TypeOK
<1>1. IInv => TypeOK
  <2> SUFFICES ASSUME IInv PROVE TypeOK
    OBVIOUS
  <2> QED BY RegistryTyped, DirectoryTyped, AmplifierTyped, MuxplexTyped DEF IInv, TypeOK
<1> QED BY <1>1, Invariant, PTL

(* However clicks that start, replace and unmount them follow each other:  *)
(* a toast is shown for its whole time, the seconds told of a reading are  *)
(* those since it was read, and the theme that is chosen is worn and kept. *)
THEOREM EffectsKeepInStep == Spec => []EffectsInStep
<1>1. IInv => EffectsInStep
  <2> SUFFICES ASSUME IInv PROVE EffectsInStep
    OBVIOUS
  <2>1. RegistryInv => R!EffectsInStep
    BY DEF RegistryInv, ToastKept, R!EffectsInStep, R!NoToast
  <2>2. DirectoryInv => D!EffectsInStep
    BY DEF DirectoryInv, D!EffectsInStep
  <2>3. AmplifierInv => A!EffectsInStep
    BY DEF AmplifierInv, ToastKept, A!EffectsInStep, A!NoToast
  <2>4. MuxplexInv => M!EffectsInStep
    BY DEF MuxplexInv, ToastKept, M!EffectsInStep, M!NoToast
  <2> QED BY <2>1, <2>2, <2>3, <2>4 DEF IInv, EffectsInStep
<1> QED BY <1>1, Invariant, PTL

(* Each page implements Browsing: what is open is nothing or was listed    *)
(* when it was opened, only what may be removed leaves the list, it is not *)
(* left open, and nothing comes back.                                      *)
THEOREM PagesBrowse == Spec => Browses
<1>1. Init => Page!Init
  BY Starts
<1>2. IInv /\ [Next]_vars => [Page!Next]_<<Listed, OpenNow>>
  BY Steps, Stutters, MovedBrowses
<1> QED BY <1>1, <1>2, Invariant, PTL DEF Spec, Browses, Page!Spec
=============================================================================
