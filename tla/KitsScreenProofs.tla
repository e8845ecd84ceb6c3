--------------------------- MODULE KitsScreenProofs ---------------------------
(***************************************************************************)
(* ScreenSound of the pages of ui_kits, for any services, runs, sessions,  *)
(* texts and bounds, by the theory of ElementsProofs.                      *)
(*                                                                         *)
(* A screen is composed from its leaves up, as the page's components are:  *)
(* a part is a Catalogue when its clicks run one handler each and it shows *)
(* the items of a set of names, each by one element; it is Plain when it   *)
(* shows none.  Catalogues of names that differ, below places that differ, *)
(* make a Catalogue of all the names, so the lemma about a list needs no   *)
(* more of a row than that it is the Catalogue of its own name.  What the  *)
(* page's copy of a component does is what the library's does because the  *)
(* two are equal, or because they are Flat and look the same.              *)
(***************************************************************************)
EXTENDS KitsProofs, ElementsProofs

-----------------------------------------------------------------------------
(* The services the registry and the directory show, and their names.      *)
VisibleNames == {s.name : s \in R!Visible}
VisibleAt(n) == {s \in R!Visible : s.origin = n}
NamesAt(n) == {s.name : s \in VisibleAt(n)}

LEMMA VisibleData ==
  ASSUME ui.listed \subseteq Service
  PROVE  /\ \A s \in R!Visible : s \in ui.listed /\ s \in Service /\ s.origin \in Node
         /\ \A s, t \in ui.listed : s.name = t.name => s = t
         /\ \A s, t \in R!Visible : s.name = t.name => s = t
         /\ \A S : (\A m \in Node : VisibleAt(m) # {} => m \in S) /\ S \subseteq Node
              => Gather(VisibleNames, S, [n \in S |-> NamesAt(n)])
         /\ \A m, n : m # n => NamesAt(m) \intersect NamesAt(n) = {}
<1>1. /\ \A s \in R!Visible : s \in ui.listed /\ s \in Service /\ s.origin \in Node
      /\ \A s, t \in Service : s.name = t.name => s = t
  BY DataAssumption DEF R!Visible
<1>2. /\ \A s, t \in ui.listed : s.name = t.name => s = t
      /\ \A s, t \in R!Visible : s.name = t.name => s = t
  BY <1>1
<1>3. ASSUME NEW S, \A m \in Node : VisibleAt(m) # {} => m \in S, S \subseteq Node
      PROVE  Gather(VisibleNames, S, [n \in S |-> NamesAt(n)])
  <2>1. \A n \in S : [m \in S |-> NamesAt(m)][n] = NamesAt(n)
    OBVIOUS
  <2>2. \A x : x \in VisibleNames <=> \E n \in S : x \in NamesAt(n)
    BY <1>1, <1>3 DEF VisibleNames, NamesAt, VisibleAt
  <2> QED BY <2>1, <2>2, Zenon DEF Gather
<1>4. \A m, n : m # n => NamesAt(m) \intersect NamesAt(n) = {}
  BY <1>2 DEF NamesAt, VisibleAt
<1> QED BY <1>1, <1>2, <1>3, <1>4
-----------------------------------------------------------------------------
(* The registry's page.                                                    *)

(* The words of its module and of its copy of the library are those of     *)
(* Elements.                                                               *)
LEMMA RegistryWords ==
  /\ R!NoAct = NoAct
  /\ \A at, kind, act, look : R!Element(at, kind, act, look) = Element(at, kind, act, look)
  /\ \A at, act : R!Button(at, act) = Element(at, "button", act, "")
  /\ \A at, act, look : R!Area(at, act, look) = Element(at, "area", act, look)
  /\ \A at : R!NewTab(at) = Element(at, "link", <<"new tab">>, "")
  /\ \A at, act : R!Input(at, act) = Element(at, "input", act, "")
  /\ \A at, act : R!Key(at, act) = Element(at, "key", act, "")
  /\ \A at, look : R!Mark(at, look) = Element(at, "mark", NoAct, look)
  /\ \A e : R!Stopping(e) = Stopping(e)
  /\ \A c, part : R!When(c, part) = When(c, part)
  /\ \A at, part : R!Below(at, part) = Below(at, part)
  /\ \A part, e : R!Fired(part, e) = Fired(part, e)
  /\ \A part : R!Deeds(part) = Deeds(part)
  /\ \A S : R!Cardinality(S) = Cardinality(S)
<1>1. /\ R!NoAct = NoAct
      /\ \A at, kind, act, look : R!Element(at, kind, act, look) = Element(at, kind, act, look)
  BY DEF R!NoAct, NoAct, R!Element, Element
<1>2. /\ \A at, act : R!Button(at, act) = Element(at, "button", act, "")
      /\ \A at, act, look : R!Area(at, act, look) = Element(at, "area", act, look)
      /\ \A at : R!NewTab(at) = Element(at, "link", <<"new tab">>, "")
      /\ \A at, act : R!Input(at, act) = Element(at, "input", act, "")
      /\ \A at, act : R!Key(at, act) = Element(at, "key", act, "")
      /\ \A at, look : R!Mark(at, look) = Element(at, "mark", NoAct, look)
  BY <1>1, Zenon DEF R!Button, R!Area, R!NewTab, R!Input, R!Key, R!Mark
<1>3. /\ \A e : R!Stopping(e) = Stopping(e)
      /\ \A c, part : R!When(c, part) = When(c, part)
      /\ \A at, part : R!Below(at, part) = Below(at, part)
  BY Zenon DEF R!Stopping, Stopping, R!When, When, R!Below, Below
<1>4. /\ \A part, e : R!Fired(part, e) = Fired(part, e)
      /\ \A part : R!Deeds(part) = Deeds(part)
  BY Zenon DEF R!Fired, Fired, R!Around, Around, R!Clicked, Clicked, R!Sequence!IsPrefix,
               Sequence!IsPrefix, R!NoAct, NoAct, R!Deeds, Deeds
<1>5. \A S : R!Cardinality(S) = Cardinality(S)
  BY Zenon DEF R!Cardinality, Cardinality
<1> QED BY <1>1, <1>2, <1>3, <1>4, <1>5, Zenon

LEMMA RegistryFilter == Plain(R!Filter)
<1> DEFINE input == {Element(<<"input">>, "input", <<"type", "filter">>, "")}
           clear == {Element(<<"clear">>, "button", <<"clear", "filter">>, "")}
<1>1. R!Filter = input \union When(ui.filter # "", clear)
  BY RegistryWords, Zenon DEF R!Filter
<1>2. Plain(input) /\ Under(input, {"input"}) /\ Plain(clear) /\ Under(clear, {"clear"})
  BY PlainAt1, ActsHere, KindsAre, Zenon
<1> HIDE DEF input, clear
<1>3. Plain(When(ui.filter # "", clear)) /\ Under(When(ui.filter # "", clear), {"clear"})
  BY <1>2, PlainWhen, Zenon
<1> QED BY <1>1, <1>2, <1>3, PlainPair, Zenon

LEMMA RegistryHeaderParts == Plain(R!Header)
<1> DEFINE back == Below(<<"back">>, R!Link(<<"back">>))
           filter == Below(<<"filter">>, R!Filter)
           agent == Below(<<"agent">>, R!AgentButton)
           settings == Below(<<"settings">>, R!Link(<<"show", "settings">>))
           b == When(R!Opened(ui) # {}, back)
           n == When(\E s \in ui.listed : s.attention > 0, R!Attention)
<1>1. R!Header = b \union filter \union n \union agent \union settings
  BY RegistryWords, Zenon DEF R!Header
<1>2. Plain(R!Link(<<"back">>)) /\ Plain(R!Link(<<"show", "settings">>)) /\ Plain(R!AgentButton)
  BY RegistryWords, PlainHere, ActsHere, KindsAre, Zenon DEF R!Link, R!AgentButton
<1>3. Plain(R!Attention) /\ Under(R!Attention, {"badge"})
  BY RegistryWords, PlainAt1, ActsHere, KindsAre, Zenon DEF R!Attention
<1>4. Plain(back) /\ Under(back, {"back"}) /\ Plain(filter) /\ Under(filter, {"filter"})
  BY <1>2, RegistryFilter, PlainBelow
<1>5. Plain(agent) /\ Under(agent, {"agent"}) /\ Plain(settings) /\ Under(settings, {"settings"})
  BY <1>2, PlainBelow
<1> HIDE DEF back, filter, agent, settings
<1>6. Plain(b) /\ Under(b, {"back"}) /\ Plain(n) /\ Under(n, {"badge"})
  BY <1>3, <1>4, PlainWhen
<1> HIDE DEF b, n
<1>7. Plain(b \union filter \union n \union agent \union settings)
  BY <1>4, <1>5, <1>6, PlainFive, Zenon
<1> QED BY <1>1, <1>7

(* What a tile and a row of the rail show beside their item.               *)
LEMMA RegistryMarks ==
  ASSUME NEW s
  PROVE  LET marks == R!HealthDot(s) \union When(s.attention > 0, R!Attention)
         IN Plain(marks) /\ Mute(marks)
<1> DEFINE health == R!HealthDot(s)
           badge == When(s.attention > 0, R!Attention)
<1>1. Plain(health) /\ Under(health, {"health"})
  BY RegistryWords, PlainAt1, ActsHere, KindsAre, Zenon DEF R!HealthDot
<1>2. Plain(R!Attention) /\ Under(R!Attention, {"badge"})
  BY RegistryWords, PlainAt1, ActsHere, KindsAre, Zenon DEF R!Attention
<1>3. Plain(badge) /\ Under(badge, {"badge"})
  BY <1>2, PlainWhen
<1>4. Mute(health) /\ Mute(R!Attention)
  BY RegistryWords, MuteElement, Place1, KindsAre, Zenon DEF R!HealthDot, R!Attention
<1>5. Mute(badge)
  BY <1>4 DEF When, Mute
<1> HIDE DEF health, badge
<1>6. Mute(health \union badge)
  BY <1>4, <1>5 DEF Mute
<1>7. Plain(health \union badge)
  BY <1>1, <1>3, PlainPair, Zenon
<1> QED BY <1>6, <1>7 DEF health, badge

LEMMA RegistryTile ==
  ASSUME NEW s
  PROVE  /\ Catalogue(R!ServiceTile(s), Kinds, "open", {s.name})
         /\ \A selected : Catalogue(R!RailRow(s, selected), Kinds, "open", {s.name})
<1> DEFINE marks == R!HealthDot(s) \union When(s.attention > 0, R!Attention)
           cross == Stopping(Element(<<"remove">>, "button", <<"remove", s.name>>, ""))
           remove == When(s.dynamic, {cross})
           top(look) == {Element(<<>>, "area", <<"open", s.name>>, look)}
<1>1. /\ R!ServiceTile(s) = top(R!edge(s, FALSE)) \union (marks \union remove)
      /\ \A selected : R!RailRow(s, selected) = top(R!edge(s, selected)) \union marks
  <2>1. /\ R!ServiceTile(s) = top(R!edge(s, FALSE)) \union R!HealthDot(s)
              \union When(s.attention > 0, R!Attention) \union remove
        /\ \A selected : R!RailRow(s, selected) = top(R!edge(s, selected)) \union R!HealthDot(s)
              \union When(s.attention > 0, R!Attention)
    BY RegistryWords, Zenon DEF R!ServiceTile, R!RailRow
  <2> QED BY <2>1, Zenon
<1>2. Plain(marks) /\ Mute(marks)
  BY RegistryMarks
<1>3. /\ IsPlace(<<"remove">>) /\ Len(<<"remove">>) > 0
  BY Place1
<1>4. cross = Stopping(Element(<<"remove">>, "button", <<"remove", s.name>>, ""))
  OBVIOUS
<1> HIDE DEF cross
<1>5. /\ IsElement(cross) /\ cross.at = <<"remove">> /\ cross.kind = "button" /\ cross.stops
  BY <1>4, StoppingButton, Zenon
<1>6. Plain({cross})
  BY <1>4, <1>3, ActsHere, KindsAre, OneElement, Zenon
<1> HIDE DEF marks
<1>7. Plain(remove)
  BY <1>6, PlainWhen
<1>8. Plain(marks \union remove)
  BY <1>2, <1>7, PlainBeside DEF Plain
<1>9. Shielded(marks \union remove) /\ Shielded(marks)
  BY <1>2, <1>3, <1>5, InsideItself DEF Shielded, Mute, When, Clicked
<1> HIDE DEF remove
<1>10. \A look : /\ Catalogue(top(look) \union (marks \union remove), Kinds, "open", {s.name})
                 /\ Catalogue(top(look) \union marks, Kinds, "open", {s.name})
  BY <1>2, <1>8, <1>9, ActsHere, KindsAre, TileShows, Zenon DEF Plain
<1> QED BY <1>1, <1>10, Zenon

LEMMA RegistryRows ==
  ASSUME ui.listed \subseteq Service, NEW n
  PROVE  /\ Catalogue(UNION {Below(<<s.name>>, R!ServiceTile(s)) : s \in VisibleAt(n)},
                      Kinds, "open", NamesAt(n))
         /\ Catalogue(UNION {Below(<<s.name>>, R!RailRow(s, s.name = ui.open)) : s \in VisibleAt(n)},
                      Kinds, "open", NamesAt(n))
<1> DEFINE S == VisibleAt(n)
           P == [s \in S |-> <<s.name>>]
           G == [s \in S |-> Below(<<s.name>>, R!ServiceTile(s))]
           Q == [s \in S |-> Below(<<s.name>>, R!RailRow(s, s.name = ui.open))]
           tiles == {Below(<<s.name>>, R!ServiceTile(s)) : s \in S}
           rail == {Below(<<s.name>>, R!RailRow(s, s.name = ui.open)) : s \in S}
<1>1. /\ \A s, t \in S : s.name = t.name => s = t
      /\ \A x : x \in NamesAt(n) <=> \E s \in S : x = s.name
  BY VisibleData DEF VisibleAt, NamesAt
<1>2. /\ \A s \in S : P[s] = <<s.name>>
      /\ \A s \in S : G[s] = Below(<<s.name>>, R!ServiceTile(s))
      /\ \A s \in S : Q[s] = Below(<<s.name>>, R!RailRow(s, s.name = ui.open))
  BY Zenon
<1>3. /\ \A s \in S : IsPlace(P[s])
      /\ \A s, t \in S : s.name # t.name => Differ(P[s], P[t])
  BY <1>2, Place1, DifferAt, Zenon
<1> HIDE DEF P, G, Q
<1>4. Family(tiles, S, G) /\ Family(rail, S, Q)
  BY <1>2 DEF Family
<1>5. /\ \A s \in S : \E row : G[s] = Below(P[s], row) /\ Catalogue(row, Kinds, "open", {s.name})
      /\ \A s \in S : \E row : Q[s] = Below(P[s], row) /\ Catalogue(row, Kinds, "open", {s.name})
  BY <1>2, RegistryTile, Zenon
<1> HIDE DEF S, tiles, rail
<1>6. Listing(tiles, S, P, G, NamesAt(n), Kinds, "open")
  BY <1>1, <1>3, <1>4, <1>5, Zenon DEF Listing
<1>7. Listing(rail, S, P, Q, NamesAt(n), Kinds, "open")
  BY <1>1, <1>3, <1>4, <1>5, Zenon DEF Listing
<1>8. /\ Catalogue(UNION tiles, Kinds, "open", NamesAt(n))
      /\ Catalogue(UNION rail, Kinds, "open", NamesAt(n))
  BY <1>6, <1>7, RowsByName, Zenon
<1> QED BY <1>8 DEF tiles, rail, S

LEMMA RegistryOverview ==
  ASSUME ui.listed \subseteq Service
  PROVE  Catalogue(R!Overview, Kinds, "open", VisibleNames)
<1> DEFINE mark == {Element(<<"reachable">>, "mark", NoAct, "reachable")}
           rows(n) == UNION {Below(<<s.name>>, R!ServiceTile(s)) : s \in VisibleAt(n)}
           S == {m \in Node : VisibleAt(m) # {}}
           G == [n \in S |-> Below(<<"node", n>>, mark \union rows(n))]
           N == [n \in S |-> NamesAt(n)]
           parts == {Below(<<"node", n>>, mark \union rows(n)) : n \in S}
           text == {Element(<<"empty">>, "mark", NoAct, "No services match this filter")}
           empty == When(R!Visible = {}, text)
<1>1. R!Overview = empty \union UNION parts
  BY Zenon DEF R!Overview, VisibleAt, R!Below, Below, R!When, When, R!Mark, R!Element, Element,
               R!NoAct, NoAct
<1>2. Plain(mark) /\ Mute(mark) /\ Plain(text) /\ Under(text, {"empty"})
  BY PlainAt1, MuteElement, Place1, ActsHere, KindsAre, Zenon
<1>3. Plain(empty) /\ Under(empty, {"empty"})
  BY <1>2, PlainWhen, Zenon
<1>4. \A n : Catalogue(rows(n), Kinds, "open", NamesAt(n))
  BY RegistryRows
<1> HIDE DEF rows, mark, text, empty
<1>5. \A n : Catalogue(mark \union rows(n), Kinds, "open", NamesAt(n))
  BY <1>2, <1>4, ActsHere, CatalogueBeside, Zenon
<1>6. Family(parts, S, G)
  BY DEF Family
<1>7. /\ \A n \in S : N[n] = NamesAt(n) /\ G[n] = Below(<<"node", n>>, mark \union rows(n))
      /\ Gather(VisibleNames, S, N)
  BY VisibleData
<1>8. \A m, n \in S : m # n => N[m] \intersect N[n] = {}
  BY <1>7, VisibleData
<1> HIDE DEF G, N, parts, S
<1>9. \A n \in S : \E section : /\ G[n] = Below(<<"node", n>>, section)
                                /\ Catalogue(section, Kinds, "open", N[n])
  BY <1>5, <1>7, Zenon
<1>10. Catalogue(UNION parts, Kinds, "open", VisibleNames) /\ Under(UNION parts, {"node"})
  <2>1. Sectioned(parts, S, "node", G, N, VisibleNames, Kinds, "open")
    BY <1>6, <1>7, <1>8, <1>9, Zenon DEF Sectioned
  <2> QED BY <2>1, Sections, Zenon
<1>11. {"node"} \intersect {"empty"} = {} /\ "open" \in Shows
  BY ActsHere, Zenon
<1> QED BY <1>1, <1>3, <1>10, <1>11, CataloguePlain, Zenon

LEMMA RegistryRail ==
  ASSUME ui.listed \subseteq Service
  PROVE  Catalogue(R!Rail, Kinds, "open", VisibleNames)
<1> DEFINE rows(n) == UNION {Below(<<s.name>>, R!RailRow(s, s.name = ui.open)) : s \in VisibleAt(n)}
           S == Node
           G == [n \in S |-> Below(<<"node", n>>, rows(n))]
           N == [n \in S |-> NamesAt(n)]
           parts == {Below(<<"node", n>>, rows(n)) : n \in S}
           filter == Below(<<"filter">>, R!Filter)
<1>1. R!Rail = filter \union UNION parts
  BY Zenon DEF R!Rail, VisibleAt, R!Below, Below
<1>2. Plain(filter) /\ Under(filter, {"filter"})
  BY RegistryFilter, PlainBelow
<1>3. \A n : Catalogue(rows(n), Kinds, "open", NamesAt(n))
  BY RegistryRows
<1> HIDE DEF rows, filter
<1>4. Family(parts, S, G)
  BY DEF Family
<1>5. /\ \A n \in S : N[n] = NamesAt(n) /\ G[n] = Below(<<"node", n>>, rows(n))
      /\ Gather(VisibleNames, S, N)
  BY VisibleData
<1>6. \A m, n \in S : m # n => N[m] \intersect N[n] = {}
  BY <1>5, VisibleData
<1> HIDE DEF G, N, parts, S
<1>7. \A n \in S : \E section : /\ G[n] = Below(<<"node", n>>, section)
                                /\ Catalogue(section, Kinds, "open", N[n])
  BY <1>3, <1>5, Zenon
<1>8. Catalogue(UNION parts, Kinds, "open", VisibleNames) /\ Under(UNION parts, {"node"})
  <2>1. Sectioned(parts, S, "node", G, N, VisibleNames, Kinds, "open")
    BY <1>4, <1>5, <1>6, <1>7, Zenon DEF Sectioned
  <2> QED BY <2>1, Sections, Zenon
<1>9. {"node"} \intersect {"filter"} = {} /\ "open" \in Shows
  BY ActsHere, Zenon
<1> QED BY <1>1, <1>2, <1>8, <1>9, CataloguePlain, Zenon

LEMMA RegistryDetail == ASSUME NEW s PROVE Plain(R!Detail(s))
<1> DEFINE open == {Element(<<"open here">>, "button", <<"open here">>, "")}
           health == R!HealthDot(s)
           doc == {Element(<<"docs">>, "link", <<"new tab">>, "")}
           links == {Element(<<"address", l>>, "link", <<"new tab">>, "") : l \in s.links}
           out == {Element(<<"deregister">>, "button", <<"deregister", s.name>>, "")}
           d == When(s.docs, doc)
           o == When(s.attention > 0, out)
<1>1. R!Detail(s) = open \union health \union d \union links \union o
  BY Zenon DEF R!Detail, R!Button, R!NewTab, R!When, When, R!Element, Element
<1>2. Plain(open) /\ Under(open, {"open here"}) /\ Plain(doc) /\ Under(doc, {"docs"})
  BY PlainAt1, ActsHere, KindsAre, Zenon
<1>3. Plain(out) /\ Under(out, {"deregister"})
  BY PlainAt1, ActsHere, KindsAre, Zenon
<1>4. Plain(health) /\ Under(health, {"health"})
  BY RegistryWords, PlainAt1, ActsHere, KindsAre, Zenon DEF R!HealthDot
<1>5. Plain(links) /\ Under(links, {"address"})
  BY AddressesPlain, Zenon
<1> HIDE DEF open, health, doc, links, out
<1>6. Plain(d) /\ Under(d, {"docs"}) /\ Plain(o) /\ Under(o, {"deregister"})
  BY <1>2, <1>3, PlainWhen, Zenon
<1> HIDE DEF d, o
<1>7. Plain(open \union health \union d \union links \union o)
  BY <1>2, <1>4, <1>5, <1>6, PlainFive, Zenon
<1> QED BY <1>1, <1>7

LEMMA RegistryPaneParts ==
  ASSUME NEW s, ui.mode \in {"detail", "json", "fallback", "iframe"}
  PROVE  Plain(R!Pane(s))
<1> DEFINE tab == {Element(<<"new tab">>, "link", <<"new tab">>, "")}
           close == {Element(<<"close">>, "button", <<"mode", "detail">>, "")}
           refresh == {Element(<<"refresh">>, "button", <<"refresh">>, "")}
           auto == {Element(<<"auto">>, "button", <<"auto">>, "")}
           escape == {Element(<<"escape">>, "link", <<"new tab">>, "")}
           reload == {Element(<<"reload">>, "button", NoAct, "")}
<1>1. /\ Plain(tab) /\ Under(tab, {"new tab"}) /\ Plain(close) /\ Under(close, {"close"})
      /\ Plain(escape) /\ Under(escape, {"escape"})
  BY PlainAt1, ActsHere, KindsAre, Zenon
<1>2. /\ Plain(refresh) /\ Under(refresh, {"refresh"}) /\ Plain(auto) /\ Under(auto, {"auto"})
      /\ Plain(reload) /\ Under(reload, {"reload"})
  BY PlainAt1, ActsHere, KindsAre, Zenon
<1>3. /\ R!ViewerToolbar({}) = tab \union close
      /\ R!ViewerToolbar({R!Button(<<"reload">>, R!NoAct)}) = reload \union tab \union close
      /\ R!ViewerToolbar({R!Button(<<"refresh">>, <<"refresh">>), R!Button(<<"auto">>, <<"auto">>)})
           = refresh \union auto \union tab \union close
  <2>1. \A actions : R!ViewerToolbar(actions) = actions \union (tab \union close)
    <3>1. \A actions : R!ViewerToolbar(actions) = actions \union
            {Element(<<"new tab">>, "link", <<"new tab">>, ""),
             Element(<<"close">>, "button", <<"mode", "detail">>, "")}
      BY RegistryWords, Zenon DEF R!ViewerToolbar
    <3> QED BY <3>1, Singles, Zenon
  <2>2. /\ {R!Button(<<"reload">>, R!NoAct)} = reload
        /\ {R!Button(<<"refresh">>, <<"refresh">>), R!Button(<<"auto">>, <<"auto">>)} = refresh \union auto
    BY RegistryWords, Singles, Zenon
  <2> HIDE DEF tab, close, reload, refresh, auto
  <2> QED BY <2>1, <2>2, Singles, Zenon
<1>4. {R!NewTab(<<"escape">>)} = escape
  BY RegistryWords, Zenon
<1> HIDE DEF tab, close, refresh, auto, escape, reload
<1>5. Plain(refresh \union auto \union tab \union close)
  BY <1>1, <1>2, PlainFour, Zenon
<1>6. Plain(reload \union tab \union close) /\ Plain(tab \union close \union escape)
  BY <1>1, <1>2, PlainThree, Zenon
<1>7. CASE ui.mode = "detail"
  BY <1>7, RegistryDetail DEF R!Pane
<1>8. CASE ui.mode = "json"
  BY <1>3, <1>5, <1>8 DEF R!Pane
<1>9. CASE ui.mode = "fallback"
  BY <1>3, <1>4, <1>6, <1>9 DEF R!Pane
<1>10. CASE ui.mode = "iframe"
  BY <1>3, <1>6, <1>10 DEF R!Pane
<1> QED BY <1>7, <1>8, <1>9, <1>10

(* What is in the dialog.                                                  *)
RegistryFields ==
  {Element(<<"token">>, "input", <<"type", "token">>, "")}
  \union When(R!Armed, {Element(<<"peer">>, "button", <<"remove peer">>, "")}
                       \union {Element(<<"issue">>, "button", <<"issue">>, "")})
  \union When(ui.code, {Element(<<"code">>, "mark", NoAct, "code")})

LEMMA RegistryFieldsFlat ==
  /\ Flat(RegistryFields)
  /\ \E X : Under(RegistryFields, X) /\ "close" \notin X
  /\ \A e \in RegistryFields : Idle(e.does)
<1> DEFINE token == {Element(<<"token">>, "input", <<"type", "token">>, "")}
           peer == {Element(<<"peer">>, "button", <<"remove peer">>, "")}
           issue == {Element(<<"issue">>, "button", <<"issue">>, "")}
           code == {Element(<<"code">>, "mark", NoAct, "code")}
<1>1. /\ Flat(token) /\ Under(token, {"token"}) /\ Flat(peer) /\ Under(peer, {"peer"})
      /\ Flat(issue) /\ Under(issue, {"issue"}) /\ Flat(code) /\ Under(code, {"code"})
  BY FlatAt1, KindsAre, Zenon
<1>2. \A e \in token \union peer \union issue \union code : Idle(e.does)
  <2>1. /\ (\A e \in token : Idle(e.does)) /\ (\A e \in peer : Idle(e.does))
        /\ (\A e \in issue : Idle(e.does)) /\ (\A e \in code : Idle(e.does))
    BY ActsHere, IdleElement, Zenon
  <2> HIDE DEF token, peer, issue, code
  <2> QED BY <2>1
<1> DEFINE armed == When(R!Armed, peer \union issue)
           shown == When(ui.code, code)
           X == {"token"} \union ({"peer"} \union {"issue"}) \union {"code"}
<1>3. RegistryFields = token \union armed \union shown
  BY DEF RegistryFields
<1> HIDE DEF token, peer, issue, code
<1>4. /\ {"peer"} \intersect {"issue"} = {} /\ {"token"} \intersect ({"peer"} \union {"issue"}) = {}
      /\ ({"token"} \union ({"peer"} \union {"issue"})) \intersect {"code"} = {}
      /\ "close" \notin X
  OBVIOUS
<1>5. Flat(armed) /\ Under(armed, {"peer"} \union {"issue"})
  BY <1>1, <1>4, FlatHeads, FlatWhen, Zenon
<1>6. Flat(shown) /\ Under(shown, {"code"})
  BY <1>1, FlatWhen
<1>7. \A e \in RegistryFields : Idle(e.does)
  BY <1>2, <1>3 DEF When
<1> HIDE DEF armed, shown
<1>8. /\ Flat(token \union armed)
      /\ Under(token \union armed, {"token"} \union ({"peer"} \union {"issue"}))
  BY <1>1, <1>4, <1>5, FlatHeads, Zenon
<1>9. Flat(RegistryFields) /\ Under(RegistryFields, X)
  BY <1>3, <1>4, <1>6, <1>8, FlatHeads, Zenon
<1> QED BY <1>4, <1>7, <1>9

LEMMA RegistrySettings ==
  /\ R!Settings = Dialog(<<"close", "settings">>, RegistryFields)
  /\ Plain(R!Settings)
<1> DEFINE at(x) == <<"dialog", x>>
           back == {Element(<<"backdrop">>, "area", <<"close", "settings">>, "")}
           close == {Element(at("close"), "button", <<"close", "settings">>, "")}
           token == {Element(at("token"), "input", <<"type", "token">>, "")}
           peer == {Element(at("peer"), "button", <<"remove peer">>, "")}
           issue == {Element(at("issue"), "button", <<"issue">>, "")}
           code == {Element(at("code"), "mark", NoAct, "code")}
           armed == When(R!Armed, peer \union issue)
           shown == When(ui.code, code)
<1>1. R!Settings = back \union close \union token \union armed \union shown
  <2>1. R!Settings =
          {Element(<<"backdrop">>, "area", <<"close", "settings">>, ""),
           Element(at("close"), "button", <<"close", "settings">>, ""),
           Element(at("token"), "input", <<"type", "token">>, "")}
          \union When(R!Armed, {Element(at("peer"), "button", <<"remove peer">>, ""),
                                Element(at("issue"), "button", <<"issue">>, "")})
          \union When(ui.code, {Element(at("code"), "mark", NoAct, "code")})
    BY RegistryWords, Zenon DEF R!Settings
  <2> QED BY <2>1, Singles, Zenon
<1>2. \A x : \A kind \in Kinds : \A act, look :
        Below(<<"dialog">>, {Element(<<x>>, kind, act, look)}) = {Element(at(x), kind, act, look)}
  BY BelowAt1
<1> HIDE DEF at
<1>3. Below(<<"dialog">>, {Element(<<"close">>, "button", <<"close", "settings">>, "")}) = close
  BY <1>2, KindsAre, Zenon
<1>4. Below(<<"dialog">>, {Element(<<"token">>, "input", <<"type", "token">>, "")}) = token
  BY <1>2, KindsAre, Zenon
<1>5. Below(<<"dialog">>, {Element(<<"peer">>, "button", <<"remove peer">>, "")}) = peer
  BY <1>2, KindsAre, Zenon
<1>6. Below(<<"dialog">>, {Element(<<"issue">>, "button", <<"issue">>, "")}) = issue
  BY <1>2, KindsAre, Zenon
<1>7. Below(<<"dialog">>, {Element(<<"code">>, "mark", NoAct, "code")}) = code
  BY <1>2, KindsAre
<1> HIDE DEF close, token, peer, issue, code
<1>8. Below(<<"dialog">>, RegistryFields) = token \union armed \union shown
  <2> DEFINE t == {Element(<<"token">>, "input", <<"type", "token">>, "")}
             q == {Element(<<"peer">>, "button", <<"remove peer">>, "")}
             i == {Element(<<"issue">>, "button", <<"issue">>, "")}
             c == {Element(<<"code">>, "mark", NoAct, "code")}
             d == <<"dialog">>
  <2>1. RegistryFields = t \union When(R!Armed, q \union i) \union When(ui.code, c)
    BY DEF RegistryFields
  <2>2. Below(d, t) = token /\ Below(d, q) = peer /\ Below(d, i) = issue /\ Below(d, c) = code
    BY <1>4, <1>5, <1>6, <1>7, Zenon
  <2> HIDE DEF t, q, i, c, d
  <2>3. Below(d, RegistryFields)
          = Below(d, t) \union When(R!Armed, Below(d, q) \union Below(d, i)) \union When(ui.code, Below(d, c))
    <3>1. Below(d, q \union i) = Below(d, q) \union Below(d, i)
      BY BelowParts
    <3>2. Below(d, When(R!Armed, q \union i)) = When(R!Armed, Below(d, q \union i))
      BY BelowParts, Zenon
    <3>3. Below(d, When(ui.code, c)) = When(ui.code, Below(d, c))
      BY BelowParts, Zenon
    <3> DEFINE w == When(R!Armed, q \union i)
               v == When(ui.code, c)
    <3> HIDE DEF w, v
    <3>4. Below(d, t \union w \union v) = Below(d, t \union w) \union Below(d, v)
      BY BelowParts
    <3>5. Below(d, t \union w) = Below(d, t) \union Below(d, w)
      BY BelowParts
    <3>6. Below(d, RegistryFields) = Below(d, t) \union Below(d, w) \union Below(d, v)
      BY <2>1, <3>4, <3>5, Zenon DEF w, v
    <3> QED BY <3>1, <3>2, <3>3, <3>6, Zenon DEF w, v
  <2> QED BY <2>2, <2>3 DEF d
<1>9. Dialog(<<"close", "settings">>, RegistryFields)
        = back \union (close \union Below(<<"dialog">>, RegistryFields))
  <2> DEFINE c == {Element(<<"close">>, "button", <<"close", "settings">>, "")}
             d == <<"dialog">>
  <2>1. Dialog(<<"close", "settings">>, RegistryFields) = back \union Below(d, c \union RegistryFields)
    BY DEF Dialog
  <2>2. Below(d, c) = close
    BY <1>3, Zenon
  <2> HIDE DEF c, d
  <2>3. Below(d, c \union RegistryFields) = Below(d, c) \union Below(d, RegistryFields)
    BY BelowParts
  <2> QED BY <2>1, <2>2, <2>3, Zenon DEF d
<1> HIDE DEF armed, shown, back
<1>10. R!Settings = Dialog(<<"close", "settings">>, RegistryFields)
  BY <1>1, <1>8, <1>9, Singles, Zenon
<1>11. Plain(Dialog(<<"close", "settings">>, RegistryFields))
  BY RegistryFieldsFlat, DialogFlat, ActsHere, Zenon
<1> QED BY <1>10, <1>11

LEMMA RegistryAgentPanel == Plain(R!AgentPanel) /\ Plain(R!Toast)
<1> DEFINE close == {Element(<<"close">>, "button", <<"close", "agent">>, "")}
           draft == {Element(<<"draft">>, "input", <<"type", "draft">>, "")}
           enter == {Element(<<"draft", "enter">>, "key", <<"send">>, "")}
           send == {Element(<<"send">>, "button", <<"send">>, "")}
<1>1. R!AgentPanel = close \union draft \union enter \union send
  <2>1. R!AgentPanel = {Element(<<"close">>, "button", <<"close", "agent">>, ""),
                        Element(<<"draft">>, "input", <<"type", "draft">>, ""),
                        Element(<<"draft", "enter">>, "key", <<"send">>, ""),
                        Element(<<"send">>, "button", <<"send">>, "")}
    BY RegistryWords, Zenon DEF R!AgentPanel
  <2> QED BY <2>1, Singles, Zenon
<1>2. /\ Plain(close) /\ Under(close, {"close"}) /\ Plain(send) /\ Under(send, {"send"})
      /\ Plain(draft)
  BY PlainAt1, ActsHere, KindsAre, Zenon
<1>3. Mute(draft) /\ Mute(enter) /\ Plain(enter)
  BY MuteElement, Place1, Place2, OneElement, ActsHere, KindsAre, Zenon
<1>4. Plain(R!Toast)
  BY RegistryWords, PlainHere, ActsHere, KindsAre, Zenon DEF R!Toast
<1> HIDE DEF close, draft, enter, send
<1>5. Plain(close \union send) /\ Plain(draft \union enter) /\ Mute(draft \union enter)
  <2>1. Plain(close \union send)
    BY <1>2, PlainPair, Zenon
  <2>2. Plain(draft \union enter)
    BY <1>2, <1>3, PlainBeside DEF Plain
  <2>3. Mute(draft \union enter)
    BY <1>3 DEF Mute
  <2> QED BY <2>1, <2>2, <2>3
<1>6. Plain((close \union send) \union (draft \union enter))
  BY <1>5, PlainBeside DEF Plain
<1>7. R!AgentPanel = (close \union send) \union (draft \union enter)
  BY <1>1
<1> QED BY <1>4, <1>6, <1>7

LEMMA RegistryScreenParts ==
  ASSUME ui.listed \subseteq Service, ui.mode \in {"detail", "json", "fallback", "iframe"}
  PROVE  Catalogue(R!Screen, Kinds, "open", VisibleNames)
<1> DEFINE header == Below(<<"header">>, R!Header)
           settings == When(ui.settings, Below(<<"settings">>, R!Settings))
           agent == When(ui.agent, Below(<<"agent">>, R!AgentPanel))
           toast == When(ui.toast # R!NoToast, Below(<<"toast">>, R!Toast))
           others == header \union settings \union agent \union toast
           pane == UNION {Below(<<"pane">>, R!Pane(s)) : s \in R!Opened(ui)}
           main == IF R!Opened(ui) = {} THEN Below(<<"overview">>, R!Overview)
                   ELSE Below(<<"rail">>, R!Rail) \union pane
<1>1. R!Screen = header \union main \union settings \union agent \union toast
  BY Zenon DEF R!Screen, R!Below, Below, R!When, When
<1>2. /\ Plain(header) /\ Under(header, {"header"})
      /\ Plain(settings) /\ Under(settings, {"settings"})
      /\ Plain(agent) /\ Under(agent, {"agent"}) /\ Plain(toast) /\ Under(toast, {"toast"})
  <2>1. /\ Plain(Below(<<"settings">>, R!Settings)) /\ Under(Below(<<"settings">>, R!Settings), {"settings"})
        /\ Plain(Below(<<"agent">>, R!AgentPanel)) /\ Under(Below(<<"agent">>, R!AgentPanel), {"agent"})
        /\ Plain(Below(<<"toast">>, R!Toast)) /\ Under(Below(<<"toast">>, R!Toast), {"toast"})
    BY RegistrySettings, RegistryAgentPanel, PlainBelow
  <2>2. Plain(header) /\ Under(header, {"header"})
    BY RegistryHeaderParts, PlainBelow
  <2> QED BY <2>1, <2>2, PlainWhen
<1> HIDE DEF header, settings, agent, toast
<1>3. /\ Plain(others)
      /\ Under(others, {"header"} \union {"settings"} \union {"agent"} \union {"toast"})
  BY <1>2, PlainFour, Zenon
<1>4. Catalogue(main, Kinds, "open", VisibleNames) /\ Under(main, {"overview", "rail", "pane"})
  <2>1. CASE R!Opened(ui) = {}
    <3>1. Catalogue(Below(<<"overview">>, R!Overview), Kinds, "open", VisibleNames)
      BY RegistryOverview, Place1, CatalogueBelow
    <3>2. Under(Below(<<"overview">>, R!Overview), {"overview"})
      BY RegistryOverview, Place1, UnderBelow DEF Catalogue, Sound
    <3> QED BY <2>1, <3>1, <3>2 DEF Under
  <2>2. CASE R!Opened(ui) # {}
    <3>1. PICK s : s \in R!Opened(ui)
      BY <2>2
    <3>2. R!Opened(ui) = {s}
      BY <3>1, VisibleData DEF R!Opened
    <3>3. pane = Below(<<"pane">>, R!Pane(s))
      BY <3>2
    <3>4. Plain(pane) /\ Under(pane, {"pane"})
      <4>1. /\ Plain(Below(<<"pane">>, R!Pane(s))) /\ Under(Below(<<"pane">>, R!Pane(s)), {"pane"})
        BY RegistryPaneParts, PlainBelow
      <4> QED BY <3>3, <4>1, Zenon
    <3>5. Catalogue(Below(<<"rail">>, R!Rail), Kinds, "open", VisibleNames)
      BY RegistryRail, Place1, CatalogueBelow
    <3>6. Under(Below(<<"rail">>, R!Rail), {"rail"})
      BY RegistryRail, Place1, UnderBelow DEF Catalogue, Sound
    <3>7. {"rail"} \intersect {"pane"} = {} /\ "open" \in Shows
      BY ActsHere, Zenon
    <3> HIDE DEF pane
    <3>8. Catalogue(Below(<<"rail">>, R!Rail) \union pane, Kinds, "open", VisibleNames)
      BY <3>4, <3>5, <3>6, <3>7, CataloguePlain
    <3> QED BY <2>2, <3>4, <3>6, <3>8 DEF Under
  <2> QED BY <2>1, <2>2
<1> HIDE DEF main
<1>5. /\ {"overview", "rail", "pane"}
           \intersect ({"header"} \union {"settings"} \union {"agent"} \union {"toast"}) = {}
      /\ "open" \in Shows
  BY ActsHere, Zenon
<1> HIDE DEF others
<1>6. Catalogue(main \union others, Kinds, "open", VisibleNames)
  BY <1>3, <1>4, <1>5, CataloguePlain
<1>7. R!Screen = main \union others
  BY <1>1 DEF others
<1> QED BY <1>6, <1>7

-----------------------------------------------------------------------------
(* What the components of the library are, as this page uses them.         *)
LEMMA RegistryLibrary ==
  /\ \A act : R!L!AmpTextControl(act) = {Element(<<>>, "button", act, "")}
  /\ R!L!AttentionBadge = {Element(<<"badge">>, "mark", NoAct, "attention")}
  /\ \A attention, selected : R!L!ampEdge(attention, selected)
       = CASE attention > 0 -> "attention"
           [] attention = 0 /\ selected -> "selected"
           [] attention = 0 /\ ~selected -> "line"
  /\ \A c, part : R!L!When(c, part) = When(c, part)
  /\ \A at, part : R!L!Below(at, part) = Below(at, part)
  /\ \A at, kind, act, look : R!L!Element(at, kind, act, look) = Element(at, kind, act, look)
  /\ \A at, act : R!L!Button(at, act) = Element(at, "button", act, "")
  /\ \A at, act, look : R!L!Area(at, act, look) = Element(at, "area", act, look)
  /\ \A at : R!L!NewTab(at) = Element(at, "link", <<"new tab">>, "")
  /\ \A at, act : R!L!Input(at, act) = Element(at, "input", act, "")
  /\ \A at, act : R!L!Key(at, act) = Element(at, "key", act, "")
  /\ \A at, look : R!L!Mark(at, look) = Element(at, "mark", NoAct, look)
  /\ R!L!NoAct = NoAct
<1>1. /\ R!L!NoAct = NoAct
      /\ \A at, kind, act, look : R!L!Element(at, kind, act, look) = Element(at, kind, act, look)
  BY DEF R!L!NoAct, NoAct, R!L!Element, Element
<1>2. /\ \A at, act : R!L!Button(at, act) = Element(at, "button", act, "")
      /\ \A at, act, look : R!L!Area(at, act, look) = Element(at, "area", act, look)
      /\ \A at : R!L!NewTab(at) = Element(at, "link", <<"new tab">>, "")
      /\ \A at, act : R!L!Input(at, act) = Element(at, "input", act, "")
      /\ \A at, act : R!L!Key(at, act) = Element(at, "key", act, "")
      /\ \A at, look : R!L!Mark(at, look) = Element(at, "mark", NoAct, look)
  BY <1>1, Zenon DEF R!L!Button, R!L!Area, R!L!NewTab, R!L!Input, R!L!Key, R!L!Mark
<1>3. /\ \A c, part : R!L!When(c, part) = When(c, part)
      /\ \A at, part : R!L!Below(at, part) = Below(at, part)
  BY Zenon DEF R!L!When, When, R!L!Below, Below
<1>4. /\ \A act : R!L!AmpTextControl(act) = {Element(<<>>, "button", act, "")}
      /\ R!L!AttentionBadge = {Element(<<"badge">>, "mark", NoAct, "attention")}
  BY <1>2, Zenon DEF R!L!AmpTextControl, R!L!AttentionBadge
<1>5. \A attention, selected : R!L!ampEdge(attention, selected)
       = CASE attention > 0 -> "attention"
           [] attention = 0 /\ selected -> "selected"
           [] attention = 0 /\ ~selected -> "line"
  BY Zenon DEF R!L!ampEdge
<1> QED BY <1>1, <1>2, <1>3, <1>4, <1>5, Zenon

LEMMA RegistryLibraryHeader ==
  ASSUME ui.listed \subseteq Service
  PROVE  R!Header = R!L!AmpHeader(
           Cardinality({s \in ui.listed : s.attention > 0}), <<"agent">>, ui.agent,
           R!When(R!Opened(ui) # {}, R!Below(<<"back">>, R!L!AmpTextControl(<<"back">>)))
           \union R!Below(<<"filter">>, R!L!AmpFilter(ui.filter, "filter"))
           \union R!Below(<<"settings">>, R!L!AmpTextControl(<<"show", "settings">>)))
<1> DEFINE back == R!When(R!Opened(ui) # {}, R!Below(<<"back">>, R!Link(<<"back">>)))
           filter == R!Below(<<"filter">>, R!Filter)
           badge == {Element(<<"badge">>, "mark", NoAct, "attention")}
           agent == Below(<<"agent">>, {Element(<<>>, "button", <<"agent">>, IF ui.agent THEN "open" ELSE "")})
           settings == R!Below(<<"settings">>, R!Link(<<"show", "settings">>))
           count == Cardinality({s \in ui.listed : s.attention > 0})
<1>1. R!Header = back \union filter \union When(\E s \in ui.listed : s.attention > 0, badge)
                 \union agent \union settings
  <2>1. R!Attention = badge
    BY RegistryWords, Zenon DEF R!Attention
  <2>2. R!Below(<<"agent">>, R!AgentButton) = agent
    BY RegistryWords, Zenon DEF R!AgentButton
  <2> HIDE DEF agent, badge, back, filter, settings
  <2>3. R!Header = back \union filter \union R!When(\E s \in ui.listed : s.attention > 0, badge)
                 \union agent \union settings
    BY <2>1, <2>2, Zenon DEF R!Header, back, filter, settings
  <2>4. R!When(\E s \in ui.listed : s.attention > 0, badge) = When(\E s \in ui.listed : s.attention > 0, badge)
    BY Zenon DEF R!When, When
  <2> QED BY <2>3, <2>4, Zenon
<1>2. (\A act : R!L!AmpTextControl(act) = R!Link(act)) /\ R!L!AmpFilter(ui.filter, "filter") = R!Filter
  <2>1. \A act : R!L!AmpTextControl(act) = R!Link(act)
    BY RegistryLibrary, RegistryWords, Zenon DEF R!Link
  <2>2. R!L!AmpFilter(ui.filter, "filter") = R!Filter
    BY RegistryLibrary, RegistryWords, Zenon DEF R!L!AmpFilter, R!Filter, R!L!When, R!When
  <2> QED BY <2>1, <2>2
<1>3. (count > 0) <=> \E s \in ui.listed : s.attention > 0
  <2> DEFINE S == {s \in ui.listed : s.attention > 0}
  <2>1. IsFiniteSet(S)
    BY DataAssumption, FS_Subset
  <2>2. Cardinality(S) \in Nat /\ (Cardinality(S) = 0 <=> S = {})
    BY <2>1, FS_CardinalityType, FS_EmptySet
  <2> QED BY <2>2
<1> DEFINE children == back \union filter \union settings
<1>4. R!L!AmpHeader(count, <<"agent">>, ui.agent, children)
        = children \union When(count > 0, badge) \union agent
  <2>1. <<"agent">> # R!L!NoAct
    BY DEF R!L!NoAct
  <2>2. R!L!Below(<<"agent">>, R!L!AgentButton(<<"agent">>, ui.agent)) = agent
    BY RegistryLibrary, Zenon DEF R!L!AgentButton
  <2>3. R!L!AttentionBadge = badge
    BY RegistryLibrary, Zenon
  <2>4. \A x : R!L!When(<<"agent">> # R!L!NoAct, x) = x
    BY <2>1, Zenon DEF R!L!When
  <2> HIDE DEF agent, badge, children, count
  <2>5. R!L!AmpHeader(count, <<"agent">>, ui.agent, children)
        = children \union R!L!When(count > 0, R!L!AttentionBadge)
            \union R!L!When(<<"agent">> # R!L!NoAct, R!L!Below(<<"agent">>, R!L!AgentButton(<<"agent">>, ui.agent)))
    BY Zenon DEF R!L!AmpHeader
  <2>6. R!L!AmpHeader(count, <<"agent">>, ui.agent, children)
        = children \union R!L!When(count > 0, badge) \union agent
    BY <2>3, <2>4, <2>5, <2>2, Zenon
  <2>7. R!L!When(count > 0, badge) = When(count > 0, badge)
    BY Zenon DEF R!L!When, When
  <2> QED BY <2>6, <2>7, Zenon
<1>5. children = R!When(R!Opened(ui) # {}, R!Below(<<"back">>, R!L!AmpTextControl(<<"back">>)))
           \union R!Below(<<"filter">>, R!L!AmpFilter(ui.filter, "filter"))
           \union R!Below(<<"settings">>, R!L!AmpTextControl(<<"show", "settings">>))
  BY <1>2, Zenon
<1>6. When(count > 0, badge) = When(\E s \in ui.listed : s.attention > 0, badge)
  BY <1>3, Zenon DEF When
<1> HIDE DEF badge, agent, back, filter, settings, count
<1>7. R!Header = children \union When(count > 0, badge) \union agent
  BY <1>1, <1>6
<1> HIDE DEF children
<1> QED BY <1>4, <1>5, <1>7, Zenon DEF count

LEMMA RegistryLibraryTiles ==
  ASSUME NEW s, s \in Service
  PROVE  /\ {e \in R!ServiceTile(s) : e.at # <<"remove">>}
              = R!L!AmpTile(s.attention, <<"open", s.name>>) \union R!L!HealthPill(s.health)
         /\ \A selected : R!RailRow(s, selected)
              = R!L!AmpRailRow(s.attention, selected, <<"open", s.name>>) \union R!L!HealthPill(s.health)
<1> DEFINE area(selected) == {Element(<<>>, "area", <<"open", s.name>>, R!edge(s, selected))}
           health == {Element(<<"health">>, "mark", NoAct, s.health)}
           badge == {Element(<<"badge">>, "mark", NoAct, "attention")}
           remove == {Stopping(Element(<<"remove">>, "button", <<"remove", s.name>>, ""))}
           needs == s.attention > 0
<1>1. \A e \in remove : e.at = <<"remove">>
  <2> DEFINE p == <<"remove">>
             k == "button"
  <2>1. IsPlace(p) /\ k \in Kinds
    BY Place1, KindsAre, Zenon
  <2> HIDE DEF p, k
  <2>2. \A act, look : Stopping(Element(p, k, act, look)).at = p
    BY <2>1, PlacesOf
  <2> QED BY <2>2, Zenon DEF p, k
<1>2. \A selected : (\A e \in area(selected) \union health \union badge : e.at # <<"remove">>)
  BY DEF Element
<1>3. \A selected : R!L!ampEdge(s.attention, selected) = R!edge(s, selected)
  BY Zenon DEF R!edge, R!L!ampEdge
<1>4. R!L!HealthPill(s.health) = health
  <2>1. (IF s.health \in {"up", "down"} THEN s.health ELSE "unknown") = s.health
    BY DataAssumption
  <2> QED BY <2>1, RegistryLibrary, Zenon DEF R!L!HealthPill
<1>5. \A selected : R!L!AmpRailRow(s.attention, selected, <<"open", s.name>>)
        = area(selected) \union When(needs, badge)
  <2>1. ASSUME NEW selected
        PROVE  R!L!AmpRailRow(s.attention, selected, <<"open", s.name>>)
                 = {R!L!Area(<<>>, <<"open", s.name>>, R!L!ampEdge(s.attention, selected))}
                   \union R!L!When(s.attention > 0, R!L!AttentionBadge)
    BY Zenon DEF R!L!AmpRailRow
  <2>2. ASSUME NEW selected
        PROVE  {R!L!Area(<<>>, <<"open", s.name>>, R!L!ampEdge(s.attention, selected))} = area(selected)
    BY <1>3, RegistryLibrary, Zenon
  <2>3. R!L!When(s.attention > 0, R!L!AttentionBadge) = When(needs, badge)
    BY RegistryLibrary, Zenon DEF R!L!When, When
  <2> QED BY <2>1, <2>2, <2>3, Zenon
<1>6. R!L!AmpTile(s.attention, <<"open", s.name>>) = area(FALSE) \union When(needs, badge)
  <2>1. R!L!AmpTile(s.attention, <<"open", s.name>>)
                 = {R!L!Area(<<>>, <<"open", s.name>>, R!L!ampEdge(s.attention, FALSE))}
                   \union R!L!When(s.attention > 0, R!L!AttentionBadge)
    BY Zenon DEF R!L!AmpTile
  <2>2. {R!L!Area(<<>>, <<"open", s.name>>, R!L!ampEdge(s.attention, FALSE))} = area(FALSE)
    BY <1>3, RegistryLibrary, Zenon
  <2>3. R!L!When(s.attention > 0, R!L!AttentionBadge) = When(needs, badge)
    BY RegistryLibrary, Zenon DEF R!L!When, When
  <2> QED BY <2>1, <2>2, <2>3, Zenon
<1>7. /\ R!HealthDot(s) = health
      /\ R!When(s.attention > 0, R!Attention) = When(needs, badge)
      /\ R!When(s.dynamic, {R!Stopping(R!Button(<<"remove">>, <<"remove", s.name>>))}) = When(s.dynamic, remove)
      /\ \A selected : {R!Area(<<>>, <<"open", s.name>>, R!edge(s, selected))} = area(selected)
  <2>1. R!HealthDot(s) = health
    BY RegistryWords, Zenon DEF R!HealthDot
  <2>2. R!Attention = badge
    BY RegistryWords, Zenon DEF R!Attention
  <2>3. R!Stopping(R!Button(<<"remove">>, <<"remove", s.name>>))
          = Stopping(Element(<<"remove">>, "button", <<"remove", s.name>>, ""))
    BY RegistryWords, Zenon
  <2>4. \A selected : {R!Area(<<>>, <<"open", s.name>>, R!edge(s, selected))} = area(selected)
    BY RegistryWords, Zenon
  <2>5. R!When(s.attention > 0, R!Attention) = When(needs, badge)
    BY <2>2, Zenon DEF R!When, When
  <2>6. R!When(s.dynamic, {R!Stopping(R!Button(<<"remove">>, <<"remove", s.name>>))}) = When(s.dynamic, remove)
    BY <2>3, Zenon DEF R!When, When
  <2> QED BY <2>1, <2>4, <2>5, <2>6, Zenon
<1>8. R!ServiceTile(s) = area(FALSE) \union health \union When(needs, badge) \union When(s.dynamic, remove)
  BY <1>7, Zenon DEF R!ServiceTile
<1>9. \A selected : R!RailRow(s, selected) = area(selected) \union health \union When(needs, badge)
  BY <1>7, Zenon DEF R!RailRow
<1> HIDE DEF area, health, badge, remove, needs
<1>10. {e \in R!ServiceTile(s) : e.at # <<"remove">>} = area(FALSE) \union health \union When(needs, badge)
  <2> DEFINE a == area(FALSE) \union health \union When(needs, badge)
             b == When(s.dynamic, remove)
  <2>1. (\A e \in a : e.at # <<"remove">>) /\ \A e \in b : e.at = <<"remove">>
    BY <1>1, <1>2 DEF When
  <2>2. R!ServiceTile(s) = a \union b
    BY <1>8
  <2> HIDE DEF a, b
  <2>3. {e \in a \union b : e.at # <<"remove">>} = a
    BY <2>1
  <2> QED BY <2>2, <2>3, Zenon DEF a
<1>11. \A selected : R!RailRow(s, selected)
          = R!L!AmpRailRow(s.attention, selected, <<"open", s.name>>) \union R!L!HealthPill(s.health)
  <2>1. ASSUME NEW selected
        PROVE  area(selected) \union health \union When(needs, badge)
                 = area(selected) \union When(needs, badge) \union health
    OBVIOUS
  <2> QED BY <1>4, <1>5, <1>9, <2>1, Zenon
<1>12. area(FALSE) \union health \union When(needs, badge) = area(FALSE) \union When(needs, badge) \union health
  OBVIOUS
<1> QED BY <1>4, <1>6, <1>10, <1>11, <1>12, Zenon

LEMMA RegistryLibraryPanel ==
  R!AgentPanel = {e \in R!L!AmpAgentPanel(<<"type", "draft">>, <<"send">>, <<"close", "agent">>) :
                    e.at # <<"powered">>}
<1> DEFINE panel == {Element(<<"close">>, "button", <<"close", "agent">>, ""),
                     Element(<<"draft">>, "input", <<"type", "draft">>, ""),
                     Element(<<"draft", "enter">>, "key", <<"send">>, ""),
                     Element(<<"send">>, "button", <<"send">>, "")}
           powered == Element(<<"powered">>, "link", <<"top">>, "")
<1>1. R!AgentPanel = panel
  BY RegistryWords, Zenon DEF R!AgentPanel
<1>2. R!L!AmpAgentPanel(<<"type", "draft">>, <<"send">>, <<"close", "agent">>) = panel \union {powered}
  <2>1. R!L!AmpAgentPanel(<<"type", "draft">>, <<"send">>, <<"close", "agent">>)
         = {Element(<<"close">>, "button", <<"close", "agent">>, ""),
            Element(<<"draft">>, "input", <<"type", "draft">>, ""),
            Element(<<"draft", "enter">>, "key", <<"send">>, ""),
            Element(<<"send">>, "button", <<"send">>, ""), powered}
    BY RegistryLibrary, Zenon DEF R!L!AmpAgentPanel
  <2> HIDE DEF powered
  <2>2. \A a, b, c, d, e : {a, b, c, d, e} = {a, b, c, d} \union {e}
    OBVIOUS
  <2> QED BY <2>1, <2>2, Zenon
<1>3. \A e \in panel : e.at # <<"powered">>
  <2>1. /\ <<"close">> # <<"powered">> /\ <<"draft">> # <<"powered">>
        /\ <<"draft", "enter">> # <<"powered">> /\ <<"send">> # <<"powered">>
    OBVIOUS
  <2>2. /\ Element(<<"close">>, "button", <<"close", "agent">>, "").at = <<"close">>
        /\ Element(<<"draft">>, "input", <<"type", "draft">>, "").at = <<"draft">>
        /\ Element(<<"draft", "enter">>, "key", <<"send">>, "").at = <<"draft", "enter">>
        /\ Element(<<"send">>, "button", <<"send">>, "").at = <<"send">>
    BY PlacesOf, Zenon
  <2> QED BY <2>1, <2>2, Zenon
<1>4. \A e \in {powered} : e.at = <<"powered">>
  <2>1. powered.at = <<"powered">>
    BY PlacesOf, Zenon
  <2> QED BY <2>1, Zenon
<1> HIDE DEF panel, powered
<1> QED BY <1>1, <1>2, <1>3, <1>4

LEMMA RegistryLibraryViewer ==
  R!ViewerToolbar({}) = R!L!ViewerHeader(TRUE, {}, <<"mode", "detail">>)
<1> DEFINE tab == Element(<<"new tab">>, "link", <<"new tab">>, "")
           close == Element(<<"close">>, "button", <<"mode", "detail">>, "")
<1>1. R!ViewerToolbar({}) = {} \union {tab, close}
  BY RegistryWords, Zenon DEF R!ViewerToolbar
<1>2. R!L!ViewerHeader(TRUE, {}, <<"mode", "detail">>) = {} \union {tab} \union {close}
  <2>1. R!L!When(TRUE, {tab}) = {tab}
    BY Zenon DEF R!L!When
  <2>2. R!L!NewTab(<<"new tab">>) = tab /\ R!L!Button(<<"close">>, <<"mode", "detail">>) = close
    BY RegistryLibrary, Zenon
  <2> HIDE DEF tab, close
  <2> QED BY <2>1, <2>2, Zenon DEF R!L!ViewerHeader
<1> HIDE DEF tab, close
<1> QED BY <1>1, <1>2

LEMMA RegistryLibraryDetail ==
  ASSUME NEW s, s \in Service
  PROVE  {e \in R!Detail(s) : e.at # <<"deregister">>} = R!L!ServiceDetail(s, s.health, <<"open here">>)
<1> DEFINE open == {Element(<<"open here">>, "button", <<"open here">>, "")}
           health == {Element(<<"health">>, "mark", NoAct, s.health)}
           docs == {Element(<<"docs">>, "link", <<"new tab">>, "")}
           links == {Element(<<"address", l>>, "link", <<"new tab">>, "") : l \in s.links}
           gone == {Element(<<"deregister">>, "button", <<"deregister", s.name>>, "")}
<1>1. R!Detail(s) = open \union health \union When(s.docs, docs) \union links \union When(s.attention > 0, gone)
  BY RegistryWords, Zenon DEF R!Detail, R!HealthDot, R!When, When
<1>2. R!L!ServiceDetail(s, s.health, <<"open here">>) = health \union When(s.docs, docs) \union links \union open
  <2> DEFINE none == {R!L!Mark(<<"open here">>, "No in-app view")}
  <2>1. R!L!ServiceDetail(s, s.health, <<"open here">>)
          = health \union When(s.docs, docs) \union links
            \union (IF s.links # {} THEN open ELSE none)
    BY RegistryLibrary, Zenon DEF R!L!ServiceDetail, R!L!When, When
  <2>2. s.links # {}
    BY DataAssumption
  <2> HIDE DEF none, open, links, docs, health
  <2> QED BY <2>1, <2>2, Zenon
<1>3. \A e \in open \union health \union docs \union links : e.at # <<"deregister">>
  <2>1. /\ <<"open here">> # <<"deregister">> /\ <<"health">> # <<"deregister">>
        /\ <<"docs">> # <<"deregister">> /\ \A l \in s.links : <<"address", l>> # <<"deregister">>
    OBVIOUS
  <2>2. /\ Element(<<"open here">>, "button", <<"open here">>, "").at = <<"open here">>
        /\ Element(<<"health">>, "mark", NoAct, s.health).at = <<"health">>
        /\ Element(<<"docs">>, "link", <<"new tab">>, "").at = <<"docs">>
        /\ \A l \in s.links : Element(<<"address", l>>, "link", <<"new tab">>, "").at = <<"address", l>>
    BY PlacesOf, Zenon
  <2> QED BY <2>1, <2>2, Zenon
<1>4. \A e \in gone : e.at = <<"deregister">>
  <2>1. Element(<<"deregister">>, "button", <<"deregister", s.name>>, "").at = <<"deregister">>
    BY PlacesOf, Zenon
  <2> QED BY <2>1, Zenon
<1> HIDE DEF open, health, docs, links, gone
<1> DEFINE a == open \union health \union When(s.docs, docs) \union links
           b == When(s.attention > 0, gone)
<1>5. (\A e \in a : e.at # <<"deregister">>) /\ \A e \in b : e.at = <<"deregister">>
  BY <1>3, <1>4 DEF When
<1>6. a = health \union When(s.docs, docs) \union links \union open
  OBVIOUS
<1> HIDE DEF a, b
<1>7. {e \in a \union b : e.at # <<"deregister">>} = a
  BY <1>5
<1> QED BY <1>1, <1>2, <1>6, <1>7, Zenon DEF a, b

LEMMA RegistryLibrarySettings ==
  R!Deeds(R!Settings)
    = R!Deeds(R!L!Modal(<<"close", "settings">>,
        R!Below(<<"body">>, {e \in R!Settings :
          e.at \in {<<"dialog", p>> : p \in {"token", "peer", "issue", "code"}}})))
<1> DEFINE act == <<"close", "settings">>
           N == {"token", "peer", "issue", "code"}
           P == {<<"dialog", p>> : p \in N}
           X == {e \in R!Settings : e.at \in P}
           inner == Below(<<"dialog">>, RegistryFields)
           body == Below(<<"body">>, inner)
           edge == {Element(<<"backdrop">>, "area", act, ""), Element(<<"dialog", "close">>, "button", act, "")}
<1>1. X = inner
  <2>1. R!Settings = edge \union inner
    BY RegistrySettings, DialogIs, Zenon
  <2>2. \A e \in edge : e.at \notin P
    <3>1. /\ Element(<<"backdrop">>, "area", act, "").at = <<"backdrop">>
          /\ Element(<<"dialog", "close">>, "button", act, "").at = <<"dialog", "close">>
      BY PlacesOf, Zenon
    <3>2. <<"backdrop">> \notin P /\ <<"dialog", "close">> \notin P
      OBVIOUS
    <3> HIDE DEF P
    <3> QED BY <3>1, <3>2, Zenon
  <2>3. Tops(RegistryFields, N)
    <3>1. /\ Tops({Element(<<"token">>, "input", <<"type", "token">>, "")}, N)
          /\ Tops({Element(<<"peer">>, "button", <<"remove peer">>, "")}, N)
          /\ Tops({Element(<<"issue">>, "button", <<"issue">>, "")}, N)
          /\ Tops({Element(<<"code">>, "mark", NoAct, "code")}, N)
      <4>1. "token" \in N /\ "peer" \in N /\ "issue" \in N /\ "code" \in N
        OBVIOUS
      <4> HIDE DEF N
      <4> QED BY <4>1, TopsOf, Zenon
    <3> HIDE DEF N
    <3> QED BY <3>1, TopsOf, Zenon DEF RegistryFields
  <2>4. \A e \in inner : e.at \in P
    <3>1. IsPart(RegistryFields)
      BY RegistryFieldsFlat DEF Flat
    <3> HIDE DEF N
    <3>2. \A e \in inner : \E x \in N : e.at = <<"dialog", x>>
      BY <2>3, <3>1, TopsBelow, Zenon
    <3> HIDE DEF inner
    <3> QED BY <3>2
  <2> HIDE DEF P, inner, edge
  <2> QED BY <2>1, <2>2, <2>4
<1>2. R!L!Modal(act, R!Below(<<"body">>, X)) = Dialog(act, body)
  <2>1. R!Below(<<"body">>, X) = body
    BY <1>1, RegistryWords, Zenon
  <2> HIDE DEF X, body, act
  <2>2. R!L!Modal(act, body) = {Element(<<"backdrop">>, "area", act, ""), Element(<<"dialog", "close">>, "button", act, "")}
                               \union Below(<<"dialog">>, body)
    BY RegistryLibrary, Zenon DEF R!L!Modal
  <2> QED BY <2>1, <2>2, DialogIs, Zenon
<1>3. Deeds(R!Settings) = Deeds(Dialog(act, body))
  <2>1. Flat(RegistryFields) /\ IsPart(RegistryFields) /\ \E Y : Under(RegistryFields, Y) /\ "close" \notin Y
    BY RegistryFieldsFlat DEF Flat
  <2>2. Flat(inner) /\ Looks(inner) = Looks(RegistryFields)
    BY <2>1, FlatBelow, LooksOf
  <2>3. IsPart(inner)
    BY <2>2 DEF Flat
  <2> HIDE DEF inner
  <2>4. Flat(body) /\ Under(body, {"body"}) /\ Looks(body) = Looks(inner)
    BY <2>2, <2>3, FlatBelow, LooksOf
  <2>5. "close" \notin {"body"}
    OBVIOUS
  <2> HIDE DEF body, act
  <2>6. Deeds(Dialog(act, RegistryFields)) = Deeds(Dialog(act, body))
    BY <2>1, <2>2, <2>4, <2>5, DialogsAgree, Zenon
  <2> QED BY <2>6, RegistrySettings DEF act
<1> HIDE DEF X, body
<1> QED BY <1>2, <1>3, RegistryWords, Zenon DEF X

(* On the registry's page each service that is listed and matches the      *)
(* filter is there once, to be opened; its components do what those of the *)
(* library would; and no click runs two handlers.                          *)
THEOREM RegistryScreenSound ==
  ASSUME R!TypeOK
  PROVE  R!ScreenSound
<1>1. ui.listed \subseteq Service /\ ui.mode \in {"detail", "json", "fallback", "iframe"}
  BY DEF R!TypeOK
<1>2. Catalogue(R!Screen, Kinds, "open", VisibleNames)
  BY <1>1, RegistryScreenParts
<1>3. R!OneHandler
  <2>1. Sound(R!Screen)
    BY <1>2 DEF Catalogue
  <2>2. \A e \in R!Screen : Cardinality(Fired(R!Screen, e)) <= 1
    BY <2>1, CalmFiresOne
  <2> QED BY <2>2, RegistryWords, Zenon DEF R!OneHandler
<1>4. R!ItemsShownOnce
  <2> SUFFICES ASSUME NEW s \in Service
               PROVE  Cardinality({e \in R!Screen : e.does = <<"open", s.name>>})
                        = IF s \in R!Visible THEN 1 ELSE 0
    BY RegistryWords, Zenon DEF R!ItemsShownOnce
  <2>1. {e \in R!Screen : e.does = <<"open", s.name>>} = Offering(R!Screen, Kinds, <<"open", s.name>>)
    BY <1>2 DEF Offering, Catalogue, Sound, IsPart, IsElement
  <2>2. s \in R!Visible <=> s.name \in VisibleNames
    BY <1>1, VisibleData, DataAssumption DEF VisibleNames
  <2>3. CASE s \in R!Visible
    <3>1. Once(R!Screen, Kinds, <<"open", s.name>>)
      BY <1>2, <2>2, <2>3 DEF Catalogue
    <3> QED BY <2>1, <2>3, <3>1, OfferedCount
  <2>4. CASE s \notin R!Visible
    <3>1. Never(R!Screen, Kinds, <<"open", s.name>>)
      BY <1>2, <2>2, <2>4 DEF Catalogue
    <3> QED BY <2>1, <2>4, <3>1, OfferedCount
  <2> QED BY <2>3, <2>4
<1>5. R!AsTheLibrary
  <2>1. ASSUME NEW s \in ui.listed
        PROVE  /\ R!Deeds({e \in R!ServiceTile(s) : e.at # <<"remove">>})
                    = R!Deeds(R!L!AmpTile(s.attention, <<"open", s.name>>) \union R!L!HealthPill(s.health))
               /\ \A selected \in BOOLEAN : R!Deeds(R!RailRow(s, selected))
                    = R!Deeds(R!L!AmpRailRow(s.attention, selected, <<"open", s.name>>)
                              \union R!L!HealthPill(s.health))
    <3>1. s \in Service
      BY <1>1
    <3> QED BY <3>1, RegistryLibraryTiles, Zenon
  <2>2. \A s \in {t \in R!Opened(ui) : ui.mode = "detail"} :
          R!Deeds({e \in R!Detail(s) : e.at # <<"deregister">>})
            = R!Deeds(R!L!ServiceDetail(s, s.health, <<"open here">>))
    <3>1. \A s \in R!Opened(ui) : s \in Service
      BY <1>1 DEF R!Opened
    <3> QED BY <3>1, RegistryLibraryDetail, Zenon
  <2>3. R!Deeds(R!Header) = R!Deeds(R!L!AmpHeader(
           R!Cardinality({s \in ui.listed : s.attention > 0}), <<"agent">>, ui.agent,
           R!When(R!Opened(ui) # {}, R!Below(<<"back">>, R!L!AmpTextControl(<<"back">>)))
           \union R!Below(<<"filter">>, R!L!AmpFilter(ui.filter, "filter"))
           \union R!Below(<<"settings">>, R!L!AmpTextControl(<<"show", "settings">>))))
    BY <1>1, RegistryLibraryHeader, RegistryWords, Zenon
  <2>4. R!Deeds(R!AgentPanel) = R!Deeds({e \in
          R!L!AmpAgentPanel(<<"type", "draft">>, <<"send">>, <<"close", "agent">>) : e.at # <<"powered">>})
    BY RegistryLibraryPanel, Zenon
  <2>5. R!Deeds(R!ViewerToolbar({})) = R!Deeds(R!L!ViewerHeader(TRUE, {}, <<"mode", "detail">>))
    BY RegistryLibraryViewer, Zenon
  <2> QED BY <2>1, <2>2, <2>3, <2>4, <2>5, RegistryLibrarySettings, Zenon DEF R!AsTheLibrary
<1> QED BY <1>3, <1>4, <1>5 DEF R!ScreenSound
-----------------------------------------------------------------------------
(* The directory's page.                                                   *)

(* The words of its module and of its copy of the library are those of     *)
(* Elements.                                                               *)
LEMMA DirectoryWords ==
  /\ D!NoAct = NoAct
  /\ \A at, kind, act, look : D!Element(at, kind, act, look) = Element(at, kind, act, look)
  /\ \A at, act : D!Button(at, act) = Element(at, "button", act, "")
  /\ \A at, act, look : D!Area(at, act, look) = Element(at, "area", act, look)
  /\ \A at : D!NewTab(at) = Element(at, "link", <<"new tab">>, "")
  /\ \A at, act : D!Input(at, act) = Element(at, "input", act, "")
  /\ \A at, act : D!Key(at, act) = Element(at, "key", act, "")
  /\ \A at, look : D!Mark(at, look) = Element(at, "mark", NoAct, look)
  /\ \A e : D!Stopping(e) = Stopping(e)
  /\ \A c, part : D!When(c, part) = When(c, part)
  /\ \A at, part : D!Below(at, part) = Below(at, part)
  /\ \A part, e : D!Fired(part, e) = Fired(part, e)
  /\ \A part : D!Deeds(part) = Deeds(part)
  /\ \A S : D!Cardinality(S) = Cardinality(S)
<1>1. /\ D!NoAct = NoAct
      /\ \A at, kind, act, look : D!Element(at, kind, act, look) = Element(at, kind, act, look)
  BY DEF D!NoAct, NoAct, D!Element, Element
<1>2. /\ \A at, act : D!Button(at, act) = Element(at, "button", act, "")
      /\ \A at, act, look : D!Area(at, act, look) = Element(at, "area", act, look)
      /\ \A at : D!NewTab(at) = Element(at, "link", <<"new tab">>, "")
      /\ \A at, act : D!Input(at, act) = Element(at, "input", act, "")
      /\ \A at, act : D!Key(at, act) = Element(at, "key", act, "")
      /\ \A at, look : D!Mark(at, look) = Element(at, "mark", NoAct, look)
  BY <1>1, Zenon DEF D!Button, D!Area, D!NewTab, D!Input, D!Key, D!Mark
<1>3. /\ \A e : D!Stopping(e) = Stopping(e)
      /\ \A c, part : D!When(c, part) = When(c, part)
      /\ \A at, part : D!Below(at, part) = Below(at, part)
  BY Zenon DEF D!Stopping, Stopping, D!When, When, D!Below, Below
<1>4. /\ \A part, e : D!Fired(part, e) = Fired(part, e)
      /\ \A part : D!Deeds(part) = Deeds(part)
  BY Zenon DEF D!Fired, Fired, D!Around, Around, D!Clicked, Clicked, D!Sequence!IsPrefix,
               Sequence!IsPrefix, D!NoAct, NoAct, D!Deeds, Deeds
<1>5. \A S : D!Cardinality(S) = Cardinality(S)
  BY Zenon DEF D!Cardinality, Cardinality
<1> QED BY <1>1, <1>2, <1>3, <1>4, <1>5, Zenon

LEMMA DirectoryLibrary ==
  /\ \A c, part : D!L!When(c, part) = When(c, part)
  /\ \A at, part : D!L!Below(at, part) = Below(at, part)
  /\ \A at, kind, act, look : D!L!Element(at, kind, act, look) = Element(at, kind, act, look)
  /\ \A at, act : D!L!Button(at, act) = Element(at, "button", act, "")
  /\ \A at, act, look : D!L!Area(at, act, look) = Element(at, "area", act, look)
  /\ \A at : D!L!NewTab(at) = Element(at, "link", <<"new tab">>, "")
  /\ \A at, act : D!L!Input(at, act) = Element(at, "input", act, "")
  /\ \A at, act : D!L!Key(at, act) = Element(at, "key", act, "")
  /\ \A at, look : D!L!Mark(at, look) = Element(at, "mark", NoAct, look)
  /\ \A e : D!L!Stopping(e) = Stopping(e)
  /\ D!L!NoAct = NoAct
<1>1. /\ D!L!NoAct = NoAct
      /\ \A at, kind, act, look : D!L!Element(at, kind, act, look) = Element(at, kind, act, look)
  BY DEF D!L!NoAct, NoAct, D!L!Element, Element
<1>2. /\ \A at, act : D!L!Button(at, act) = Element(at, "button", act, "")
      /\ \A at, act, look : D!L!Area(at, act, look) = Element(at, "area", act, look)
      /\ \A at : D!L!NewTab(at) = Element(at, "link", <<"new tab">>, "")
      /\ \A at, act : D!L!Input(at, act) = Element(at, "input", act, "")
      /\ \A at, act : D!L!Key(at, act) = Element(at, "key", act, "")
      /\ \A at, look : D!L!Mark(at, look) = Element(at, "mark", NoAct, look)
  BY <1>1, Zenon DEF D!L!Button, D!L!Area, D!L!NewTab, D!L!Input, D!L!Key, D!L!Mark
<1>3. /\ \A c, part : D!L!When(c, part) = When(c, part)
      /\ \A at, part : D!L!Below(at, part) = Below(at, part)
      /\ \A e : D!L!Stopping(e) = Stopping(e)
  BY Zenon DEF D!L!When, When, D!L!Below, Below, D!L!Stopping, Stopping
<1> QED BY <1>1, <1>2, <1>3, Zenon

(* The services that match the filter are those of the registry's page.    *)
LEMMA DirectoryVisible == D!Visible = R!Visible
  BY DEF D!Visible, R!Visible

(* A row: its area and its button open the service, on one click.          *)
LEMMA DirectoryRow ==
  ASSUME NEW s
  PROVE  Catalogue(D!ServiceRow(s), {"area"}, "open", {s.name})
<1> DEFINE cross == Stopping(Element(<<"remove">>, "button", <<"remove", s.name>>, ""))
           name == Stopping(Element(<<"name">>, "button", <<"open", s.name>>, ""))
           remove == When(s.dynamic, {cross})
           health == {Element(<<"health">>, "mark", NoAct, s.health)}
           look == IF s.name = ui.selected THEN "selected" ELSE ""
           top == {Element(<<>>, "area", <<"open", s.name>>, look)}
           rest == {name} \union health \union remove
<1>1. D!ServiceRow(s) = top \union rest
  <2>1. D!ServiceRow(s) = {Element(<<>>, "area", <<"open", s.name>>, look), name} \union health \union remove
    BY DirectoryWords, Zenon DEF D!ServiceRow, D!HealthPill
  <2> QED BY <2>1, Singles, Zenon
<1>2. /\ IsPlace(<<"remove">>) /\ Len(<<"remove">>) > 0 /\ <<"remove">>[1] = "remove"
      /\ IsPlace(<<"name">>) /\ Len(<<"name">>) > 0 /\ <<"name">>[1] = "name"
  BY Place1, Zenon
<1>3. /\ IsElement(cross) /\ cross.at = <<"remove">> /\ cross.kind = "button" /\ cross.stops
  BY StoppingButton, Zenon
<1>4. /\ IsElement(name) /\ name.at = <<"name">> /\ name.kind = "button" /\ name.stops
  BY StoppingButton, Zenon
<1>5. Sound(health) /\ Under(health, {"health"}) /\ Mute(health)
  BY PlainAt1, MuteElement, Place1, ActsHere, KindsAre, Zenon DEF Plain
<1> HIDE DEF cross, name
<1>6. Sound({cross}) /\ Under({cross}, {"remove"}) /\ Sound({name}) /\ Under({name}, {"name"})
  BY <1>2, <1>3, <1>4 DEF Sound, IsPart, Calm, Under
<1>7. Sound(remove) /\ Under(remove, {"remove"})
  BY <1>6, SoundWhen
<1> HIDE DEF health
<1>8. Sound(rest)
  <2>1. {"name"} \intersect {"health"} = {} /\ ({"name"} \union {"health"}) \intersect {"remove"} = {}
    OBVIOUS
  <2>2. Sound({name} \union health) /\ Under({name} \union health, {"name"} \union {"health"})
    BY <1>5, <1>6, <2>1, SoundHeads, Zenon
  <2> QED BY <1>7, <2>1, <2>2, SoundHeads, Zenon
<1>9. Shielded(rest)
  BY <1>2, <1>3, <1>4, <1>5, InsideItself DEF Shielded, Mute, When, Clicked
<1>10. \A m : Never(rest, {"area"}, <<"open", m>>)
  <2>1. \A e \in health : e.kind = "mark"
    BY Place1, ElementsAre, KindsAre DEF health
  <2> QED BY <1>3, <1>4, <2>1 DEF Never, Offering, When
<1> HIDE DEF rest
<1>11. "area" \in {"area"}
  OBVIOUS
<1>12. \A l : Catalogue({Element(<<>>, "area", <<"open", s.name>>, l)} \union rest, {"area"}, "open", {s.name})
  BY <1>8, <1>9, <1>10, <1>11, TileShows
<1> QED BY <1>1, <1>12, Zenon

LEMMA DirectoryRows ==
  ASSUME ui.listed \subseteq Service, NEW n
  PROVE  Catalogue(D!NodeGroup(VisibleAt(n)), {"area"}, "open", NamesAt(n))
<1> DEFINE S == VisibleAt(n)
           P == [s \in S |-> <<s.name>>]
           G == [s \in S |-> Below(<<s.name>>, D!ServiceRow(s))]
           rows == {Below(<<s.name>>, D!ServiceRow(s)) : s \in S}
           mark == {Element(<<"reachable">>, "mark", NoAct, "reachable")}
           kinds == {"area"}
           none == {}
<1>1. /\ \A s, t \in S : s.name = t.name => s = t
      /\ \A x : x \in NamesAt(n) <=> \E s \in S : x = s.name
  BY VisibleData DEF VisibleAt, NamesAt
<1>2. /\ \A s \in S : P[s] = <<s.name>>
      /\ \A s \in S : G[s] = Below(<<s.name>>, D!ServiceRow(s))
  BY Zenon
<1>3. /\ \A s \in S : IsPlace(P[s])
      /\ \A s, t \in S : s.name # t.name => Differ(P[s], P[t])
  BY <1>2, Place1, DifferAt, Zenon
<1> HIDE DEF P, G
<1>4. Family(rows, S, G)
  BY <1>2 DEF Family
<1>5. \A s \in S : \E row : G[s] = Below(P[s], row) /\ Catalogue(row, kinds, "open", {s.name})
  BY <1>2, DirectoryRow, Zenon
<1>6. Plain(mark) /\ Mute(mark)
  BY PlainAt1, MuteElement, Place1, ActsHere, KindsAre, Zenon
<1>7. D!NodeGroup(S) = When(S # {}, mark \union UNION rows)
  BY Zenon DEF D!NodeGroup, D!Below, Below, D!When, When, D!Mark, D!Element, Element, D!NoAct, NoAct
<1>8. S = {} => NamesAt(n) = {} /\ D!NodeGroup(S) = {}
  BY <1>7 DEF NamesAt, When
<1>9. S # {} => D!NodeGroup(S) = mark \union UNION rows
  BY <1>7, Zenon DEF When
<1>10. VisibleAt(n) = S
  OBVIOUS
<1> HIDE DEF S, rows, mark, kinds
<1>11. Listing(rows, S, P, G, NamesAt(n), kinds, "open")
  BY <1>1, <1>3, <1>4, <1>5, Zenon DEF Listing
<1>12. Catalogue(UNION rows, kinds, "open", NamesAt(n))
  BY <1>11, RowsByName, Zenon
<1>13. Catalogue(mark \union UNION rows, kinds, "open", NamesAt(n))
  BY <1>12, <1>6, ActsHere, CatalogueBeside, Zenon
<1>14. Catalogue({}, kinds, "open", {})
  BY PlainNothing, PlainIsCatalogue, ActsHere, Zenon
<1>15. Catalogue(D!NodeGroup(S), kinds, "open", NamesAt(n))
  <2>1. CASE S = {}
    BY <1>8, <1>14, <2>1, Zenon
  <2>2. CASE S # {}
    BY <1>9, <1>13, <2>2, Zenon
  <2> QED BY <2>1, <2>2
<1> QED BY <1>15, <1>10 DEF kinds

LEMMA DirectorySidebarParts ==
  ASSUME ui.listed \subseteq Service
  PROVE  Catalogue(D!Sidebar, {"area"}, "open", VisibleNames)
<1> DEFINE filter == {Element(<<"filter">>, "input", <<"type", "filter">>, "")}
           collapse == {Element(<<"collapse">>, "button", <<"collapse">>, "")}
           text == {Element(<<"empty">>, "mark", NoAct, "No services match this filter.")}
           empty == When(D!Visible = {}, text)
           rows(n) == D!NodeGroup(VisibleAt(n))
           S == Node
           G == [n \in S |-> Below(<<"node", n>>, rows(n))]
           N == [n \in S |-> NamesAt(n)]
           parts == {Below(<<"node", n>>, rows(n)) : n \in S}
           kinds == {"area"}
           others == filter \union collapse \union empty
<1>1. D!Sidebar = others \union UNION parts
  <2>1. \A n : {s \in D!Visible : s.origin = n} = VisibleAt(n)
    BY DirectoryVisible DEF VisibleAt
  <2>2. D!Sidebar = {Element(<<"filter">>, "input", <<"type", "filter">>, ""),
                     Element(<<"collapse">>, "button", <<"collapse">>, "")} \union empty
           \union UNION {Below(<<"node", n>>, D!NodeGroup({s \in D!Visible : s.origin = n})) : n \in Node}
    BY DirectoryWords, Zenon DEF D!Sidebar, D!Below, Below, D!When, When
  <2>3. parts = {Below(<<"node", n>>, D!NodeGroup({s \in D!Visible : s.origin = n})) : n \in Node}
    BY <2>1
  <2>4. {Element(<<"filter">>, "input", <<"type", "filter">>, ""),
         Element(<<"collapse">>, "button", <<"collapse">>, "")} = filter \union collapse
    BY Singles, Zenon
  <2> HIDE DEF parts
  <2> QED BY <2>2, <2>3, <2>4, Zenon
<1>2. /\ Plain(filter) /\ Under(filter, {"filter"}) /\ Plain(collapse) /\ Under(collapse, {"collapse"})
      /\ Plain(text) /\ Under(text, {"empty"})
  BY PlainAt1, ActsHere, KindsAre, Zenon
<1> HIDE DEF filter, collapse, text
<1>3. Plain(empty) /\ Under(empty, {"empty"})
  BY <1>2, PlainWhen
<1> HIDE DEF empty
<1>4. Plain(others) /\ Under(others, {"filter"} \union {"collapse"} \union {"empty"})
  BY <1>2, <1>3, PlainThree, Zenon
<1>5. \A n : Catalogue(rows(n), kinds, "open", NamesAt(n))
  BY DirectoryRows
<1> HIDE DEF rows, kinds, others
<1>6. Family(parts, S, G)
  BY DEF Family
<1>7. /\ \A n \in S : N[n] = NamesAt(n) /\ G[n] = Below(<<"node", n>>, rows(n))
      /\ Gather(VisibleNames, S, N)
  BY VisibleData
<1>8. \A m, n \in S : m # n => N[m] \intersect N[n] = {}
  BY <1>7, VisibleData
<1> HIDE DEF G, N, parts, S
<1>9. \A n \in S : \E section : /\ G[n] = Below(<<"node", n>>, section)
                                /\ Catalogue(section, kinds, "open", N[n])
  BY <1>5, <1>7, Zenon
<1>10. Catalogue(UNION parts, kinds, "open", VisibleNames) /\ Under(UNION parts, {"node"})
  <2>1. Sectioned(parts, S, "node", G, N, VisibleNames, kinds, "open")
    BY <1>6, <1>7, <1>8, <1>9, Zenon DEF Sectioned
  <2> QED BY <2>1, Sections, Zenon
<1>11. {"node"} \intersect ({"filter"} \union {"collapse"} \union {"empty"}) = {} /\ "open" \in Shows
  BY ActsHere, Zenon
<1>12. Catalogue(others \union UNION parts, kinds, "open", VisibleNames)
  BY <1>4, <1>10, <1>11, CataloguePlain, Zenon
<1> QED BY <1>1, <1>12 DEF kinds

LEMMA DirectoryDetail == ASSUME NEW s PROVE Plain(D!ServiceDetail(s))
<1> DEFINE open == {Element(<<"open here">>, "button", <<"open here", s.name>>, "")}
           health == {Element(<<"health">>, "mark", NoAct, s.health)}
           doc == {Element(<<"docs">>, "link", <<"new tab">>, "")}
           links == {Element(<<"address", l>>, "link", <<"new tab">>, "") : l \in s.links}
           d == When(s.docs, doc)
<1>1. D!ServiceDetail(s) = health \union d \union links \union open
  BY Zenon DEF D!ServiceDetail, D!HealthPill, D!Mark, D!Button, D!NewTab, D!When, When, D!Element,
               Element, D!NoAct, NoAct
<1>2. Plain(open) /\ Under(open, {"open here"}) /\ Plain(doc) /\ Under(doc, {"docs"})
  BY PlainAt1, ActsHere, KindsAre, Zenon
<1>3. Plain(health) /\ Under(health, {"health"})
  BY PlainAt1, ActsHere, KindsAre, Zenon
<1>4. Plain(links) /\ Under(links, {"address"})
  BY AddressesPlain, Zenon
<1> HIDE DEF open, health, doc, links
<1>5. Plain(d) /\ Under(d, {"docs"})
  BY <1>2, PlainWhen, Zenon
<1> HIDE DEF d
<1>6. Plain(health \union d \union links \union open)
  BY <1>2, <1>3, <1>4, <1>5, PlainFour, Zenon
<1> QED BY <1>1, <1>6

(* Every view but the detail can be left.                                  *)
LEMMA DirectoryViewerParts ==
  ASSUME NEW s, ui.mode \in {"detail", "json", "fallback", "iframe"}
  PROVE  Plain(D!Viewer(s)) /\ (ui.mode # "detail" => Offers(D!Viewer(s), <<"close">>))
<1> DEFINE tab == {Element(<<"new tab">>, "link", <<"new tab">>, "")}
           close == {Element(<<"close">>, "button", <<"close">>, "")}
           refresh == {Element(<<"refresh">>, "button", <<"refresh">>, "")}
           auto == {Element(<<"auto">>, "button", <<"auto">>, "")}
           escape == {Element(<<"escape">>, "link", <<"new tab">>, "")}
           reload == {Element(<<"reload">>, "button", NoAct, "")}
<1>1. /\ Plain(tab) /\ Under(tab, {"new tab"}) /\ Plain(close) /\ Under(close, {"close"})
      /\ Plain(escape) /\ Under(escape, {"escape"})
  BY PlainAt1, ActsHere, KindsAre, Zenon
<1>2. /\ Plain(refresh) /\ Under(refresh, {"refresh"}) /\ Plain(auto) /\ Under(auto, {"auto"})
      /\ Plain(reload) /\ Under(reload, {"reload"})
  BY PlainAt1, ActsHere, KindsAre, Zenon
<1>3. /\ D!ViewerHeader({}) = tab \union close
      /\ D!ViewerHeader({D!Button(<<"reload">>, D!NoAct)}) = reload \union tab \union close
      /\ D!ViewerHeader({D!Button(<<"refresh">>, <<"refresh">>), D!Button(<<"auto">>, <<"auto">>)})
           = refresh \union auto \union tab \union close
  <2>1. \A actions : D!ViewerHeader(actions) = actions \union (tab \union close)
    <3>1. \A actions : D!ViewerHeader(actions) = actions \union
            {Element(<<"new tab">>, "link", <<"new tab">>, ""),
             Element(<<"close">>, "button", <<"close">>, "")}
      BY DirectoryWords, Zenon DEF D!ViewerHeader
    <3> QED BY <3>1, Singles, Zenon
  <2>2. /\ {D!Button(<<"reload">>, D!NoAct)} = reload
        /\ {D!Button(<<"refresh">>, <<"refresh">>), D!Button(<<"auto">>, <<"auto">>)} = refresh \union auto
    BY DirectoryWords, Singles, Zenon
  <2> HIDE DEF tab, close, reload, refresh, auto
  <2> QED BY <2>1, <2>2, Singles, Zenon
<1>4. {D!NewTab(<<"escape">>)} = escape
  BY DirectoryWords, Zenon
<1>5. \A part : Offers(close \union part, <<"close">>)
  <2>1. Element(<<"close">>, "button", <<"close">>, "").does = <<"close">>
    BY DEF Element
  <2> QED BY <2>1, Zenon DEF Offers
<1> HIDE DEF tab, close, refresh, auto, escape, reload
<1>6. /\ Plain(refresh \union auto \union tab \union close)
      /\ Offers(refresh \union auto \union tab \union close, <<"close">>)
  BY <1>1, <1>2, <1>5, PlainFour, Singles, Zenon
<1>7. /\ Plain(reload \union tab \union close) /\ Plain(tab \union close \union escape)
      /\ Offers(reload \union tab \union close, <<"close">>)
      /\ Offers(tab \union close \union escape, <<"close">>)
  <2>1. Plain(reload \union tab \union close) /\ Plain(tab \union close \union escape)
    BY <1>1, <1>2, PlainThree, Zenon
  <2>2. tab \union close \union escape = close \union (tab \union escape)
    OBVIOUS
  <2> QED BY <1>5, <2>1, <2>2, Singles, Zenon
<1>8. CASE ui.mode = "detail"
  BY <1>8, DirectoryDetail DEF D!Viewer
<1>9. CASE ui.mode = "json"
  BY <1>3, <1>6, <1>9 DEF D!Viewer
<1>10. CASE ui.mode = "fallback"
  BY <1>3, <1>4, <1>7, <1>10 DEF D!Viewer
<1>11. CASE ui.mode = "iframe"
  BY <1>3, <1>7, <1>11 DEF D!Viewer
<1> QED BY <1>8, <1>9, <1>10, <1>11

LEMMA DirectoryWelcome == Plain(D!ViewerWelcome \union D!RegisterPanel)
<1> DEFINE welcome == {Element(<<"welcome">>, "mark", NoAct, "welcome")}
           title == {Element(<<"title">>, "area", <<"register">>, "")}
           add == {Element(<<"add">>, "button", NoAct, "")}
           shown == When(ui.register, add)
<1>1. D!ViewerWelcome = welcome /\ D!RegisterPanel = title \union shown
  BY DirectoryWords, Zenon DEF D!ViewerWelcome, D!RegisterPanel
<1>2. /\ Plain(welcome) /\ Under(welcome, {"welcome"}) /\ Plain(title) /\ Under(title, {"title"})
      /\ Plain(add) /\ Under(add, {"add"})
  BY PlainAt1, ActsHere, KindsAre, Zenon
<1> HIDE DEF welcome, title, add
<1>3. Plain(shown) /\ Under(shown, {"add"})
  BY <1>2, PlainWhen
<1> HIDE DEF shown
<1>4. Plain(welcome \union title \union shown)
  BY <1>2, <1>3, PlainThree, Zenon
<1> QED BY <1>1, <1>4, Singles, Zenon

-----------------------------------------------------------------------------
(* What is in the settings' panel.                                         *)
DirectoryFields ==
  {Element(<<"close">>, "button", <<"close", "settings">>, "")}
  \union {Element(<<"peer">>, "mark", NoAct, "reachable")}
  \union {Element(<<"peer", "remove">>, "button", NoAct, "")}
  \union {Element(<<"issue">>, "button", <<"issue">>, "")}
  \union {Element(<<"pair">>, "button", NoAct, "")}
  \union When(ui.code, {Element(<<"code">>, "mark", NoAct, "code")})
DirectoryToken == {Element(<<"token">>, "input", <<"type", "token">>, "")}

LEMMA DirectoryFieldsPlain == Plain(DirectoryFields) /\ Plain(DirectoryToken) /\ Mute(DirectoryToken)
<1> DEFINE close == {Element(<<"close">>, "button", <<"close", "settings">>, "")}
           peer == {Element(<<"peer">>, "mark", NoAct, "reachable")}
           remove == {Element(<<"peer", "remove">>, "button", NoAct, "")}
           issue == {Element(<<"issue">>, "button", <<"issue">>, "")}
           pair == {Element(<<"pair">>, "button", NoAct, "")}
           code == {Element(<<"code">>, "mark", NoAct, "code")}
           shown == When(ui.code, code)
<1>1. /\ Plain(close) /\ Under(close, {"close"}) /\ Plain(issue) /\ Under(issue, {"issue"})
      /\ Plain(pair) /\ Under(pair, {"pair"}) /\ Plain(code) /\ Under(code, {"code"})
      /\ Plain(peer) /\ Plain(DirectoryToken)
  BY PlainAt1, ActsHere, KindsAre, Zenon DEF DirectoryToken
<1>2. Mute(peer) /\ Mute(remove) /\ Plain(remove) /\ Mute(DirectoryToken)
  BY MuteElement, Place1, Place2, OneElement, ActsHere, KindsAre, Zenon DEF DirectoryToken
<1>3. DirectoryFields = close \union peer \union remove \union issue \union pair \union shown
  BY DEF DirectoryFields
<1> HIDE DEF close, peer, remove, issue, pair, code
<1>4. Plain(shown) /\ Under(shown, {"code"})
  BY <1>1, PlainWhen
<1> HIDE DEF shown
<1>5. Plain(close \union issue \union pair \union shown)
  BY <1>1, <1>4, PlainFour, Zenon
<1>6. Plain(peer \union remove) /\ Mute(peer \union remove)
  <2>1. Plain(peer \union remove)
    BY <1>1, <1>2, PlainBeside DEF Plain
  <2> QED BY <1>2, <2>1 DEF Mute
<1>7. Plain((close \union issue \union pair \union shown) \union (peer \union remove))
  BY <1>5, <1>6, PlainBeside DEF Plain
<1>8. DirectoryFields = (close \union issue \union pair \union shown) \union (peer \union remove)
  BY <1>3
<1> QED BY <1>1, <1>2, <1>7, <1>8

DirectoryPanel == Stopping(Element(<<"panel">>, "area", NoAct, ""))

LEMMA DirectoryOverlay ==
  D!SettingsOverlay = {Element(<<>>, "area", <<"close", "settings">>, "")}
    \union ({DirectoryPanel} \union (Below(<<"panel">>, DirectoryFields)
                                     \union Below(<<"panel">>, DirectoryToken)))
<1> DEFINE at(x) == <<"panel", x>>
           top == {Element(<<>>, "area", <<"close", "settings">>, "")}
           close == {Element(at("close"), "button", <<"close", "settings">>, "")}
           token == {Element(at("token"), "input", <<"type", "token">>, "")}
           peer == {Element(at("peer"), "mark", NoAct, "reachable")}
           remove == {Element(<<"panel", "peer", "remove">>, "button", NoAct, "")}
           issue == {Element(at("issue"), "button", <<"issue">>, "")}
           pair == {Element(at("pair"), "button", NoAct, "")}
           code == {Element(at("code"), "mark", NoAct, "code")}
           shown == When(ui.code, code)
<1>1. D!SettingsOverlay = top \union {DirectoryPanel} \union close \union token \union peer \union remove
                          \union issue \union pair \union shown
  <2>1. D!SettingsOverlay =
          {Element(<<>>, "area", <<"close", "settings">>, ""), DirectoryPanel,
           Element(at("close"), "button", <<"close", "settings">>, ""),
           Element(at("token"), "input", <<"type", "token">>, ""),
           Element(at("peer"), "mark", NoAct, "reachable"),
           Element(<<"panel", "peer", "remove">>, "button", NoAct, ""),
           Element(at("issue"), "button", <<"issue">>, ""), Element(at("pair"), "button", NoAct, "")}
          \union shown
    BY DirectoryWords, Zenon DEF D!SettingsOverlay, DirectoryPanel
  <2>2. \A a, b, c, d, e, f, g, h : {a, b, c, d, e, f, g, h}
          = {a} \union {b} \union {c} \union {d} \union {e} \union {f} \union {g} \union {h}
    OBVIOUS
  <2> HIDE DEF shown
  <2> QED BY <2>1, <2>2, Zenon
<1>2. \A x : \A kind \in Kinds : \A act, look :
        Below(<<"panel">>, {Element(<<x>>, kind, act, look)}) = {Element(at(x), kind, act, look)}
  BY BelowAt1
<1>3. \A x, y : \A kind \in Kinds : \A act, look :
        Below(<<"panel">>, {Element(<<x, y>>, kind, act, look)}) = {Element(<<"panel", x, y>>, kind, act, look)}
  BY BelowAt2
<1> HIDE DEF at
<1>4. Below(<<"panel">>, {Element(<<"close">>, "button", <<"close", "settings">>, "")}) = close
  BY <1>2, KindsAre, Zenon
<1>5. Below(<<"panel">>, {Element(<<"token">>, "input", <<"type", "token">>, "")}) = token
  BY <1>2, KindsAre, Zenon
<1>6. Below(<<"panel">>, {Element(<<"peer">>, "mark", NoAct, "reachable")}) = peer
  BY <1>2, KindsAre
<1>7. Below(<<"panel">>, {Element(<<"peer", "remove">>, "button", NoAct, "")}) = remove
  <2> DEFINE r == "remove"
             p == "peer"
             b == "button"
  <2>1. b \in Kinds
    BY KindsAre
  <2> HIDE DEF r, p, b
  <2>2. \A act, look : Below(<<"panel">>, {Element(<<p, r>>, b, act, look)})
                         = {Element(<<"panel", p, r>>, b, act, look)}
    BY <1>3, <2>1
  <2> QED BY <2>2, Zenon DEF r, p, b
<1>8. Below(<<"panel">>, {Element(<<"issue">>, "button", <<"issue">>, "")}) = issue
  BY <1>2, KindsAre, Zenon
<1>9. Below(<<"panel">>, {Element(<<"pair">>, "button", NoAct, "")}) = pair
  BY <1>2, KindsAre, Zenon
<1>10. Below(<<"panel">>, {Element(<<"code">>, "mark", NoAct, "code")}) = code
  BY <1>2, KindsAre
<1>11. Below(<<"panel">>, When(ui.code, {Element(<<"code">>, "mark", NoAct, "code")})) = shown
  <2> DEFINE c == {Element(<<"code">>, "mark", NoAct, "code")}
             d == <<"panel">>
  <2>1. Below(d, c) = code
    BY <1>10
  <2> HIDE DEF c, d
  <2>2. Below(d, When(ui.code, c)) = When(ui.code, Below(d, c))
    BY BelowParts, Zenon
  <2> QED BY <2>1, <2>2, Zenon DEF c, d
<1> HIDE DEF close, token, peer, remove, issue, pair, code, shown
<1>12. Below(<<"panel">>, DirectoryFields)
         = close \union peer \union remove \union issue \union pair \union shown
  <2> DEFINE d == <<"panel">>
             c == {Element(<<"close">>, "button", <<"close", "settings">>, "")}
             p == {Element(<<"peer">>, "mark", NoAct, "reachable")}
             r == {Element(<<"peer", "remove">>, "button", NoAct, "")}
             i == {Element(<<"issue">>, "button", <<"issue">>, "")}
             q == {Element(<<"pair">>, "button", NoAct, "")}
             w == When(ui.code, {Element(<<"code">>, "mark", NoAct, "code")})
  <2>1. /\ Below(d, c) = close /\ Below(d, p) = peer /\ Below(d, r) = remove /\ Below(d, i) = issue
        /\ Below(d, q) = pair /\ Below(d, w) = shown
    BY <1>4, <1>6, <1>7, <1>8, <1>9, <1>11, Zenon
  <2>2. DirectoryFields = c \union p \union r \union i \union q \union w
    BY DEF DirectoryFields
  <2> HIDE DEF d, c, p, r, i, q, w
  <2>3. /\ Below(d, c \union p \union r \union i \union q \union w)
             = Below(d, c \union p \union r \union i \union q) \union Below(d, w)
        /\ Below(d, c \union p \union r \union i \union q) = Below(d, c \union p \union r \union i) \union Below(d, q)
        /\ Below(d, c \union p \union r \union i) = Below(d, c \union p \union r) \union Below(d, i)
    BY BelowParts
  <2>4. /\ Below(d, c \union p \union r) = Below(d, c \union p) \union Below(d, r)
        /\ Below(d, c \union p) = Below(d, c) \union Below(d, p)
    BY BelowParts
  <2> QED BY <2>1, <2>2, <2>3, <2>4, Zenon DEF d
<1>13. Below(<<"panel">>, DirectoryToken) = token
  BY <1>5, Zenon DEF DirectoryToken
<1> HIDE DEF top
<1> QED BY <1>1, <1>12, <1>13, Zenon DEF top

LEMMA DirectoryOverlayPlain == Plain(D!SettingsOverlay)
<1> DEFINE top == {Element(<<>>, "area", <<"close", "settings">>, "")}
           inner == Below(<<"panel">>, DirectoryFields) \union Below(<<"panel">>, DirectoryToken)
           rest == inner \union {DirectoryPanel}
<1>1. /\ IsElement(DirectoryPanel) /\ DirectoryPanel.at = <<"panel">> /\ DirectoryPanel.does = NoAct
      /\ Clicked(DirectoryPanel) /\ DirectoryPanel.stops
  <2> DEFINE p == <<"panel">>
             k == "area"
             l == ""
             e == Stopping(Element(p, k, NoAct, l))
  <2>1. IsPlace(p) /\ k \in Kinds
    BY Place1, KindsAre
  <2> HIDE DEF p, k, l
  <2>2. IsElement(e) /\ e.at = p /\ e.kind = k /\ e.does = NoAct /\ e.stops
    BY <2>1, ElementsAre
  <2>3. e = DirectoryPanel
    BY DEF DirectoryPanel, p, k, l
  <2> HIDE DEF e
  <2> QED BY <2>2, <2>3 DEF p, k, l, Clicked
<1>2. Plain(inner) /\ Under(inner, {"panel"})
  <2>1. Plain(DirectoryFields \union DirectoryToken)
    BY DirectoryFieldsPlain, PlainBeside DEF Plain
  <2>2. /\ Plain(Below(<<"panel">>, DirectoryFields \union DirectoryToken))
        /\ Under(Below(<<"panel">>, DirectoryFields \union DirectoryToken), {"panel"})
    BY <2>1, PlainBelow
  <2>3. Below(<<"panel">>, DirectoryFields \union DirectoryToken) = inner
    BY BelowParts
  <2> HIDE DEF inner
  <2> QED BY <2>2, <2>3
<1> HIDE DEF inner
<1>3. Plain({DirectoryPanel}) /\ Mute({DirectoryPanel})
  <2>1. Sound({DirectoryPanel}) /\ Mute({DirectoryPanel})
    BY <1>1 DEF Sound, IsPart, Calm, Mute, Acts
  <2> QED BY <1>1, <2>1, ActsHere, QuietIsPlain, Zenon
<1>4. Plain(rest)
  BY <1>2, <1>3, PlainBeside DEF Plain
<1>5. Shielded(rest)
  <2>1. \A e \in inner : Inside(<<"panel">>, e.at)
    <3>1. Len(<<"panel">>) = 1 /\ <<"panel">>[1] = "panel"
      BY Place1
    <3>2. \A e \in inner : Len(e.at) \in Nat
      BY <1>2, LengthOfPlace DEF Plain, Sound, IsPart, IsElement
    <3> QED BY <1>2, <3>1, <3>2 DEF Under, Inside
  <2>2. Len(<<"panel">>) > 0
    BY Place1
  <2> QED BY <1>1, <1>3, <2>1, <2>2 DEF Shielded, Mute
<1> HIDE DEF rest
<1>6. Sound(top \union rest)
  BY <1>4, <1>5, AreaOver, Zenon DEF Plain
<1>7. Plain(top)
  BY PlainHere, ActsHere, KindsAre, Zenon
<1> HIDE DEF top
<1>8. Plain(top \union rest)
  BY <1>4, <1>6, <1>7, OfferedPair DEF Plain
<1>9. D!SettingsOverlay = top \union rest
  BY DirectoryOverlay, Zenon DEF top, rest, inner
<1> QED BY <1>8, <1>9

LEMMA OffersIn ==
  /\ \A p, q, act : Offers(p, act) => Offers(p \union q, act) /\ Offers(q \union p, act)
  /\ \A x, part, act : IsPart(part) /\ Offers(part, act) => Offers(Below(<<x>>, part), act)
<1>1. \A p, q, act : Offers(p, act) => Offers(p \union q, act) /\ Offers(q \union p, act)
  BY DEF Offers
<1>2. ASSUME NEW x, NEW part, NEW act, IsPart(part), Offers(part, act)
      PROVE  Offers(Below(<<x>>, part), act)
  <2> DEFINE p == <<x>>
  <2>1. IsPlace(p)
    BY Place1
  <2> HIDE DEF p
  <2>2. Below(p, part) = {Moves(e, p) : e \in part} /\ \A e \in part : Moves(e, p).does = e.does
    BY <1>2, <2>1, BelowMoves
  <2>3. Offers(Below(p, part), act)
    BY <1>2, <2>2 DEF Offers
  <2> QED BY <2>3 DEF p
<1> QED BY <1>1, <1>2

LEMMA DirectoryScreenParts ==
  ASSUME ui.listed \subseteq Service,
         ui.mode \in {"welcome", "detail", "json", "fallback", "iframe"}
  PROVE  /\ Catalogue(D!Screen, {"area"}, "open", VisibleNames)
         /\ ui.mode \notin {"welcome", "detail"} /\ D!Shown(ui) # {} => Offers(D!Screen, <<"close">>)
<1> DEFINE kinds == {"area"}
           header == {Element(<<"header", "settings">>, "button", <<"show", "settings">>, "")}
           sidebar == Below(<<"sidebar">>, D!Sidebar)
           button == {Element(<<"expand">>, "button", <<"expand">>, "")}
           expand == When(ui.collapsed, button)
           view == IF D!Shown(ui) = {} THEN D!ViewerWelcome \union D!RegisterPanel
                   ELSE UNION {D!Viewer(s) : s \in D!Shown(ui)}
           viewer == Below(<<"viewer">>, view)
           overlay == Below(<<"settings">>, D!SettingsOverlay)
           settings == When(ui.settings, overlay)
           others == header \union expand \union viewer \union settings
           X == {"header"} \union {"expand"} \union {"viewer"} \union {"settings"}
<1>1. D!Screen = header \union sidebar \union expand \union viewer \union settings
  BY DirectoryWords, Zenon DEF D!Screen
<1>2. /\ Plain(view)
      /\ ui.mode \notin {"welcome", "detail"} /\ D!Shown(ui) # {} => Offers(view, <<"close">>)
  <2>1. CASE D!Shown(ui) = {}
    BY <2>1, DirectoryWelcome
  <2>2. CASE D!Shown(ui) # {}
    <3>1. PICK s : s \in D!Shown(ui)
      BY <2>2
    <3>2. D!Shown(ui) = {s}
      BY <3>1, DataAssumption DEF D!Shown
    <3>3. view = D!Viewer(s)
      BY <2>2, <3>2
    <3>4. ui.mode \in {"detail", "json", "fallback", "iframe"}
      BY <3>1 DEF D!Shown
    <3> HIDE DEF view
    <3> QED BY <3>3, <3>4, DirectoryViewerParts
  <2> QED BY <2>1, <2>2
<1>3. /\ Plain(header) /\ Under(header, {"header"}) /\ Plain(button) /\ Under(button, {"expand"})
  <2>1. IsPlace(<<"header", "settings">>) /\ Len(<<"header", "settings">>) > 0
        /\ <<"header", "settings">>[1] = "header"
    BY Place2
  <2>2. Plain(header) /\ Under(header, {"header"})
    BY <2>1, OneElement, ActsHere, KindsAre, Zenon
  <2> QED BY <2>2, PlainAt1, ActsHere, KindsAre, Zenon
<1>4. Plain(overlay) /\ Under(overlay, {"settings"})
  BY DirectoryOverlayPlain, PlainBelow
<1> HIDE DEF header, button, overlay, view
<1>5. /\ Plain(expand) /\ Under(expand, {"expand"}) /\ Plain(settings) /\ Under(settings, {"settings"})
      /\ Plain(viewer) /\ Under(viewer, {"viewer"})
  BY <1>2, <1>3, <1>4, PlainWhen, PlainBelow
<1>6. ui.mode \notin {"welcome", "detail"} /\ D!Shown(ui) # {} => Offers(viewer, <<"close">>)
  BY <1>2, OffersIn DEF Plain, Sound
<1> HIDE DEF expand, settings, viewer
<1>7. Plain(others) /\ Under(others, X)
  BY <1>3, <1>5, PlainFour, Zenon
<1>8. Catalogue(sidebar, kinds, "open", VisibleNames) /\ Under(sidebar, {"sidebar"})
  <2>1. Catalogue(D!Sidebar, kinds, "open", VisibleNames)
    BY DirectorySidebarParts
  <2> HIDE DEF kinds
  <2>2. IsPart(D!Sidebar)
    BY <2>1 DEF Catalogue, Sound
  <2> QED BY <2>1, <2>2, Place1, CatalogueBelow, UnderBelow
<1>9. {"sidebar"} \intersect X = {} /\ "open" \in Shows
  BY ActsHere, Zenon
<1>10. D!Screen = sidebar \union others
  BY <1>1
<1> HIDE DEF kinds, sidebar, X
<1>11. Catalogue(sidebar \union others, kinds, "open", VisibleNames)
  BY <1>7, <1>8, <1>9, CataloguePlain
<1>12. ui.mode \notin {"welcome", "detail"} /\ D!Shown(ui) # {} => Offers(D!Screen, <<"close">>)
  BY <1>1, <1>6, OffersIn
<1> QED BY <1>10, <1>11, <1>12 DEF kinds

-----------------------------------------------------------------------------
(* What the components of the library are, as this page uses them.         *)
LEMMA DirectoryHealth == \A s \in Service : D!Health[s.name] = s.health
<1> SUFFICES ASSUME NEW s \in Service PROVE D!Health[s.name] = s.health
  OBVIOUS
<1>1. s.name \in D!Names(Service)
  BY DEF D!Names
<1>2. (CHOOSE t \in Service : t.name = s.name) = s
  BY DataAssumption
<1> QED BY <1>1, <1>2 DEF D!Health

LEMMA DirectoryLibraryRow ==
  ASSUME NEW s \in Service
  PROVE  D!ServiceRow(s) = D!L!ServiceRow(s, D!Health[s.name], ui.selected = s.name, TRUE,
                                          <<"open", s.name>>, <<"remove", s.name>>)
<1> DEFINE look == IF s.name = ui.selected THEN "selected" ELSE ""
           a == <<"open", s.name>>
           r == <<"remove", s.name>>
           two == {Element(<<>>, "area", a, look), Stopping(Element(<<"name">>, "button", a, ""))}
           health == {Element(<<"health">>, "mark", NoAct, s.health)}
           remove == {Stopping(Element(<<"remove">>, "button", r, ""))}
           addresses == {D!L!NewTab(<<"address", l>>) : l \in s.links}
           docs == {D!L!Element(<<"docs">>, "link", <<"leave">>, "")}
<1>1. D!ServiceRow(s) = two \union health \union When(s.dynamic, remove)
  BY DirectoryWords, Zenon DEF D!ServiceRow, D!HealthPill
<1>2. D!L!HealthPill(D!Health[s.name]) = health
  <2>1. (IF s.health \in {"up", "down"} THEN s.health ELSE "unknown") = s.health
    BY DataAssumption
  <2>2. D!Health[s.name] = s.health
    BY DirectoryHealth
  <2> QED BY <2>1, <2>2, DirectoryLibrary, Zenon DEF D!L!HealthPill
<1>3. {D!L!Area(<<>>, a, IF ui.selected = s.name THEN "selected" ELSE ""),
       D!L!Stopping(D!L!Button(<<"name">>, a))} = two
  <2>1. (IF ui.selected = s.name THEN "selected" ELSE "") = look
    OBVIOUS
  <2> HIDE DEF look, a
  <2> QED BY <2>1, DirectoryLibrary, Zenon
<1>4. {D!L!Stopping(D!L!Button(<<"remove">>, r))} = remove
  BY DirectoryLibrary, Zenon
<1>5. r # D!L!NoAct
  BY DEF D!L!NoAct
<1>6. /\ \A part : D!L!When(~TRUE, part) = {}
      /\ \A part : D!L!When(~TRUE /\ s.docs, part) = {}
      /\ \A part : D!L!When(s.dynamic /\ r # D!L!NoAct, part) = When(s.dynamic, part)
  BY <1>5, Zenon DEF D!L!When, When
<1> HIDE DEF two, health, remove, addresses, docs, r
<1>7. D!L!ServiceRow(s, D!Health[s.name], ui.selected = s.name, TRUE, a, r)
        = two \union health \union {} \union {} \union When(s.dynamic, remove)
  <2>1. D!L!ServiceRow(s, D!Health[s.name], ui.selected = s.name, TRUE, a, r)
          = {D!L!Area(<<>>, a, IF ui.selected = s.name THEN "selected" ELSE ""),
             D!L!Stopping(D!L!Button(<<"name">>, a))}
            \union D!L!HealthPill(D!Health[s.name]) \union D!L!When(~TRUE, addresses)
            \union D!L!When(~TRUE /\ s.docs, docs)
            \union D!L!When(s.dynamic /\ r # D!L!NoAct, {D!L!Stopping(D!L!Button(<<"remove">>, r))})
    BY Zenon DEF D!L!ServiceRow, addresses, docs
  <2> QED BY <2>1, <1>2, <1>3, <1>4, <1>6, Zenon
<1>8. two \union health \union {} \union {} \union When(s.dynamic, remove)
        = two \union health \union When(s.dynamic, remove)
  OBVIOUS
<1> QED BY <1>1, <1>7, <1>8, Zenon DEF r, a

LEMMA DirectoryLibraryGroup ==
  ASSUME NEW rows, rows \subseteq Service, rows # {}
  PROVE  D!NodeGroup(rows) = D!L!NodeGroup(D!L!ServiceTable(rows, D!Health, TRUE, ui.selected, "open", "remove"))
<1> DEFINE mark == {Element(<<"reachable">>, "mark", NoAct, "reachable")}
           row(s) == Below(<<s.name>>, D!ServiceRow(s))
           other(s) == Below(<<s.name>>, D!L!ServiceRow(s, D!Health[s.name], ui.selected = s.name, TRUE,
                                          <<"open", s.name>>, <<"remove", s.name>>))
<1>1. D!NodeGroup(rows) = When(rows # {}, mark \union UNION {row(s) : s \in rows})
  BY Zenon DEF D!NodeGroup, D!Below, Below, D!When, When, D!Mark, D!Element, Element, D!NoAct, NoAct
<1>2. D!L!ServiceTable(rows, D!Health, TRUE, ui.selected, "open", "remove") = UNION {other(s) : s \in rows}
  BY Zenon DEF D!L!ServiceTable, D!L!Below, Below
<1>3. \A part : D!L!NodeGroup(part) = mark \union part
  BY DirectoryLibrary, Zenon DEF D!L!NodeGroup
<1>4. \A s \in rows : row(s) = other(s)
  <2> SUFFICES ASSUME NEW s \in rows PROVE row(s) = other(s)
    BY Zenon
  <2>1. s \in Service
    OBVIOUS
  <2> QED BY <2>1, DirectoryLibraryRow, Zenon
<1> HIDE DEF mark, row, other
<1>5. {row(s) : s \in rows} = {other(s) : s \in rows}
  BY <1>4
<1>6. D!NodeGroup(rows) = mark \union UNION {row(s) : s \in rows}
  BY <1>1, Zenon DEF When
<1> QED BY <1>2, <1>3, <1>5, <1>6, Zenon

LEMMA DirectoryLibraryViewer ==
  /\ D!ViewerWelcome = D!L!ViewerWelcome
  /\ D!ViewerHeader({}) = D!L!ViewerHeader(TRUE, {}, <<"close">>)
  /\ {D!NewTab(<<"escape">>)} = D!L!ViewerFallback
<1> DEFINE tab == Element(<<"new tab">>, "link", <<"new tab">>, "")
           close == Element(<<"close">>, "button", <<"close">>, "")
<1>1. D!ViewerHeader({}) = {} \union {tab, close}
  BY DirectoryWords, Zenon DEF D!ViewerHeader
<1>2. D!L!ViewerHeader(TRUE, {}, <<"close">>) = {} \union {tab} \union {close}
  <2>1. D!L!When(TRUE, {tab}) = {tab}
    BY Zenon DEF D!L!When
  <2>2. D!L!NewTab(<<"new tab">>) = tab /\ D!L!Button(<<"close">>, <<"close">>) = close
    BY DirectoryLibrary, Zenon
  <2> HIDE DEF tab, close
  <2> QED BY <2>1, <2>2, Zenon DEF D!L!ViewerHeader
<1>3. D!ViewerWelcome = D!L!ViewerWelcome /\ {D!NewTab(<<"escape">>)} = D!L!ViewerFallback
  BY DirectoryWords, DirectoryLibrary, Zenon DEF D!ViewerWelcome, D!L!ViewerWelcome, D!L!ViewerFallback
<1> HIDE DEF tab, close
<1> QED BY <1>1, <1>2, <1>3

LEMMA DirectoryLibraryRegister ==
  {e \in D!RegisterPanel : e.does = <<"register">>}
    = {e \in D!L!Disclosure(ui.register, <<"register">>, {}) : e.kind # "key"}
<1> DEFINE title == Element(<<"title">>, "area", <<"register">>, "")
           key == Element(<<"title", "key">>, "key", <<"register">>, "")
           add == Element(<<"add">>, "button", NoAct, "")
<1>1. D!RegisterPanel = {title} \union When(ui.register, {add})
  BY DirectoryWords, Zenon DEF D!RegisterPanel
<1>2. D!L!Disclosure(ui.register, <<"register">>, {}) = {title, key} \union When(ui.register, {})
  BY DirectoryLibrary, Zenon DEF D!L!Disclosure
<1>3. /\ title.does = <<"register">> /\ add.does = NoAct /\ title.kind = "area" /\ key.kind = "key"
      /\ NoAct # <<"register">>
  BY DEF Element, NoAct
<1> HIDE DEF title, key, add
<1> QED BY <1>1, <1>2, <1>3 DEF When

LEMMA DirectoryLibraryDetail ==
  ASSUME NEW s \in Service
  PROVE  D!ServiceDetail(s) = D!L!ServiceDetail(s, s.health, <<"open here", s.name>>)
<1> DEFINE open == {Element(<<"open here">>, "button", <<"open here", s.name>>, "")}
           health == {Element(<<"health">>, "mark", NoAct, s.health)}
           docs == {Element(<<"docs">>, "link", <<"new tab">>, "")}
           links == {Element(<<"address", l>>, "link", <<"new tab">>, "") : l \in s.links}
           none == {D!L!Mark(<<"open here">>, "No in-app view")}
<1>1. D!ServiceDetail(s) = health \union When(s.docs, docs) \union links \union open
  BY DirectoryWords, Zenon DEF D!ServiceDetail, D!HealthPill, D!When, When
<1>2. D!L!ServiceDetail(s, s.health, <<"open here", s.name>>)
        = health \union When(s.docs, docs) \union links \union (IF s.links # {} THEN open ELSE none)
  BY DirectoryLibrary, Zenon DEF D!L!ServiceDetail, D!L!When, When
<1>3. s.links # {}
  BY DataAssumption
<1> HIDE DEF none, open, links, docs, health
<1> QED BY <1>1, <1>2, <1>3, Zenon

LEMMA DirectoryLibrarySettings ==
  D!Deeds(D!SettingsOverlay)
    = D!Deeds(D!L!SettingsPanel(<<"close", "settings">>,
        D!Below(<<"token">>, D!L!TextInput("token")) \union D!Below(<<"peer">>, D!L!PeerItem(TRUE, D!NoAct))
        \union {D!Button(<<"issue">>, <<"issue">>), D!Button(<<"pair">>, D!NoAct)}
        \union D!When(ui.code, D!L!PairingCode)))
<1> DEFINE act == <<"close", "settings">>
           top == {Element(<<>>, "area", act, "")}
           close == {Element(<<"close">>, "button", act, "")}
           peer == {Element(<<"peer">>, "mark", NoAct, "reachable")}
           remove == {Element(<<"peer", "remove">>, "button", NoAct, "")}
           issue == {Element(<<"issue">>, "button", <<"issue">>, "")}
           pair == {Element(<<"pair">>, "button", NoAct, "")}
           shown == When(ui.code, {Element(<<"code">>, "mark", NoAct, "code")})
           token == {Element(<<"token", "input">>, "input", <<"type", "token">>, "")}
           children == D!Below(<<"token">>, D!L!TextInput("token"))
             \union D!Below(<<"peer">>, D!L!PeerItem(TRUE, D!NoAct))
             \union {D!Button(<<"issue">>, <<"issue">>), D!Button(<<"pair">>, D!NoAct)}
             \union D!When(ui.code, D!L!PairingCode)
           panel == <<"panel">>
           C == top \union ({DirectoryPanel} \union Below(panel, DirectoryFields))
           here == <<"panel", "token">>
           there == <<"panel", "token", "input">>
<1>1. D!Below(<<"token">>, D!L!TextInput("token")) = token
  <2>1. D!L!TextInput("token") = {Element(<<"input">>, "input", <<"type", "token">>, "")}
    BY DirectoryLibrary, Zenon DEF D!L!TextInput
  <2>2. \A does, look : Below(<<"token">>, {Element(<<"input">>, "input", does, look)})
                        = {Element(<<"token", "input">>, "input", does, look)}
    BY BelowAt1, KindsAre
  <2>3. Below(<<"token">>, {Element(<<"input">>, "input", <<"type", "token">>, "")}) = token
    BY <2>2, Zenon
  <2> QED BY <2>1, <2>3, DirectoryWords, Zenon
<1>2. D!Below(<<"peer">>, D!L!PeerItem(TRUE, D!NoAct)) = peer \union remove
  <2> DEFINE a == {Element(<<>>, "mark", NoAct, "reachable")}
             b == {Element(<<"remove">>, "button", NoAct, "")}
             d == <<"peer">>
  <2>1. D!L!PeerItem(TRUE, D!NoAct) = a \union b
    <3>1. D!L!PeerItem(TRUE, D!NoAct)
            = {Element(<<>>, "mark", NoAct, "reachable"), Element(<<"remove">>, "button", NoAct, "")}
      BY DirectoryWords, DirectoryLibrary, Zenon DEF D!L!PeerItem
    <3> QED BY <3>1, Singles, Zenon
  <2>2. \A does, look : Below(<<"peer">>, {Element(<<>>, "mark", does, look)})
                        = {Element(<<"peer">>, "mark", does, look)}
    BY BelowAt0, KindsAre
  <2>3. Below(d, a) = peer
    BY <2>2, Zenon
  <2>4. \A does, look : Below(<<"peer">>, {Element(<<"remove">>, "button", does, look)})
                        = {Element(<<"peer", "remove">>, "button", does, look)}
    BY BelowAt1, KindsAre
  <2>5. Below(d, b) = remove
    BY <2>4, Zenon
  <2> HIDE DEF a, b, d, peer, remove
  <2>6. Below(d, a \union b) = Below(d, a) \union Below(d, b)
    BY BelowParts
  <2>7. Below(d, D!L!PeerItem(TRUE, D!NoAct)) = peer \union remove
    BY <2>1, <2>3, <2>5, <2>6, Zenon
  <2> QED BY <2>7, DirectoryWords, Zenon DEF d
<1>3. /\ {D!Button(<<"issue">>, <<"issue">>), D!Button(<<"pair">>, D!NoAct)} = issue \union pair
      /\ D!When(ui.code, D!L!PairingCode) = shown
  <2>1. D!L!PairingCode = {Element(<<"code">>, "mark", NoAct, "code")}
    BY DirectoryLibrary, Zenon DEF D!L!PairingCode
  <2>2. D!When(ui.code, D!L!PairingCode) = shown
    BY <2>1, Zenon DEF D!When, When
  <2> QED BY <2>2, DirectoryWords, Singles, Zenon
<1>4. DirectoryFields = close \union peer \union remove \union issue \union pair \union shown
  BY DEF DirectoryFields
<1>5. D!L!SettingsPanel(act, children) = top \union ({DirectoryPanel} \union Below(panel, close \union children))
  <2>1. D!L!SettingsPanel(act, children)
          = {Element(<<>>, "area", act, ""), DirectoryPanel, Element(<<"panel", "close">>, "button", act, "")}
            \union Below(panel, children)
    BY DirectoryLibrary, Zenon DEF D!L!SettingsPanel, DirectoryPanel
  <2>2. \A does, look : Below(<<"panel">>, {Element(<<"close">>, "button", does, look)})
                        = {Element(<<"panel", "close">>, "button", does, look)}
    BY BelowAt1, KindsAre
  <2>3. Below(panel, close) = {Element(<<"panel", "close">>, "button", act, "")}
    BY <2>2, Zenon
  <2> HIDE DEF children, close, panel
  <2>4. Below(panel, close \union children) = Below(panel, close) \union Below(panel, children)
    BY BelowParts
  <2>5. \A a, b, c, r : {a, b, c} \union r = {a} \union ({b} \union ({c} \union r))
    OBVIOUS
  <2> QED BY <2>1, <2>3, <2>4, <2>5, Zenon
<1>6. Below(panel, DirectoryToken) = {Element(here, "input", <<"type", "token">>, "")}
  <2>1. \A does, look : Below(<<"panel">>, {Element(<<"token">>, "input", does, look)})
                        = {Element(<<"panel", "token">>, "input", does, look)}
    BY BelowAt1, KindsAre
  <2> QED BY <2>1, Zenon DEF DirectoryToken
<1>7. Below(panel, token) = {Element(there, "input", <<"type", "token">>, "")}
  <2> DEFINE k == "input"
             y == "token"
             d == "panel"
  <2>1. k \in Kinds
    BY KindsAre
  <2> HIDE DEF k, y, d
  <2>2. \A does, look : Below(<<d>>, {Element(<<y, k>>, k, does, look)}) = {Element(<<d, y, k>>, k, does, look)}
    BY <2>1, BelowAt2
  <2> QED BY <2>2, Zenon DEF k, y, d
<1>8. IsPlace(here) /\ IsPlace(there)
  BY Place2, Place3, Zenon
<1>9. IsPart(C)
  <2>1. IsPart(D!SettingsOverlay)
    BY DirectoryOverlayPlain DEF Plain, Sound
  <2>2. \A e \in C : e \in D!SettingsOverlay
    <3> HIDE DEF top
    <3> QED BY DirectoryOverlay, Zenon DEF top
  <2> QED BY <2>1, <2>2, Zenon DEF IsPart
<1> HIDE DEF top, close, peer, remove, issue, pair, shown, token, panel
<1>10. close \union children = DirectoryFields \union token
  <2>1. close \union children = close \union (token \union (peer \union remove) \union (issue \union pair) \union shown)
    BY <1>1, <1>2, <1>3, Zenon
  <2> QED BY <1>4, <2>1
<1>11. D!L!SettingsPanel(act, children) = C \union Below(panel, token)
  <2>1. Below(panel, DirectoryFields \union token) = Below(panel, DirectoryFields) \union Below(panel, token)
    BY BelowParts
  <2> HIDE DEF children
  <2> QED BY <1>5, <1>10, <2>1
<1>12. D!SettingsOverlay = C \union Below(panel, DirectoryToken)
  <2>1. D!SettingsOverlay = top \union ({DirectoryPanel} \union (Below(panel, DirectoryFields)
                                     \union Below(panel, DirectoryToken)))
    BY DirectoryOverlay, Zenon DEF top, panel
  <2> QED BY <2>1
<1> HIDE DEF C, here, there
<1>13. \A does, look : Deeds(C \union {Element(here, "input", does, look)})
                        = Deeds(C \union {Element(there, "input", does, look)})
  BY <1>8, <1>9, SameDeedsBut
<1>14. Deeds(D!SettingsOverlay) = Deeds(D!L!SettingsPanel(act, children))
  BY <1>11, <1>12, <1>13, <1>6, <1>7, Zenon
<1> QED BY <1>14, DirectoryWords, Zenon

(* The same of the directory's page; and every view of a service but its   *)
(* detail can be closed.                                                   *)
THEOREM DirectoryScreenSound ==
  ASSUME D!TypeOK
  PROVE  D!ScreenSound
<1>1. ui.listed \subseteq Service /\ ui.mode \in {"welcome", "detail", "json", "fallback", "iframe"}
  BY DEF D!TypeOK
<1>2. /\ Catalogue(D!Screen, {"area"}, "open", VisibleNames)
      /\ ui.mode \notin {"welcome", "detail"} /\ D!Shown(ui) # {} => Offers(D!Screen, <<"close">>)
  BY <1>1, DirectoryScreenParts
<1>3. D!OneHandler
  <2>1. Sound(D!Screen)
    BY <1>2 DEF Catalogue
  <2>2. \A e \in D!Screen : Cardinality(Fired(D!Screen, e)) <= 1
    BY <2>1, CalmFiresOne
  <2> QED BY <2>2, DirectoryWords, Zenon DEF D!OneHandler
<1>4. D!ItemsShownOnce
  <2>1. ASSUME NEW s \in Service
        PROVE  Cardinality({e \in D!Screen : e.kind = "area" /\ e.does = <<"open", s.name>>})
                 = IF s \in D!Visible THEN 1 ELSE 0
    <3>1. {e \in D!Screen : e.kind = "area" /\ e.does = <<"open", s.name>>}
            = Offering(D!Screen, {"area"}, <<"open", s.name>>)
      BY DEF Offering
    <3>2. s \in D!Visible <=> s.name \in VisibleNames
      BY <1>1, VisibleData, DirectoryVisible, DataAssumption DEF VisibleNames
    <3>3. CASE s \in D!Visible
      <4>1. Once(D!Screen, {"area"}, <<"open", s.name>>)
        BY <1>2, <3>2, <3>3 DEF Catalogue
      <4>2. Cardinality(Offering(D!Screen, {"area"}, <<"open", s.name>>)) = 1
        BY <4>1, OfferedCount, Zenon
      <4> QED BY <3>1, <3>3, <4>2, Zenon
    <3>4. CASE s \notin D!Visible
      <4>1. Never(D!Screen, {"area"}, <<"open", s.name>>)
        BY <1>2, <3>2, <3>4 DEF Catalogue
      <4>2. Cardinality(Offering(D!Screen, {"area"}, <<"open", s.name>>)) = 0
        BY <4>1, OfferedCount, Zenon
      <4> QED BY <3>1, <3>4, <4>2, Zenon
    <3> QED BY <3>3, <3>4
  <2>2. ui.mode \notin {"welcome", "detail"} /\ D!Shown(ui) # {} => D!Offers(D!Screen, <<"close">>)
    BY <1>2 DEF D!Offers, Offers
  <2> QED BY <2>1, <2>2, DirectoryWords, Zenon DEF D!ItemsShownOnce
<1>5. D!AsTheLibrary
  <2>1. ASSUME NEW n \in Node, NEW rows, rows = {s \in D!Visible : s.origin = n}, rows # {}
        PROVE  D!Deeds(D!NodeGroup(rows)) = D!Deeds(D!L!NodeGroup(
                 D!L!ServiceTable(rows, D!Health, TRUE, ui.selected, "open", "remove")))
    <3>1. rows \subseteq Service
      BY <1>1, <2>1 DEF D!Visible
    <3>2. D!NodeGroup(rows) = D!L!NodeGroup(
                 D!L!ServiceTable(rows, D!Health, TRUE, ui.selected, "open", "remove"))
      BY <2>1, <3>1, DirectoryLibraryGroup, Zenon
    <3> QED BY <3>2, Zenon
  <2>2. \A n \in Node : LET rows == {s \in D!Visible : s.origin = n}
          IN rows # {} => D!Deeds(D!NodeGroup(rows)) = D!Deeds(D!L!NodeGroup(
               D!L!ServiceTable(rows, D!Health, TRUE, ui.selected, "open", "remove")))
    BY <2>1, Zenon
  <2>3. /\ D!Deeds(D!ViewerWelcome) = D!Deeds(D!L!ViewerWelcome)
        /\ D!Deeds(D!ViewerHeader({})) = D!Deeds(D!L!ViewerHeader(TRUE, {}, <<"close">>))
    BY DirectoryLibraryViewer, Zenon
  <2>4. D!Deeds({e \in D!RegisterPanel : e.does = <<"register">>})
          = D!Deeds({e \in D!L!Disclosure(ui.register, <<"register">>, {}) : e.kind # "key"})
    BY DirectoryLibraryRegister, Zenon
  <2>5. ASSUME NEW s \in D!Shown(ui)
        PROVE  D!Deeds(D!ServiceDetail(s)) = D!Deeds(D!L!ServiceDetail(s, s.health, <<"open here", s.name>>))
    <3>1. s \in Service
      BY <1>1 DEF D!Shown
    <3> QED BY <3>1, DirectoryLibraryDetail, Zenon
  <2>6. ASSUME NEW s \in D!Shown(ui), ui.mode = "fallback"
        PROVE  D!Deeds(D!Viewer(s)) = D!Deeds(D!L!ViewerHeader(TRUE, {}, <<"close">>) \union D!L!ViewerFallback)
    <3>1. D!Viewer(s) = D!ViewerHeader({}) \union {D!NewTab(<<"escape">>)}
      BY <2>6 DEF D!Viewer
    <3> QED BY <3>1, DirectoryLibraryViewer, Zenon
  <2> QED BY <2>2, <2>3, <2>4, <2>5, <2>6, DirectoryLibrarySettings, Zenon DEF D!AsTheLibrary
<1> QED BY <1>3, <1>4, <1>5 DEF D!ScreenSound
-----------------------------------------------------------------------------
(* The page of the application shell.                                      *)

(* The words of its module and of its copy of the library are those of     *)
(* Elements.                                                               *)
LEMMA AmplifierWords ==
  /\ A!NoAct = NoAct
  /\ \A at, kind, act, look : A!Element(at, kind, act, look) = Element(at, kind, act, look)
  /\ \A at, act : A!Button(at, act) = Element(at, "button", act, "")
  /\ \A at, act, look : A!Area(at, act, look) = Element(at, "area", act, look)
  /\ \A at : A!NewTab(at) = Element(at, "link", <<"new tab">>, "")
  /\ \A at, act : A!Input(at, act) = Element(at, "input", act, "")
  /\ \A at, act : A!Key(at, act) = Element(at, "key", act, "")
  /\ \A at, look : A!Mark(at, look) = Element(at, "mark", NoAct, look)
  /\ \A e : A!Stopping(e) = Stopping(e)
  /\ \A c, part : A!When(c, part) = When(c, part)
  /\ \A at, part : A!Below(at, part) = Below(at, part)
  /\ \A part, e : A!Fired(part, e) = Fired(part, e)
  /\ \A part : A!Deeds(part) = Deeds(part)
  /\ \A S : A!Cardinality(S) = Cardinality(S)
<1>1. /\ A!NoAct = NoAct
      /\ \A at, kind, act, look : A!Element(at, kind, act, look) = Element(at, kind, act, look)
  BY DEF A!NoAct, NoAct, A!Element, Element
<1>2. /\ \A at, act : A!Button(at, act) = Element(at, "button", act, "")
      /\ \A at, act, look : A!Area(at, act, look) = Element(at, "area", act, look)
      /\ \A at : A!NewTab(at) = Element(at, "link", <<"new tab">>, "")
      /\ \A at, act : A!Input(at, act) = Element(at, "input", act, "")
      /\ \A at, act : A!Key(at, act) = Element(at, "key", act, "")
      /\ \A at, look : A!Mark(at, look) = Element(at, "mark", NoAct, look)
  BY <1>1, Zenon DEF A!Button, A!Area, A!NewTab, A!Input, A!Key, A!Mark
<1>3. /\ \A e : A!Stopping(e) = Stopping(e)
      /\ \A c, part : A!When(c, part) = When(c, part)
      /\ \A at, part : A!Below(at, part) = Below(at, part)
  BY Zenon DEF A!Stopping, Stopping, A!When, When, A!Below, Below
<1>4. /\ \A part, e : A!Fired(part, e) = Fired(part, e)
      /\ \A part : A!Deeds(part) = Deeds(part)
  BY Zenon DEF A!Fired, Fired, A!Around, Around, A!Clicked, Clicked, A!Sequence!IsPrefix,
               Sequence!IsPrefix, A!NoAct, NoAct, A!Deeds, Deeds
<1>5. \A S : A!Cardinality(S) = Cardinality(S)
  BY Zenon DEF A!Cardinality, Cardinality
<1> QED BY <1>1, <1>2, <1>3, <1>4, <1>5, Zenon

LEMMA AmplifierFilter == Plain(A!Filter)
<1> DEFINE input == {Element(<<"input">>, "input", <<"type", "filter">>, "")}
           clear == {Element(<<"clear">>, "button", <<"clear", "filter">>, "")}
<1>1. A!Filter = input \union When(ui.filter # "", clear)
  BY AmplifierWords, Zenon DEF A!Filter
<1>2. Plain(input) /\ Under(input, {"input"}) /\ Plain(clear) /\ Under(clear, {"clear"})
  BY PlainAt1, ActsHere, KindsAre, Zenon
<1> HIDE DEF input, clear
<1>3. Plain(When(ui.filter # "", clear)) /\ Under(When(ui.filter # "", clear), {"clear"})
  BY <1>2, PlainWhen, Zenon
<1> QED BY <1>1, <1>2, <1>3, PlainPair, Zenon

LEMMA AmplifierBadge ==
  A!AttentionBadge = {Element(<<"badge">>, "mark", NoAct, "attention")} /\ Plain(A!AttentionBadge)
  /\ Under(A!AttentionBadge, {"badge"}) /\ Mute(A!AttentionBadge)
<1>1. A!AttentionBadge = {Element(<<"badge">>, "mark", NoAct, "attention")}
  BY AmplifierWords, Zenon DEF A!AttentionBadge
<1>2. /\ Plain({Element(<<"badge">>, "mark", NoAct, "attention")})
      /\ Under({Element(<<"badge">>, "mark", NoAct, "attention")}, {"badge"})
  BY PlainAt1, ActsHere, KindsAre, Zenon
<1>3. Mute({Element(<<"badge">>, "mark", NoAct, "attention")})
  BY MuteElement, Place1, KindsAre
<1> QED BY <1>1, <1>2, <1>3, Zenon

LEMMA AmplifierHeader == Plain(A!Header)
<1> DEFINE back == Below(<<"back">>, A!Link(<<"back">>))
           sort == Below(<<"sort">>, A!Link(<<"sort">>))
           theme == Below(<<"theme">>, A!Link(<<"theme">>))
           filter == Below(<<"filter">>, A!Filter)
           agent == Below(<<"agent">>, A!AgentButton)
           b == When(A!Opened(ui) # {}, back)
           n == When(\E r \in Run : A!AttentionOf(r) > 0, A!AttentionBadge)
<1>1. A!Header = b \union sort \union theme \union filter \union n \union agent
  BY AmplifierWords, Zenon DEF A!Header
<1>2. /\ Plain(A!Link(<<"back">>)) /\ Plain(A!Link(<<"sort">>)) /\ Plain(A!Link(<<"theme">>))
      /\ Plain(A!AgentButton)
  BY AmplifierWords, PlainHere, ActsHere, KindsAre, Zenon DEF A!Link, A!AgentButton
<1>3. Plain(A!AttentionBadge) /\ Under(A!AttentionBadge, {"badge"})
  BY AmplifierBadge
<1>4. /\ Plain(back) /\ Under(back, {"back"}) /\ Plain(sort) /\ Under(sort, {"sort"})
      /\ Plain(theme) /\ Under(theme, {"theme"})
  BY <1>2, PlainBelow
<1>5. Plain(agent) /\ Under(agent, {"agent"}) /\ Plain(filter) /\ Under(filter, {"filter"})
  BY <1>2, AmplifierFilter, PlainBelow
<1> HIDE DEF back, sort, theme, filter, agent
<1>6. Plain(b) /\ Under(b, {"back"}) /\ Plain(n) /\ Under(n, {"badge"})
  BY <1>3, <1>4, PlainWhen
<1> HIDE DEF b, n
<1>7. Plain(b \union sort \union theme \union filter \union n \union agent)
  BY <1>4, <1>5, <1>6, PlainSix, Zenon
<1> QED BY <1>1, <1>7

(* An entry for one run.                                                   *)
RunRow(part, n) == Catalogue(part, Kinds, "open", {n}) /\ Silent(part)

LEMMA AmplifierTile ==
  \A r : RunRow(A!Tile(r), r.name) /\ \A selected : RunRow(A!RailRow(r, selected), r.name)
<1> SUFFICES ASSUME NEW r
             PROVE  RunRow(A!Tile(r), r.name) /\ \A selected : RunRow(A!RailRow(r, selected), r.name)
  OBVIOUS
<1> DEFINE badge == When(A!AttentionOf(r) > 0, A!AttentionBadge)
           top(look) == {Element(<<>>, "area", <<"open", r.name>>, look)}
<1>1. /\ A!Tile(r) = top(A!edgeColour(r, FALSE)) \union badge
      /\ \A selected : A!RailRow(r, selected) = top(A!edgeColour(r, selected)) \union badge
  BY AmplifierWords, Zenon DEF A!Tile, A!RailRow
<1>2. Plain(badge) /\ Mute(badge)
  BY AmplifierBadge, PlainWhen DEF Mute, When
<1> HIDE DEF badge
<1>3. Shielded(badge)
  BY <1>2 DEF Shielded, Mute
<1>4. \A look : Catalogue(top(look) \union badge, Kinds, "open", {r.name})
  BY <1>2, <1>3, ActsHere, KindsAre, TileShows, Zenon DEF Plain
<1>5. \A look : Silent(top(look))
  <2>1. \A look : \A e \in top(look) : e.does = <<"open", r.name>>
    BY DEF Element
  <2>2. \A n : <<"open", r.name>> # <<"promote", n>>
    OBVIOUS
  <2> HIDE DEF top
  <2> QED BY <2>1, <2>2 DEF Silent, Offers
<1>6. \A look : Silent(top(look) \union badge)
  BY <1>2, <1>5, SilentParts
<1>7. \A look : RunRow(top(look) \union badge, r.name)
  BY <1>4, <1>6 DEF RunRow
<1> QED BY <1>1, <1>7, Zenon

RunNames == {r.name : r \in A!Visible}

LEMMA AmplifierRows ==
  /\ Catalogue(UNION {Below(<<"run", r.name>>, A!Tile(r)) : r \in A!Visible}, Kinds, "open", RunNames)
  /\ Under(UNION {Below(<<"run", r.name>>, A!Tile(r)) : r \in A!Visible}, {"run"})
  /\ Silent(UNION {Below(<<"run", r.name>>, A!Tile(r)) : r \in A!Visible})
  /\ Catalogue(UNION {Below(<<"run", r.name>>, A!RailRow(r, r.name = ui.open)) : r \in A!Visible},
               Kinds, "open", RunNames)
  /\ Under(UNION {Below(<<"run", r.name>>, A!RailRow(r, r.name = ui.open)) : r \in A!Visible}, {"run"})
  /\ Silent(UNION {Below(<<"run", r.name>>, A!RailRow(r, r.name = ui.open)) : r \in A!Visible})
<1> DEFINE S == A!Visible
           P == [r \in S |-> <<"run", r.name>>]
           G == [r \in S |-> Below(<<"run", r.name>>, A!Tile(r))]
           Q == [r \in S |-> Below(<<"run", r.name>>, A!RailRow(r, r.name = ui.open))]
           tiles == {Below(<<"run", r.name>>, A!Tile(r)) : r \in S}
           rail == {Below(<<"run", r.name>>, A!RailRow(r, r.name = ui.open)) : r \in S}
<1>1. /\ \A r, s \in S : r.name = s.name => r = s
      /\ \A x : x \in RunNames <=> \E s \in S : x = s.name
  BY DataAssumption DEF A!Visible, RunNames
<1>2. /\ \A r \in S : P[r] = <<"run", r.name>>
      /\ \A r \in S : G[r] = Below(<<"run", r.name>>, A!Tile(r))
      /\ \A r \in S : Q[r] = Below(<<"run", r.name>>, A!RailRow(r, r.name = ui.open))
  BY Zenon
<1>3. /\ \A r \in S : IsPlace(P[r])
      /\ \A r, s \in S : r.name # s.name => Differ(P[r], P[s])
  BY <1>2, Place2, DifferAt, Zenon
<1>4. \A r \in S : IsPlace(P[r]) /\ Len(P[r]) = 2 /\ P[r][1] = "run"
  BY <1>2, Place2, Zenon
<1> HIDE DEF P, G, Q
<1>5. Family(tiles, S, G) /\ Family(rail, S, Q)
  BY <1>2 DEF Family
<1>6. /\ \A r \in S : \E row : G[r] = Below(P[r], row) /\ RunRow(row, r.name)
      /\ \A r \in S : \E row : Q[r] = Below(P[r], row) /\ RunRow(row, r.name)
  BY <1>2, AmplifierTile, Zenon
<1>7. /\ \A r \in S : \E row : G[r] = Below(P[r], row) /\ Catalogue(row, Kinds, "open", {r.name})
      /\ \A r \in S : \E row : Q[r] = Below(P[r], row) /\ Catalogue(row, Kinds, "open", {r.name})
  BY <1>6, Zenon DEF RunRow
<1> HIDE DEF S, tiles, rail
<1>8. Listing(tiles, S, P, G, RunNames, Kinds, "open") /\ Listing(rail, S, P, Q, RunNames, Kinds, "open")
  BY <1>1, <1>3, <1>5, <1>7, Zenon DEF Listing
<1>9. /\ Catalogue(UNION tiles, Kinds, "open", RunNames)
      /\ Catalogue(UNION rail, Kinds, "open", RunNames)
  BY <1>8, RowsByName, Zenon
<1>10. \A r \in S : \A row : RunRow(row, r.name)
         => Under(Below(P[r], row), {"run"}) /\ Silent(Below(P[r], row))
  BY <1>4, UnderBelow, SilentParts DEF RunRow, Catalogue, Sound
<1>11. /\ \A r \in S : Under(G[r], {"run"}) /\ Silent(G[r])
       /\ \A r \in S : Under(Q[r], {"run"}) /\ Silent(Q[r])
  BY <1>6, <1>10, Zenon
<1>12. /\ \A p \in tiles : Under(p, {"run"}) /\ Silent(p)
       /\ \A p \in rail : Under(p, {"run"}) /\ Silent(p)
  BY <1>5, <1>11, Zenon DEF Family
<1>13. /\ Under(UNION tiles, {"run"}) /\ Silent(UNION tiles)
       /\ Under(UNION rail, {"run"}) /\ Silent(UNION rail)
  BY <1>12, UnderUnion, SilentParts
<1> QED BY <1>9, <1>13 DEF tiles, rail, S

LEMMA AmplifierOverview ==
  /\ Catalogue(A!Overview, Kinds, "open", RunNames) /\ Silent(A!Overview)
  /\ Catalogue(A!Rail, Kinds, "open", RunNames) /\ Silent(A!Rail)
<1> DEFINE tiles == UNION {Below(<<"run", r.name>>, A!Tile(r)) : r \in A!Visible}
           rail == UNION {Below(<<"run", r.name>>, A!RailRow(r, r.name = ui.open)) : r \in A!Visible}
           text == {Element(<<"empty">>, "mark", NoAct, "No runs match this filter.")}
           empty == When(A!Visible = {}, text)
           filter == Below(<<"filter">>, A!Filter)
<1>1. A!Overview = empty \union tiles /\ A!Rail = filter \union empty \union rail
  BY Zenon DEF A!Overview, A!Rail, A!Below, Below, A!When, When, A!Mark, A!Element, Element, A!NoAct, NoAct
<1>2. Plain(text) /\ Under(text, {"empty"})
  BY PlainAt1, ActsHere, KindsAre, Zenon
<1>3. Plain(filter) /\ Under(filter, {"filter"})
  BY AmplifierFilter, PlainBelow
<1> HIDE DEF text, filter
<1>4. Plain(empty) /\ Under(empty, {"empty"})
  BY <1>2, PlainWhen
<1>5. /\ Catalogue(tiles, Kinds, "open", RunNames) /\ Under(tiles, {"run"}) /\ Silent(tiles)
      /\ Catalogue(rail, Kinds, "open", RunNames) /\ Under(rail, {"run"}) /\ Silent(rail)
  BY AmplifierRows
<1> HIDE DEF empty, tiles, rail
<1> DEFINE X == {"filter"} \union {"empty"}
<1>6. Plain(filter \union empty) /\ Under(filter \union empty, X)
  BY <1>3, <1>4, PlainPair, Zenon
<1>7. {"run"} \intersect {"empty"} = {} /\ {"run"} \intersect X = {} /\ "open" \in Shows
  BY ActsHere, Zenon
<1> HIDE DEF X
<1>8. Catalogue(empty \union tiles, Kinds, "open", RunNames)
  BY <1>4, <1>5, <1>7, CataloguePlain, Zenon
<1>9. Catalogue(filter \union empty \union rail, Kinds, "open", RunNames)
  BY <1>5, <1>6, <1>7, CataloguePlain, Zenon
<1>10. Silent(empty \union tiles) /\ Silent(filter \union empty \union rail)
  BY <1>3, <1>4, <1>5, SilentParts
<1> QED BY <1>1, <1>8, <1>9, <1>10, Zenon

LEMMA AmplifierTabs ==
  ASSUME NEW T
  PROVE  /\ Plain({Element(<<"tab", t>>, "button", <<"tab", t>>, "") : t \in T})
         /\ Under({Element(<<"tab", t>>, "button", <<"tab", t>>, "") : t \in T}, {"tab"})
<1> DEFINE at(t) == <<"tab", t>>
           tab(t) == Element(at(t), "button", at(t), "")
           all == {tab(t) : t \in T}
<1>1. \A t : IsPlace(at(t)) /\ Len(at(t)) = 2 /\ at(t)[1] = "tab"
  BY Place2, Zenon
<1>2. \A t : Idle(at(t))
  BY ActsHere, Zenon
<1>3. \A s, t : s # t => Differ(at(s), at(t))
  BY DifferAt, Zenon
<1> HIDE DEF at
<1>4. \A t : IsElement(tab(t)) /\ tab(t).at = at(t) /\ tab(t).does = at(t)
  <2>1. ASSUME NEW q, IsPlace(q)
        PROVE  LET e == Element(q, "button", q, "")
               IN IsElement(e) /\ e.at = q /\ e.does = q
    <3>1. IsElement(Element(q, "button", q, ""))
      BY <2>1, ElementsAre, KindsAre, Zenon
    <3> QED BY <3>1, Zenon DEF Element
  <2> QED BY <1>1, <2>1, Zenon
<1> HIDE DEF tab
<1>5. Under(all, {"tab"})
  <2>1. \A e \in all : Len(e.at) = 2 /\ e.at[1] = "tab"
    BY <1>1, <1>4, Zenon
  <2> QED BY <2>1 DEF Under
<1>6. IsPart(all)
  BY <1>4 DEF IsPart
<1>7. \A e, f \in all : e = f \/ Differ(e.at, f.at)
  BY <1>3, <1>4
<1>8. Sound(all)
  BY <1>6, <1>7, SoundIfDiffer
<1>9. \A e \in all : Idle(e.does)
  BY <1>2, <1>4
<1>10. Plain(all)
  BY <1>8, <1>9, QuietIsPlain
<1> QED BY <1>5, <1>10, Zenon DEF tab, at

LEMMA AmplifierDetail ==
  ASSUME NEW r
  PROVE  /\ Catalogue(A!Detail(r), Kinds, "open", {})
         /\ \A n : Offers(A!Detail(r), <<"promote", n>>) <=> n = r.name /\ A!AttentionOf(r) > 0
<1> DEFINE T == {"output", "blocks", "config"}
           e == Element(<<"promote">>, "button", <<"promote", r.name>>, "")
           promote == When(A!AttentionOf(r) > 0, {e})
           tabs == {Element(<<"tab", t>>, "button", <<"tab", t>>, "") : t \in T}
           look == IF ui.tab = "output" /\ A!AttentionOf(r) > 0 THEN "waits" ELSE ui.tab
           content == {Element(<<"content">>, "mark", NoAct, look)}
<1>1. A!Detail(r) = promote \union tabs \union content
  BY Zenon DEF A!Detail, A!Button, A!Mark, A!When, When, A!Element, Element, A!NoAct, NoAct
<1>2. Plain(content) /\ Under(content, {"content"})
  BY PlainAt1, ActsHere, KindsAre, Zenon
<1>3. Plain(tabs) /\ Under(tabs, {"tab"})
  BY AmplifierTabs, Zenon
<1>4. Sound({e}) /\ Under({e}, {"promote"}) /\ e.does = <<"promote", r.name>>
  <2>1. IsPlace(<<"promote">>) /\ Len(<<"promote">>) > 0 /\ <<"promote">>[1] = "promote"
    BY Place1, Zenon
  <2>2. Sound({e}) /\ Under({e}, {"promote"})
    BY <2>1, OneElement, KindsAre, Zenon
  <2>3. e.does = <<"promote", r.name>>
    BY DEF Element
  <2> QED BY <2>2, <2>3, Zenon
<1> HIDE DEF e, tabs, content
<1>5. Sound(promote) /\ Under(promote, {"promote"})
  BY <1>4, SoundWhen DEF When, Under
<1>6. \A n : Never(promote, Kinds, <<"open", n>>)
  <2>1. \A n : <<"open", n>> # <<"promote", r.name>>
    OBVIOUS
  <2> QED BY <1>4, <2>1 DEF Never, Offering, When
<1>7. Catalogue(promote, Kinds, "open", {})
  BY <1>5, <1>6 DEF Catalogue
<1>8. \A n : Offers(promote, <<"promote", n>>) <=> n = r.name /\ A!AttentionOf(r) > 0
  <2>1. \A n : <<"promote", n>> = <<"promote", r.name>> <=> n = r.name
    OBVIOUS
  <2> QED BY <1>4, <2>1 DEF Offers, When
<1> HIDE DEF promote
<1> DEFINE X == {"tab"} \union {"content"}
<1>9. Plain(tabs \union content) /\ Under(tabs \union content, X)
  BY <1>2, <1>3, PlainPair, Zenon
<1>10. {"promote"} \intersect X = {} /\ "open" \in Shows
  BY ActsHere, Zenon
<1> HIDE DEF X
<1>11. Catalogue(promote \union (tabs \union content), Kinds, "open", {})
  BY <1>5, <1>7, <1>9, <1>10, CataloguePlain, Zenon
<1>12. Silent(tabs \union content)
  BY <1>9, SilentParts
<1>13. \A n : Offers(promote \union (tabs \union content), <<"promote", n>>)
               <=> n = r.name /\ A!AttentionOf(r) > 0
  BY <1>8, <1>12 DEF Silent, Offers
<1>14. A!Detail(r) = promote \union (tabs \union content)
  BY <1>1
<1> QED BY <1>11, <1>13, <1>14, Zenon

LEMMA AmplifierAgentPanel == Plain(A!AgentPanel) /\ Plain(A!Toast)
<1> DEFINE close == {Element(<<"close">>, "button", <<"close", "agent">>, "")}
           draft == {Element(<<"draft">>, "input", <<"type", "draft">>, "")}
           enter == {Element(<<"draft", "enter">>, "key", <<"send">>, "")}
           send == {Element(<<"send">>, "button", <<"send">>, "")}
           powered == {Element(<<"powered">>, "link", <<"top">>, "")}
<1>1. A!AgentPanel = close \union draft \union enter \union send \union powered
  <2>1. A!AgentPanel = {Element(<<"close">>, "button", <<"close", "agent">>, ""),
                        Element(<<"draft">>, "input", <<"type", "draft">>, ""),
                        Element(<<"draft", "enter">>, "key", <<"send">>, ""),
                        Element(<<"send">>, "button", <<"send">>, ""),
                        Element(<<"powered">>, "link", <<"top">>, "")}
    BY AmplifierWords, Zenon DEF A!AgentPanel
  <2> QED BY <2>1, Singles, Zenon
<1>2. /\ Plain(close) /\ Under(close, {"close"}) /\ Plain(send) /\ Under(send, {"send"})
      /\ Plain(draft) /\ Plain(powered) /\ Under(powered, {"powered"})
  BY PlainAt1, ActsHere, KindsAre, Zenon
<1>3. Mute(draft) /\ Mute(enter) /\ Plain(enter)
  BY MuteElement, Place1, Place2, OneElement, ActsHere, KindsAre, Zenon
<1>4. Plain(A!Toast)
  BY AmplifierWords, PlainHere, ActsHere, KindsAre, Zenon DEF A!Toast
<1> HIDE DEF close, draft, enter, send, powered
<1>5. Plain(close \union send \union powered) /\ Plain(draft \union enter) /\ Mute(draft \union enter)
  <2>1. Plain(close \union send \union powered)
    BY <1>2, PlainThree, Zenon
  <2>2. Plain(draft \union enter)
    BY <1>2, <1>3, PlainBeside DEF Plain
  <2>3. Mute(draft \union enter)
    BY <1>3 DEF Mute
  <2> QED BY <2>1, <2>2, <2>3
<1>6. Plain((close \union send \union powered) \union (draft \union enter))
  BY <1>5, PlainBeside DEF Plain
<1>7. A!AgentPanel = (close \union send \union powered) \union (draft \union enter)
  BY <1>1
<1> QED BY <1>4, <1>6, <1>7

(* The runs that wait for a word, of those that are opened.                *)
Waiting(n) == \E r \in A!Opened(ui) : n = r.name /\ A!AttentionOf(r) > 0

LEMMA AmplifierMain ==
  LET main == IF A!Opened(ui) = {} THEN Below(<<"overview">>, A!Overview)
              ELSE Below(<<"rail">>, A!Rail) \union UNION {Below(<<"detail">>, A!Detail(r)) : r \in A!Opened(ui)}
  IN /\ Catalogue(main, Kinds, "open", RunNames) /\ Under(main, {"overview", "rail", "detail"})
     /\ \A n : Offers(main, <<"promote", n>>) <=> Waiting(n)
<1> DEFINE detail == UNION {Below(<<"detail">>, A!Detail(r)) : r \in A!Opened(ui)}
           main == IF A!Opened(ui) = {} THEN Below(<<"overview">>, A!Overview)
                   ELSE Below(<<"rail">>, A!Rail) \union detail
<1>1. CASE A!Opened(ui) = {}
  <2>1. Catalogue(Below(<<"overview">>, A!Overview), Kinds, "open", RunNames)
    BY AmplifierOverview, Place1, CatalogueBelow
  <2>2. IsPart(A!Overview) /\ Silent(A!Overview)
    BY AmplifierOverview DEF Catalogue, Sound
  <2>3. Under(Below(<<"overview">>, A!Overview), {"overview"})
    BY <2>2, Place1, UnderBelow
  <2>4. Silent(Below(<<"overview">>, A!Overview))
    BY <2>2, Place1, SilentParts
  <2>5. \A n : Offers(Below(<<"overview">>, A!Overview), <<"promote", n>>) <=> Waiting(n)
    BY <1>1, <2>4, Zenon DEF Silent, Waiting
  <2>6. Under(Below(<<"overview">>, A!Overview), {"overview", "rail", "detail"})
    BY <2>3 DEF Under
  <2> QED BY <1>1, <2>1, <2>5, <2>6, Zenon
<1>2. CASE A!Opened(ui) # {}
  <2>1. PICK r : r \in A!Opened(ui)
    BY <1>2
  <2>2. A!Opened(ui) = {r}
    BY <2>1, DataAssumption DEF A!Opened
  <2>3. detail = Below(<<"detail">>, A!Detail(r))
    BY <2>2
  <2>4. /\ Catalogue(A!Detail(r), Kinds, "open", {}) /\ IsPart(A!Detail(r))
        /\ \A n : Offers(A!Detail(r), <<"promote", n>>) <=> n = r.name /\ A!AttentionOf(r) > 0
    BY AmplifierDetail DEF Catalogue, Sound
  <2>5. Catalogue(Below(<<"detail">>, A!Detail(r)), Kinds, "open", {})
    BY <2>4, Place1, CatalogueBelow
  <2>6. Under(Below(<<"detail">>, A!Detail(r)), {"detail"})
    BY <2>4, Place1, UnderBelow
  <2>7. \A n : Offers(Below(<<"detail">>, A!Detail(r)), <<"promote", n>>) <=> Waiting(n)
    <3> DEFINE at == <<"detail">>
               inner == A!Detail(r)
    <3>1. IsPlace(at) /\ IsPart(inner)
      BY <2>4, Place1
    <3>2. \A n : Offers(inner, <<"promote", n>>) <=> Waiting(n)
      BY <2>2, <2>4, Zenon DEF Waiting
    <3> HIDE DEF at, inner
    <3>3. Below(at, inner) = {Moves(e, at) : e \in inner} /\ \A e \in inner : Moves(e, at).does = e.does
      BY <3>1, BelowMoves
    <3>4. \A act : Offers(Below(at, inner), act) <=> Offers(inner, act)
      BY <3>3 DEF Offers
    <3>5. \A n : Offers(Below(at, inner), <<"promote", n>>) <=> Waiting(n)
      BY <3>2, <3>4, Zenon
    <3> QED BY <3>5, Zenon DEF at, inner
  <2>8. Catalogue(Below(<<"rail">>, A!Rail), Kinds, "open", RunNames)
    BY AmplifierOverview, Place1, CatalogueBelow
  <2>9. IsPart(A!Rail) /\ Silent(A!Rail)
    BY AmplifierOverview DEF Catalogue, Sound
  <2>10. Under(Below(<<"rail">>, A!Rail), {"rail"}) /\ Silent(Below(<<"rail">>, A!Rail))
    BY <2>9, Place1, UnderBelow, SilentParts
  <2> DEFINE left == Below(<<"rail">>, A!Rail)
             right == Below(<<"detail">>, A!Detail(r))
  <2> DEFINE none == {}
  <2>11. {"rail"} \intersect {"detail"} = {} /\ RunNames \intersect none = {} /\ RunNames \union none = RunNames
    OBVIOUS
  <2>12. main = left \union right
    BY <1>2, <2>3, Zenon
  <2> HIDE DEF left, right, main, detail, none
  <2>13. Catalogue(left, Kinds, "open", RunNames) /\ Catalogue(right, Kinds, "open", none)
         /\ Under(left, {"rail"}) /\ Under(right, {"detail"})
    BY <2>5, <2>6, <2>8, <2>10 DEF left, right, none
  <2>14. Catalogue(left \union right, Kinds, "open", RunNames \union none)
    BY <2>11, <2>13, CatalogueHeads, Zenon
  <2>15. Catalogue(left \union right, Kinds, "open", RunNames)
    BY <2>11, <2>14
  <2>16. \A n : Offers(left \union right, <<"promote", n>>) <=> Waiting(n)
    <3>1. Silent(left) /\ \A n : Offers(right, <<"promote", n>>) <=> Waiting(n)
      BY <2>7, <2>10 DEF left, right
    <3> QED BY <3>1 DEF Silent, Offers
  <2>17. Under(left \union right, {"overview", "rail", "detail"})
    BY <2>13 DEF Under
  <2> QED BY <2>12, <2>15, <2>16, <2>17, Zenon DEF main, detail
<1> QED BY <1>1, <1>2

LEMMA AmplifierScreen ==
  /\ Catalogue(A!Screen, Kinds, "open", RunNames)
  /\ \A n : Offers(A!Screen, <<"promote", n>>) <=> Waiting(n)
<1> DEFINE header == Below(<<"header">>, A!Header)
           agent == When(ui.agent, Below(<<"agent panel">>, A!AgentPanel))
           toast == When(ui.toast # A!NoToast, Below(<<"toast">>, A!Toast))
           others == header \union agent \union toast
           main == IF A!Opened(ui) = {} THEN Below(<<"overview">>, A!Overview)
                   ELSE Below(<<"rail">>, A!Rail) \union UNION {Below(<<"detail">>, A!Detail(r)) : r \in A!Opened(ui)}
           X == {"header"} \union {"agent panel"} \union {"toast"}
<1>1. A!Screen = header \union main \union agent \union toast
  BY Zenon DEF A!Screen, A!Below, Below, A!When, When
<1>2. /\ Plain(header) /\ Under(header, {"header"})
      /\ Plain(agent) /\ Under(agent, {"agent panel"}) /\ Plain(toast) /\ Under(toast, {"toast"})
  <2>1. /\ Plain(Below(<<"agent panel">>, A!AgentPanel)) /\ Under(Below(<<"agent panel">>, A!AgentPanel), {"agent panel"})
        /\ Plain(Below(<<"toast">>, A!Toast)) /\ Under(Below(<<"toast">>, A!Toast), {"toast"})
    BY AmplifierAgentPanel, PlainBelow, Zenon
  <2>2. Plain(header) /\ Under(header, {"header"})
    BY AmplifierHeader, PlainBelow
  <2> QED BY <2>1, <2>2, PlainWhen, Zenon
<1>3. /\ Catalogue(main, Kinds, "open", RunNames) /\ Under(main, {"overview", "rail", "detail"})
      /\ \A n : Offers(main, <<"promote", n>>) <=> Waiting(n)
  BY AmplifierMain, Zenon
<1>4. {"overview", "rail", "detail"} \intersect X = {} /\ "open" \in Shows
  BY ActsHere, Zenon
<1> HIDE DEF header, agent, toast, main
<1>5. Plain(others) /\ Under(others, X)
  BY <1>2, PlainThree, Zenon
<1>6. A!Screen = main \union others
  BY <1>1
<1> HIDE DEF others, X
<1>7. Catalogue(main \union others, Kinds, "open", RunNames)
  BY <1>3, <1>4, <1>5, CataloguePlain
<1>8. Silent(others)
  BY <1>5, SilentParts
<1>9. \A n : Offers(main \union others, <<"promote", n>>) <=> Waiting(n)
  BY <1>3, <1>8, Zenon DEF Silent, Offers
<1> QED BY <1>6, <1>7, <1>9

LEMMA AmplifierLibrary ==
  /\ \A act : A!L!AmpTextControl(act) = {Element(<<>>, "button", act, "")}
  /\ A!L!AttentionBadge = {Element(<<"badge">>, "mark", NoAct, "attention")}
  /\ \A attention, selected : A!L!ampEdge(attention, selected)
       = CASE attention > 0 -> "attention"
           [] attention = 0 /\ selected -> "selected"
           [] attention = 0 /\ ~selected -> "line"
  /\ \A c, part : A!L!When(c, part) = When(c, part)
  /\ \A at, part : A!L!Below(at, part) = Below(at, part)
  /\ \A at, kind, act, look : A!L!Element(at, kind, act, look) = Element(at, kind, act, look)
  /\ \A at, act : A!L!Button(at, act) = Element(at, "button", act, "")
  /\ \A at, act, look : A!L!Area(at, act, look) = Element(at, "area", act, look)
  /\ \A at : A!L!NewTab(at) = Element(at, "link", <<"new tab">>, "")
  /\ \A at, act : A!L!Input(at, act) = Element(at, "input", act, "")
  /\ \A at, act : A!L!Key(at, act) = Element(at, "key", act, "")
  /\ \A at, look : A!L!Mark(at, look) = Element(at, "mark", NoAct, look)
  /\ A!L!NoAct = NoAct
<1>1. /\ A!L!NoAct = NoAct
      /\ \A at, kind, act, look : A!L!Element(at, kind, act, look) = Element(at, kind, act, look)
  BY DEF A!L!NoAct, NoAct, A!L!Element, Element
<1>2. /\ \A at, act : A!L!Button(at, act) = Element(at, "button", act, "")
      /\ \A at, act, look : A!L!Area(at, act, look) = Element(at, "area", act, look)
      /\ \A at : A!L!NewTab(at) = Element(at, "link", <<"new tab">>, "")
      /\ \A at, act : A!L!Input(at, act) = Element(at, "input", act, "")
      /\ \A at, act : A!L!Key(at, act) = Element(at, "key", act, "")
      /\ \A at, look : A!L!Mark(at, look) = Element(at, "mark", NoAct, look)
  BY <1>1, Zenon DEF A!L!Button, A!L!Area, A!L!NewTab, A!L!Input, A!L!Key, A!L!Mark
<1>3. /\ \A c, part : A!L!When(c, part) = When(c, part)
      /\ \A at, part : A!L!Below(at, part) = Below(at, part)
  BY Zenon DEF A!L!When, When, A!L!Below, Below
<1>4. /\ \A act : A!L!AmpTextControl(act) = {Element(<<>>, "button", act, "")}
      /\ A!L!AttentionBadge = {Element(<<"badge">>, "mark", NoAct, "attention")}
  BY <1>2, Zenon DEF A!L!AmpTextControl, A!L!AttentionBadge
<1>5. \A attention, selected : A!L!ampEdge(attention, selected)
       = CASE attention > 0 -> "attention"
           [] attention = 0 /\ selected -> "selected"
           [] attention = 0 /\ ~selected -> "line"
  BY Zenon DEF A!L!ampEdge
<1> QED BY <1>1, <1>2, <1>3, <1>4, <1>5, Zenon

LEMMA AmplifierLibraryHeader ==
  A!Header = A!L!AmpHeader(
       Cardinality({r \in Run : A!AttentionOf(r) > 0}), <<"agent">>, ui.agent,
       A!When(A!Opened(ui) # {}, A!Below(<<"back">>, A!L!AmpTextControl(<<"back">>)))
       \union A!Below(<<"sort">>, A!L!AmpTextControl(<<"sort">>))
       \union A!Below(<<"theme">>, A!L!AmpTextControl(<<"theme">>))
       \union A!Below(<<"filter">>, A!L!AmpFilter(ui.filter, "filter")))
<1> DEFINE back == A!When(A!Opened(ui) # {}, A!Below(<<"back">>, A!Link(<<"back">>)))
           sort == A!Below(<<"sort">>, A!Link(<<"sort">>))
           theme == A!Below(<<"theme">>, A!Link(<<"theme">>))
           filter == A!Below(<<"filter">>, A!Filter)
           badge == {Element(<<"badge">>, "mark", NoAct, "attention")}
           agent == Below(<<"agent">>, {Element(<<>>, "button", <<"agent">>, IF ui.agent THEN "open" ELSE "")})
           count == Cardinality({r \in Run : A!AttentionOf(r) > 0})
<1>1. A!Header = back \union sort \union theme \union filter
                 \union When(\E r \in Run : A!AttentionOf(r) > 0, badge) \union agent
  <2>1. A!AttentionBadge = badge
    BY AmplifierBadge
  <2>2. A!Below(<<"agent">>, A!AgentButton) = agent
    BY AmplifierWords, Zenon DEF A!AgentButton
  <2> HIDE DEF agent, badge, back, sort, theme, filter
  <2>3. A!Header = back \union sort \union theme \union filter
                 \union A!When(\E r \in Run : A!AttentionOf(r) > 0, badge) \union agent
    BY <2>1, <2>2, Zenon DEF A!Header, back, sort, theme, filter
  <2>4. A!When(\E r \in Run : A!AttentionOf(r) > 0, badge) = When(\E r \in Run : A!AttentionOf(r) > 0, badge)
    BY Zenon DEF A!When, When
  <2> QED BY <2>3, <2>4, Zenon
<1>2. (\A act : A!L!AmpTextControl(act) = A!Link(act)) /\ A!L!AmpFilter(ui.filter, "filter") = A!Filter
  <2>1. \A act : A!L!AmpTextControl(act) = A!Link(act)
    BY AmplifierLibrary, AmplifierWords, Zenon DEF A!Link
  <2>2. A!L!AmpFilter(ui.filter, "filter") = A!Filter
    BY AmplifierLibrary, AmplifierWords, Zenon DEF A!L!AmpFilter, A!Filter, A!L!When, A!When
  <2> QED BY <2>1, <2>2
<1>3. (count > 0) <=> \E r \in Run : A!AttentionOf(r) > 0
  <2> DEFINE S == {r \in Run : A!AttentionOf(r) > 0}
  <2>1. IsFiniteSet(S)
    BY DataAssumption, FS_Subset
  <2>2. Cardinality(S) \in Nat /\ (Cardinality(S) = 0 <=> S = {})
    BY <2>1, FS_CardinalityType, FS_EmptySet
  <2> QED BY <2>2
<1> DEFINE children == back \union sort \union theme \union filter
<1>4. A!L!AmpHeader(count, <<"agent">>, ui.agent, children)
        = children \union When(count > 0, badge) \union agent
  <2>1. <<"agent">> # A!L!NoAct
    BY DEF A!L!NoAct
  <2>2. A!L!Below(<<"agent">>, A!L!AgentButton(<<"agent">>, ui.agent)) = agent
    BY AmplifierLibrary, Zenon DEF A!L!AgentButton
  <2>3. A!L!AttentionBadge = badge
    BY AmplifierLibrary, Zenon
  <2>4. \A x : A!L!When(<<"agent">> # A!L!NoAct, x) = x
    BY <2>1, Zenon DEF A!L!When
  <2> HIDE DEF agent, badge, children, count
  <2>5. A!L!AmpHeader(count, <<"agent">>, ui.agent, children)
        = children \union A!L!When(count > 0, A!L!AttentionBadge)
            \union A!L!When(<<"agent">> # A!L!NoAct, A!L!Below(<<"agent">>, A!L!AgentButton(<<"agent">>, ui.agent)))
    BY Zenon DEF A!L!AmpHeader
  <2>6. A!L!AmpHeader(count, <<"agent">>, ui.agent, children)
        = children \union A!L!When(count > 0, badge) \union agent
    BY <2>3, <2>4, <2>5, <2>2, Zenon
  <2>7. A!L!When(count > 0, badge) = When(count > 0, badge)
    BY Zenon DEF A!L!When, When
  <2> QED BY <2>6, <2>7, Zenon
<1>5. children = A!When(A!Opened(ui) # {}, A!Below(<<"back">>, A!L!AmpTextControl(<<"back">>)))
       \union A!Below(<<"sort">>, A!L!AmpTextControl(<<"sort">>))
       \union A!Below(<<"theme">>, A!L!AmpTextControl(<<"theme">>))
       \union A!Below(<<"filter">>, A!L!AmpFilter(ui.filter, "filter"))
  BY <1>2, Zenon
<1>6. When(count > 0, badge) = When(\E r \in Run : A!AttentionOf(r) > 0, badge)
  BY <1>3, Zenon DEF When
<1> HIDE DEF badge, agent, back, sort, theme, filter, count
<1>7. A!Header = children \union When(count > 0, badge) \union agent
  BY <1>1, <1>6
<1> HIDE DEF children
<1> QED BY <1>4, <1>5, <1>7, Zenon DEF count

LEMMA AmplifierLibraryTiles ==
  ASSUME NEW r \in Run
  PROVE  /\ A!Tile(r) = A!L!AmpTile(A!AttentionOf(r), <<"open", r.name>>)
         /\ \A selected : A!RailRow(r, selected)
              = A!L!AmpRailRow(A!AttentionOf(r), selected, <<"open", r.name>>)
<1>1. \A selected : A!L!ampEdge(A!AttentionOf(r), selected) = A!edgeColour(r, selected)
  BY Zenon DEF A!edgeColour, A!L!ampEdge
<1>2. A!L!AttentionBadge = A!AttentionBadge
  BY AmplifierLibrary, AmplifierBadge, Zenon
<1>3. \A c, part : A!L!When(c, part) = A!When(c, part)
  BY Zenon DEF A!L!When, A!When
<1>4. \A at, act, look : A!L!Area(at, act, look) = A!Area(at, act, look)
  BY AmplifierLibrary, AmplifierWords, Zenon
<1>5. A!Tile(r) = A!L!AmpTile(A!AttentionOf(r), <<"open", r.name>>)
  BY <1>1, <1>2, <1>3, <1>4, Zenon DEF A!Tile, A!L!AmpTile
<1>6. ASSUME NEW selected
      PROVE  A!RailRow(r, selected) = A!L!AmpRailRow(A!AttentionOf(r), selected, <<"open", r.name>>)
  BY <1>1, <1>2, <1>3, <1>4, Zenon DEF A!RailRow, A!L!AmpRailRow
<1> QED BY <1>5, <1>6

LEMMA AmplifierLibraryPanel ==
  A!AgentPanel = A!L!AmpAgentPanel(<<"type", "draft">>, <<"send">>, <<"close", "agent">>)
  BY AmplifierWords, AmplifierLibrary, Zenon DEF A!AgentPanel, A!L!AmpAgentPanel

(* The same of the application shell, whatever its runs; what waits for a  *)
(* word can be promoted just where it is opened.                           *)
THEOREM AmplifierScreenSound == A!ScreenSound
<1>1. /\ Catalogue(A!Screen, Kinds, "open", RunNames)
      /\ \A n : Offers(A!Screen, <<"promote", n>>) <=> Waiting(n)
  BY AmplifierScreen
<1>2. A!OneHandler
  <2>1. Sound(A!Screen)
    BY <1>1 DEF Catalogue
  <2>2. \A e \in A!Screen : Cardinality(Fired(A!Screen, e)) <= 1
    BY <2>1, CalmFiresOne
  <2> QED BY <2>2, AmplifierWords, Zenon DEF A!OneHandler
<1>3. A!ItemsShownOnce
  <2>1. ASSUME NEW r \in Run
        PROVE  Cardinality({e \in A!Screen : e.does = <<"open", r.name>>})
                 = IF r \in A!Visible THEN 1 ELSE 0
    <3>1. {e \in A!Screen : e.does = <<"open", r.name>>} = Offering(A!Screen, Kinds, <<"open", r.name>>)
      BY <1>1 DEF Offering, Catalogue, Sound, IsPart, IsElement
    <3>2. r \in A!Visible <=> r.name \in RunNames
      BY DataAssumption DEF RunNames, A!Visible
    <3>3. CASE r \in A!Visible
      <4>1. Once(A!Screen, Kinds, <<"open", r.name>>)
        BY <1>1, <3>2, <3>3 DEF Catalogue
      <4>2. Cardinality(Offering(A!Screen, Kinds, <<"open", r.name>>)) = 1
        BY <4>1, OfferedCount, Zenon
      <4> QED BY <3>1, <3>3, <4>2, Zenon
    <3>4. CASE r \notin A!Visible
      <4>1. Never(A!Screen, Kinds, <<"open", r.name>>)
        BY <1>1, <3>2, <3>4 DEF Catalogue
      <4>2. Cardinality(Offering(A!Screen, Kinds, <<"open", r.name>>)) = 0
        BY <4>1, OfferedCount, Zenon
      <4> QED BY <3>1, <3>4, <4>2, Zenon
    <3> QED BY <3>3, <3>4
  <2>2. ASSUME NEW r \in Run
        PROVE  Waiting(r.name) <=> r.name = ui.open /\ r.attention > 0 /\ r.name \notin ui.resolved
    BY DataAssumption DEF Waiting, A!Opened, A!AttentionOf
  <2>3. \A r \in Run : A!Offers(A!Screen, <<"promote", r.name>>)
                         <=> r.name = ui.open /\ r.attention > 0 /\ r.name \notin ui.resolved
    <3>1. \A act : A!Offers(A!Screen, act) <=> Offers(A!Screen, act)
      BY DEF A!Offers, Offers
    <3> QED BY <1>1, <2>2, <3>1, Zenon
  <2> QED BY <2>1, <2>3, AmplifierWords, Zenon DEF A!ItemsShownOnce
<1>4. A!AsTheLibrary
  <2>1. A!Deeds(A!Header) = A!Deeds(A!L!AmpHeader(
         A!Cardinality({r \in Run : A!AttentionOf(r) > 0}), <<"agent">>, ui.agent,
         A!When(A!Opened(ui) # {}, A!Below(<<"back">>, A!L!AmpTextControl(<<"back">>)))
         \union A!Below(<<"sort">>, A!L!AmpTextControl(<<"sort">>))
         \union A!Below(<<"theme">>, A!L!AmpTextControl(<<"theme">>))
         \union A!Below(<<"filter">>, A!L!AmpFilter(ui.filter, "filter"))))
    BY AmplifierLibraryHeader, AmplifierWords, Zenon
  <2>2. \A r \in Run :
          /\ A!Deeds(A!Tile(r)) = A!Deeds(A!L!AmpTile(A!AttentionOf(r), <<"open", r.name>>))
          /\ \A selected \in BOOLEAN :
               A!Deeds(A!RailRow(r, selected)) = A!Deeds(A!L!AmpRailRow(A!AttentionOf(r), selected, <<"open", r.name>>))
    BY AmplifierLibraryTiles, Zenon
  <2> QED BY <2>1, <2>2, AmplifierLibraryPanel, Zenon DEF A!AsTheLibrary
<1> QED BY <1>2, <1>3, <1>4 DEF A!ScreenSound
-----------------------------------------------------------------------------
(* The session dashboard's page.                                           *)

(* The words of its module and of its copy of the library are those of     *)
(* Elements.                                                               *)
LEMMA MuxplexWords ==
  /\ M!NoAct = NoAct
  /\ \A at, kind, act, look : M!Element(at, kind, act, look) = Element(at, kind, act, look)
  /\ \A at, act : M!Button(at, act) = Element(at, "button", act, "")
  /\ \A at, act, look : M!Area(at, act, look) = Element(at, "area", act, look)
  /\ \A at : M!NewTab(at) = Element(at, "link", <<"new tab">>, "")
  /\ \A at, act : M!Input(at, act) = Element(at, "input", act, "")
  /\ \A at, act : M!Key(at, act) = Element(at, "key", act, "")
  /\ \A at, look : M!Mark(at, look) = Element(at, "mark", NoAct, look)
  /\ \A e : M!Stopping(e) = Stopping(e)
  /\ \A c, part : M!When(c, part) = When(c, part)
  /\ \A at, part : M!Below(at, part) = Below(at, part)
  /\ \A part, e : M!Fired(part, e) = Fired(part, e)
  /\ \A part : M!Deeds(part) = Deeds(part)
  /\ \A S : M!Cardinality(S) = Cardinality(S)
<1>1. /\ M!NoAct = NoAct
      /\ \A at, kind, act, look : M!Element(at, kind, act, look) = Element(at, kind, act, look)
  BY DEF M!NoAct, NoAct, M!Element, Element
<1>2. /\ \A at, act : M!Button(at, act) = Element(at, "button", act, "")
      /\ \A at, act, look : M!Area(at, act, look) = Element(at, "area", act, look)
      /\ \A at : M!NewTab(at) = Element(at, "link", <<"new tab">>, "")
      /\ \A at, act : M!Input(at, act) = Element(at, "input", act, "")
      /\ \A at, act : M!Key(at, act) = Element(at, "key", act, "")
      /\ \A at, look : M!Mark(at, look) = Element(at, "mark", NoAct, look)
  BY <1>1, Zenon DEF M!Button, M!Area, M!NewTab, M!Input, M!Key, M!Mark
<1>3. /\ \A e : M!Stopping(e) = Stopping(e)
      /\ \A c, part : M!When(c, part) = When(c, part)
      /\ \A at, part : M!Below(at, part) = Below(at, part)
  BY Zenon DEF M!Stopping, Stopping, M!When, When, M!Below, Below
<1>4. /\ \A part, e : M!Fired(part, e) = Fired(part, e)
      /\ \A part : M!Deeds(part) = Deeds(part)
  BY Zenon DEF M!Fired, Fired, M!Around, Around, M!Clicked, Clicked, M!Sequence!IsPrefix,
               Sequence!IsPrefix, M!NoAct, NoAct, M!Deeds, Deeds
<1>5. \A S : M!Cardinality(S) = Cardinality(S)
  BY Zenon DEF M!Cardinality, Cardinality
<1> QED BY <1>1, <1>2, <1>3, <1>4, <1>5, Zenon

LEMMA MuxplexFilter == Plain(M!FilterInput)
<1> DEFINE input == {Element(<<"input">>, "input", <<"type", "filter">>, "")}
           clear == {Element(<<"clear">>, "button", <<"clear", "filter">>, "")}
<1>1. M!FilterInput = input \union When(ui.filter # "", clear)
  BY MuxplexWords, Zenon DEF M!FilterInput
<1>2. Plain(input) /\ Under(input, {"input"}) /\ Plain(clear) /\ Under(clear, {"clear"})
  BY PlainAt1, ActsHere, KindsAre, Zenon
<1> HIDE DEF input, clear
<1>3. Plain(When(ui.filter # "", clear)) /\ Under(When(ui.filter # "", clear), {"clear"})
  BY <1>2, PlainWhen, Zenon
<1> QED BY <1>1, <1>2, <1>3, PlainPair, Zenon

LEMMA MuxplexLinks ==
  \A act : Idle(act) => Plain(M!QuickLink(act)) /\ Plain(M!HeaderButton(TRUE, act)) /\ Plain(M!HeaderButton(FALSE, act))
<1>1. ASSUME NEW act, Idle(act)
      PROVE  Plain(M!QuickLink(act)) /\ Plain(M!HeaderButton(TRUE, act)) /\ Plain(M!HeaderButton(FALSE, act))
  <2> DEFINE button == {Element(<<>>, "button", act, "")}
             icon == {Element(<<"icon">>, "mark", NoAct, "amplifier")}
  <2>1. /\ M!QuickLink(act) = button
        /\ M!HeaderButton(TRUE, act) = button \union When(TRUE, icon)
        /\ M!HeaderButton(FALSE, act) = button \union When(FALSE, icon)
    BY MuxplexWords, Zenon DEF M!QuickLink, M!HeaderButton
  <2>2. Plain(button)
    BY <1>1, PlainHere, KindsAre, Zenon
  <2>3. Plain(icon) /\ Mute(icon)
    BY PlainAt1, ActsHere, MuteElement, Place1, KindsAre, Zenon
  <2> HIDE DEF button, icon
  <2>4. \A c : Plain(button \union When(c, icon))
    <3> TAKE c
    <3>1. Plain(When(c, icon)) /\ Mute(When(c, icon))
      BY <2>3, PlainWhen DEF When, Mute
    <3> QED BY <2>2, <3>1, PlainBeside DEF Plain
  <2> QED BY <2>1, <2>2, <2>4, Zenon
<1> QED BY <1>1, Zenon

LEMMA MuxplexHeader == Plain(M!Header)
<1> DEFINE rail == Below(<<"rail">>, M!QuickLink(<<"rail">>))
           view == Below(<<"view">>, M!QuickLink(<<"view">>))
           sort == Below(<<"sort">>, M!QuickLink(<<"sort">>))
           filter == Below(<<"filter">>, M!FilterInput)
           agent == Below(<<"agent">>, M!HeaderButton(TRUE, <<"agent">>))
           settings == Below(<<"settings">>, M!HeaderButton(FALSE, <<"show", "settings">>))
<1>1. M!Header = rail \union view \union sort \union filter \union agent \union settings
  BY MuxplexWords, Zenon DEF M!Header
<1>2. /\ Plain(M!QuickLink(<<"rail">>)) /\ Plain(M!QuickLink(<<"view">>)) /\ Plain(M!QuickLink(<<"sort">>))
      /\ Plain(M!HeaderButton(TRUE, <<"agent">>)) /\ Plain(M!HeaderButton(FALSE, <<"show", "settings">>))
  BY MuxplexLinks, ActsHere, Zenon
<1>3. /\ Plain(rail) /\ Under(rail, {"rail"}) /\ Plain(view) /\ Under(view, {"view"})
      /\ Plain(sort) /\ Under(sort, {"sort"})
  BY <1>2, PlainBelow
<1>4. /\ Plain(filter) /\ Under(filter, {"filter"}) /\ Plain(agent) /\ Under(agent, {"agent"})
      /\ Plain(settings) /\ Under(settings, {"settings"})
  BY <1>2, MuxplexFilter, PlainBelow
<1> HIDE DEF rail, view, sort, filter, agent, settings
<1>5. Plain(rail \union view \union sort \union filter \union agent \union settings)
  BY <1>3, <1>4, PlainSix, Zenon
<1> QED BY <1>1, <1>5

(* An entry for one session, in the rail and on the grid.                  *)
RailEntry(part, n) == Catalogue(part, {"area"}, "open", {n}) /\ Silent(part)
GridEntry(part, n) ==
  /\ Catalogue(part, {"area"}, "attach", {n}) /\ Catalogue(part, {"area"}, "open", {})
  /\ \A m : Offers(part, <<"attach", m>>) <=> m = n

LEMMA MuxplexEntries ==
  \A s : GridEntry(M!SessionTile(s), s.name) /\ \A active : RailEntry(M!SidebarItem(s, active), s.name)
<1> SUFFICES ASSUME NEW s
             PROVE  GridEntry(M!SessionTile(s), s.name) /\ \A active : RailEntry(M!SidebarItem(s, active), s.name)
  OBVIOUS
<1> DEFINE mark == {Element(<<"badge">>, "mark", NoAct, "bell")}
           badge == When(s.bell > 0, mark)
           kinds == {"area"}
           row(verb, look) == {Element(<<>>, "area", <<verb, s.name>>, look)}
           bell == IF s.bell > 0 THEN "bell" ELSE "line"
           colour(active) == IF s.bell > 0 THEN "bell" ELSE IF active THEN "active" ELSE "line"
<1>1. /\ M!SessionTile(s) = row("attach", bell) \union badge
      /\ \A active : M!SidebarItem(s, active) = row("open", colour(active)) \union badge
  BY MuxplexWords, Zenon DEF M!SessionTile, M!SidebarItem
<1>2. Plain(mark) /\ Mute(mark)
  BY PlainAt1, ActsHere, MuteElement, Place1, KindsAre, Zenon
<1> HIDE DEF mark
<1>3. Plain(badge) /\ Mute(badge)
  BY <1>2, PlainWhen DEF Mute, When
<1> HIDE DEF badge
<1>4. Shielded(badge) /\ Silent(badge)
  BY <1>3, SilentParts DEF Shielded, Mute
<1>5. "area" \in kinds
  OBVIOUS
<1> HIDE DEF kinds
<1>6. \A look : /\ Catalogue(row("open", look) \union badge, kinds, "open", {s.name})
                /\ Catalogue(row("attach", look) \union badge, kinds, "attach", {s.name})
  BY <1>3, <1>4, <1>5, ActsHere, TileShows, Zenon DEF Plain
<1>7. /\ \A look : \A e \in row("open", look) : e.does = <<"open", s.name>>
      /\ \A look : \E e \in row("attach", look) : e.does = <<"attach", s.name>>
      /\ \A look : \A e \in row("attach", look) : e.does = <<"attach", s.name>>
  BY DEF Element
<1>8. \A n : /\ <<"open", s.name>> # <<"promote", n>> /\ <<"open", s.name>> # <<"attach", n>>
             /\ <<"attach", s.name>> # <<"open", n>> /\ (<<"attach", n>> = <<"attach", s.name>> <=> n = s.name)
  OBVIOUS
<1> HIDE DEF row, bell, colour
<1>9. \A look : Silent(row("open", look) \union badge)
  <2>1. \A look : Silent(row("open", look))
    BY <1>7, <1>8 DEF Silent, Offers
  <2> QED BY <1>4, <2>1, SilentParts
<1>10. \A look : Catalogue(row("attach", look) \union badge, kinds, "open", {})
  <2> TAKE look
  <2>1. Sound(row("attach", look) \union badge)
    BY <1>6 DEF Catalogue
  <2>2. \A n : Never(row("attach", look), kinds, <<"open", n>>) /\ Never(badge, kinds, <<"open", n>>)
    BY <1>3, <1>7, <1>8, ActsHere, Zenon DEF Never, Offering, Plain
  <2>3. \A n : Never(row("attach", look) \union badge, kinds, <<"open", n>>)
    BY <2>2, OfferedPair, Zenon
  <2> QED BY <2>1, <2>3 DEF Catalogue
<1>11. \A look : \A m : Offers(row("attach", look) \union badge, <<"attach", m>>) <=> m = s.name
  BY <1>4, <1>7, <1>8 DEF Silent, Offers
<1>12. \A look : GridEntry(row("attach", look) \union badge, s.name) /\ RailEntry(row("open", look) \union badge, s.name)
  BY <1>6, <1>9, <1>10, <1>11, Zenon DEF GridEntry, RailEntry, kinds
<1> QED BY <1>1, <1>12, Zenon

SessionNames == {s.name : s \in M!Sessions}
SessionsOn(d) == {t \in M!Sessions : t.device = d}
NamesOn(d) == {s.name : s \in SessionsOn(d)}

LEMMA SessionData ==
  /\ \A s, t \in M!Sessions : s.name = t.name => s = t
  /\ Gather(SessionNames, Device, [d \in Device |-> NamesOn(d)])
  /\ \A d, e : d # e => NamesOn(d) \intersect NamesOn(e) = {}
<1>1. /\ \A s, t \in M!Sessions : s.name = t.name => s = t
      /\ \A s \in M!Sessions : s.device \in Device
  BY DataAssumption DEF M!Sessions
<1>2. \A n : n \in SessionNames <=> \E d \in Device : n \in NamesOn(d)
  BY <1>1 DEF SessionNames, NamesOn, SessionsOn
<1>3. Gather(SessionNames, Device, [d \in Device |-> NamesOn(d)])
  BY <1>2 DEF Gather
<1>4. \A d, e : d # e => NamesOn(d) \intersect NamesOn(e) = {}
  BY <1>1 DEF NamesOn, SessionsOn
<1> QED BY <1>1, <1>3, <1>4

LEMMA MuxplexDevice ==
  \A d : LET items == UNION {Below(<<s.name>>, M!SidebarItem(s, s.name = ui.open)) : s \in SessionsOn(d)}
         IN Catalogue(items, {"area"}, "open", NamesOn(d)) /\ Silent(items)
<1> SUFFICES ASSUME NEW d
             PROVE  LET items == UNION {Below(<<s.name>>, M!SidebarItem(s, s.name = ui.open)) : s \in SessionsOn(d)}
                    IN Catalogue(items, {"area"}, "open", NamesOn(d)) /\ Silent(items)
  OBVIOUS
<1> DEFINE S == SessionsOn(d)
           P == [s \in S |-> <<s.name>>]
           G == [s \in S |-> Below(<<s.name>>, M!SidebarItem(s, s.name = ui.open))]
           items == {Below(<<s.name>>, M!SidebarItem(s, s.name = ui.open)) : s \in S}
           kinds == {"area"}
<1>1. /\ \A s, t \in S : s.name = t.name => s = t
      /\ \A x : x \in NamesOn(d) <=> \E s \in S : x = s.name
  BY SessionData DEF SessionsOn, NamesOn
<1>2. /\ \A s \in S : P[s] = <<s.name>>
      /\ \A s \in S : G[s] = Below(<<s.name>>, M!SidebarItem(s, s.name = ui.open))
  BY Zenon
<1>3. /\ \A s \in S : IsPlace(P[s])
      /\ \A s, t \in S : s.name # t.name => Differ(P[s], P[t])
  BY <1>2, Place1, DifferAt, Zenon
<1> HIDE DEF P, G
<1>4. Family(items, S, G)
  BY <1>2 DEF Family
<1>5. \A s \in S : \E row : G[s] = Below(P[s], row) /\ RailEntry(row, s.name)
  BY <1>2, MuxplexEntries, Zenon
<1>6. \A s \in S : \E row : G[s] = Below(P[s], row) /\ Catalogue(row, kinds, "open", {s.name})
  BY <1>5, Zenon DEF RailEntry
<1> HIDE DEF S, items, kinds
<1>7. Listing(items, S, P, G, NamesOn(d), kinds, "open")
  BY <1>1, <1>3, <1>4, <1>6, Zenon DEF Listing
<1>8. Catalogue(UNION items, kinds, "open", NamesOn(d))
  BY <1>7, RowsByName, Zenon
<1>9. \A s \in S : \A row : RailEntry(row, s.name) => Silent(Below(P[s], row))
  BY <1>3, SilentParts DEF RailEntry, Catalogue, Sound
<1>10. \A s \in S : Silent(G[s])
  BY <1>5, <1>9, Zenon
<1>11. \A p \in items : Silent(p)
  BY <1>4, <1>10, Zenon DEF Family
<1>12. Silent(UNION items)
  BY <1>11, SilentParts
<1> QED BY <1>8, <1>12 DEF items, S, kinds

LEMMA MuxplexRail ==
  Catalogue(M!Rail, {"area"}, "open", SessionNames) /\ Silent(M!Rail)
<1> DEFINE sort == Below(<<"sort">>, M!QuickLink(<<"sort">>))
           filter == Below(<<"filter">>, M!FilterInput)
           text == {Element(<<"empty">>, "mark", NoAct, "No sessions match this filter.")}
           empty == When(M!Sessions = {}, text)
           new == Below(<<"new">>, M!QuickLink(NoAct))
           items(d) == UNION {Below(<<s.name>>, M!SidebarItem(s, s.name = ui.open)) : s \in SessionsOn(d)}
           G == [d \in Device |-> Below(<<"device", d>>, items(d))]
           N == [d \in Device |-> NamesOn(d)]
           parts == {Below(<<"device", d>>, items(d)) : d \in Device}
           kinds == {"area"}
           X == {"sort"} \union {"filter"} \union {"empty"} \union {"new"}
<1>1. M!Rail = sort \union filter \union empty \union new \union UNION parts
  BY Zenon DEF M!Rail, SessionsOn, M!Below, Below, M!When, When, M!Mark, M!Element, Element, M!NoAct, NoAct
<1>2. Plain(text) /\ Under(text, {"empty"})
  BY PlainAt1, ActsHere, KindsAre, Zenon
<1>3. /\ Plain(sort) /\ Under(sort, {"sort"}) /\ Plain(filter) /\ Under(filter, {"filter"})
      /\ Plain(new) /\ Under(new, {"new"})
  BY MuxplexFilter, MuxplexLinks, ActsHere, PlainBelow, Zenon
<1> HIDE DEF sort, filter, text, new
<1>4. Plain(empty) /\ Under(empty, {"empty"})
  BY <1>2, PlainWhen
<1> HIDE DEF empty
<1>5. Plain(sort \union filter \union empty \union new) /\ Under(sort \union filter \union empty \union new, X)
  BY <1>3, <1>4, PlainFour, Zenon
<1>6. \A d : Catalogue(items(d), kinds, "open", NamesOn(d)) /\ Silent(items(d))
  BY MuxplexDevice, Zenon
<1> HIDE DEF items, kinds
<1>7. Family(parts, Device, G)
  BY DEF Family
<1>8. /\ \A d \in Device : N[d] = NamesOn(d) /\ G[d] = Below(<<"device", d>>, items(d))
      /\ Gather(SessionNames, Device, N)
  BY SessionData
<1>9. \A d, e \in Device : d # e => N[d] \intersect N[e] = {}
  BY <1>8, SessionData
<1> HIDE DEF G, N
<1>10. \A d \in Device : \E section : /\ G[d] = Below(<<"device", d>>, section)
                                      /\ Catalogue(section, kinds, "open", N[d])
  BY <1>6, <1>8, Zenon
<1>11. Catalogue(UNION parts, kinds, "open", SessionNames) /\ Under(UNION parts, {"device"})
  <2> HIDE DEF parts
  <2>1. Sectioned(parts, Device, "device", G, N, SessionNames, kinds, "open")
    BY <1>7, <1>8, <1>9, <1>10, Zenon DEF Sectioned
  <2> QED BY <2>1, Sections, Zenon
<1>12. Silent(UNION parts)
  <2> DEFINE at(d) == <<"device", d>>
  <2>1. \A d : IsPlace(at(d)) /\ IsPart(items(d)) /\ Silent(items(d))
    BY <1>6, Place2 DEF Catalogue, Sound
  <2> HIDE DEF at
  <2>2. \A d : Silent(Below(at(d), items(d)))
    BY <2>1, SilentParts
  <2>3. \A p \in parts : Silent(p)
    BY <2>2, Zenon DEF at
  <2> QED BY <2>3, SilentParts
<1> HIDE DEF parts
<1>13. {"device"} \intersect X = {} /\ "open" \in Shows
  BY ActsHere, Zenon
<1> HIDE DEF X
<1>14. Catalogue((sort \union filter \union empty \union new) \union UNION parts, kinds, "open", SessionNames)
  BY <1>5, <1>11, <1>13, CataloguePlain
<1>15. Silent((sort \union filter \union empty \union new) \union UNION parts)
  BY <1>5, <1>12, SilentParts
<1> QED BY <1>1, <1>14, <1>15, Zenon DEF kinds

LEMMA MuxplexTiles ==
  LET tiles == UNION {Below(<<"tile", s.name>>, M!SessionTile(s)) : s \in M!Sessions}
  IN /\ Catalogue(tiles, {"area"}, "open", {}) /\ Under(tiles, {"tile"})
     /\ \A n : Offers(tiles, <<"attach", n>>) <=> n \in SessionNames
<1> DEFINE S == M!Sessions
           P == [s \in S |-> <<"tile", s.name>>]
           G == [s \in S |-> Below(<<"tile", s.name>>, M!SessionTile(s))]
           N == [s \in S |-> {}]
           parts == {Below(<<"tile", s.name>>, M!SessionTile(s)) : s \in S}
           kinds == {"area"}
           none == {}
<1>1. /\ \A s, t \in S : s.name = t.name => s = t
      /\ \A x : x \in SessionNames <=> \E s \in S : x = s.name
  BY SessionData DEF SessionNames
<1>2. /\ \A s \in S : P[s] = <<"tile", s.name>>
      /\ \A s \in S : G[s] = Below(<<"tile", s.name>>, M!SessionTile(s))
      /\ \A s \in S : N[s] = none
  BY Zenon
<1>3. /\ \A s \in S : IsPlace(P[s]) /\ Len(P[s]) = 2 /\ P[s][1] = "tile"
      /\ \A s, t \in S : s.name # t.name => Differ(P[s], P[t])
  BY <1>2, Place2, DifferAt, Zenon
<1> HIDE DEF P, G, N
<1>4. Family(parts, S, G)
  BY <1>2 DEF Family
<1>5. \A s \in S : \E row : G[s] = Below(P[s], row) /\ GridEntry(row, s.name)
  BY <1>2, MuxplexEntries, Zenon
<1> HIDE DEF S, parts
<1>6. ASSUME NEW s \in S
      PROVE  /\ Catalogue(G[s], kinds, "open", none) /\ Under(G[s], {"tile"})
             /\ \A m : Offers(G[s], <<"attach", m>>) <=> m = s.name
             /\ \E row : G[s] = Below(P[s], row) /\ IsPart(row)
  <2>1. PICK row : G[s] = Below(P[s], row) /\ GridEntry(row, s.name)
    BY <1>5
  <2>2. /\ Catalogue(row, kinds, "open", none) /\ IsPart(row)
        /\ \A m : Offers(row, <<"attach", m>>) <=> m = s.name
    BY <2>1 DEF GridEntry, Catalogue, Sound
  <2>3. IsPlace(P[s]) /\ Len(P[s]) > 0 /\ P[s][1] = "tile"
    BY <1>3
  <2> HIDE DEF kinds, none
  <2>4. Catalogue(G[s], kinds, "open", none)
    BY <2>1, <2>2, <2>3, CatalogueBelow
  <2>5. Under(G[s], {"tile"})
    BY <2>1, <2>2, <2>3, UnderBelow
  <2>6. \A act : Offers(G[s], act) <=> Offers(row, act)
    <3>1. Below(P[s], row) = {Moves(e, P[s]) : e \in row} /\ \A e \in row : Moves(e, P[s]).does = e.does
      BY <2>2, <2>3, BelowMoves
    <3> QED BY <2>1, <3>1 DEF Offers
  <2> QED BY <2>1, <2>2, <2>4, <2>5, <2>6
<1>7. \A s, t \in S : s # t => Apart(G[s], G[t])
  <2>1. \A s, t \in S : s # t => Differ(P[s], P[t])
    BY <1>1, <1>3
  <2>2. \A s \in S : IsPlace(P[s])
    BY <1>3
  <2>3. \A s \in S : \E row : G[s] = Below(P[s], row) /\ IsPart(row)
    BY <1>6
  <2> QED BY <2>1, <2>2, <2>3, ApartAt
<1>8. Gather(none, S, N)
  BY <1>2 DEF Gather
<1> HIDE DEF kinds
<1>9. Catalogue(UNION parts, kinds, "open", none)
  <2>1. \A s \in S : Catalogue(G[s], kinds, "open", N[s])
    BY <1>2, <1>6
  <2>2. \A s, t \in S : s # t => Apart(G[s], G[t]) /\ N[s] \intersect N[t] = {}
    BY <1>2, <1>7
  <2> HIDE DEF none
  <2> QED BY <1>4, <1>8, <2>1, <2>2, Gathered
<1>10. \A p \in parts : Under(p, {"tile"})
  BY <1>4, <1>6 DEF Family
<1>11. Under(UNION parts, {"tile"})
  BY <1>10, UnderUnion
<1>12. \A n : Offers(UNION parts, <<"attach", n>>) <=> n \in SessionNames
  <2>1. \A act : Offers(UNION parts, act) <=> \E s \in S : Offers(G[s], act)
    BY <1>4 DEF Offers, Family
  <2> QED BY <1>1, <1>6, <2>1, Zenon
<1> QED BY <1>9, <1>11, <1>12 DEF parts, S, kinds

LEMMA MuxplexTiers ==
  LET tiers == UNION {Below(<<"tier", t>>, M!FilterPill(ui.tier = t, <<"tier", t>>)) : t \in M!Tier}
  IN Plain(tiers) /\ Under(tiers, {"tier"})
<1> DEFINE T == M!Tier
           P == [t \in T |-> <<"tier", t>>]
           V == [t \in T |-> IF ui.tier = t THEN "active" ELSE ""]
           tiers == UNION {Below(<<"tier", t>>, M!FilterPill(ui.tier = t, <<"tier", t>>)) : t \in T}
<1>1. tiers = UNION {Below(P[t], {Element(<<>>, "button", P[t], V[t])}) : t \in T}
  BY MuxplexWords, Zenon DEF M!FilterPill
<1>2. /\ \A t \in T : IsPlace(P[t]) /\ Len(P[t]) = 2 /\ P[t][1] = "tier" /\ Idle(P[t])
      /\ \A s, t \in T : s # t => Differ(P[s], P[t])
  BY Place2, DifferAt, ActsHere, Zenon
<1> HIDE DEF P, V, T
<1>3. tiers = Pills(T, P, P, V)
  BY <1>1, <1>2, PillsTogether
<1> HIDE DEF tiers
<1>4. /\ Flat(Pills(T, P, P, V)) /\ \A e \in Pills(T, P, P, V) : Idle(e.does)
  BY <1>2, PillsFlat
<1>5. Under(Pills(T, P, P, V), {"tier"})
  <2>1. \A t \in T : IsPlace(P[t]) /\ Len(P[t]) > 0 /\ P[t][1] \in {"tier"}
    BY <1>2
  <2> QED BY <1>2, <2>1, PillsFlat
<1>6. Plain(Pills(T, P, P, V))
  BY <1>4, FlatIsSound, QuietIsPlain
<1> QED BY <1>3, <1>5, <1>6 DEF tiers, T

LEMMA MuxplexGrid ==
  /\ Catalogue(M!SessionGrid, {"area"}, "open", {})
  /\ \A n : Offers(M!SessionGrid, <<"attach", n>>) <=> n \in SessionNames
<1> DEFINE text == {Element(<<"empty">>, "mark", NoAct, "No sessions match this filter.")}
           empty == When(M!Sessions = {}, text)
           tiers == UNION {Below(<<"tier", t>>, M!FilterPill(ui.tier = t, <<"tier", t>>)) : t \in M!Tier}
           tiles == UNION {Below(<<"tile", s.name>>, M!SessionTile(s)) : s \in M!Sessions}
           kinds == {"area"}
           none == {}
           X == {"empty"} \union {"tier"}
<1>1. M!SessionGrid = empty \union tiers \union tiles
  BY Zenon DEF M!SessionGrid, M!Below, Below, M!When, When, M!Mark, M!Element, Element, M!NoAct, NoAct
<1>2. Plain(text) /\ Under(text, {"empty"})
  BY PlainAt1, ActsHere, KindsAre, Zenon
<1> HIDE DEF text
<1>3. Plain(empty) /\ Under(empty, {"empty"})
  BY <1>2, PlainWhen
<1>4. Plain(tiers) /\ Under(tiers, {"tier"})
  BY MuxplexTiers
<1>5. /\ Catalogue(tiles, kinds, "open", none) /\ Under(tiles, {"tile"})
      /\ \A n : Offers(tiles, <<"attach", n>>) <=> n \in SessionNames
  BY MuxplexTiles
<1> HIDE DEF empty, tiers, tiles, kinds, none
<1>6. Plain(empty \union tiers) /\ Under(empty \union tiers, X)
  BY <1>3, <1>4, PlainPair, Zenon
<1>7. {"tile"} \intersect X = {} /\ "open" \in Shows
  BY ActsHere, Zenon
<1> HIDE DEF X
<1>8. Catalogue((empty \union tiers) \union tiles, kinds, "open", none)
  BY <1>5, <1>6, <1>7, CataloguePlain
<1>9. Silent(empty \union tiers)
  BY <1>6, SilentParts
<1>10. \A n : Offers((empty \union tiers) \union tiles, <<"attach", n>>) <=> n \in SessionNames
  BY <1>5, <1>9 DEF Silent, Offers
<1> QED BY <1>1, <1>8, <1>10, Zenon DEF kinds, none

(* What is in the dialog, here and with the library's components.          *)
BellActs == [m \in M!BellMode |-> <<"bell", m>>]
BellPlaces == [m \in M!BellMode |-> <<m>>]
BellLooks == [m \in M!BellMode |-> IF ui.bellMode = m THEN "active" ELSE ""]
MuxplexZoom == {Element(<<"zoom">>, "input", <<"zoom">>, "")}
MuxplexFields == MuxplexZoom \union Pills(M!BellMode, BellActs, BellActs, BellLooks)
LibraryFields == MuxplexZoom \union Pills(M!BellMode, BellPlaces, BellActs, BellLooks)

LEMMA MuxplexBells ==
  /\ \A m \in M!BellMode : /\ IsPlace(BellActs[m]) /\ Len(BellActs[m]) = 2 /\ BellActs[m][1] = "bell"
                           /\ Idle(BellActs[m])
                           /\ IsPlace(BellPlaces[m]) /\ Len(BellPlaces[m]) = 1 /\ BellPlaces[m][1] = m
  /\ \A m, n \in M!BellMode : m # n => Differ(BellActs[m], BellActs[n]) /\ Differ(BellPlaces[m], BellPlaces[n])
<1>1. \A m \in M!BellMode : BellActs[m] = <<"bell", m>>
  BY Zenon DEF BellActs
<1>2. \A m \in M!BellMode : BellPlaces[m] = <<m>>
  BY Zenon DEF BellPlaces
<1>3. \A m \in M!BellMode : IsPlace(BellActs[m]) /\ Len(BellActs[m]) = 2 /\ BellActs[m][1] = "bell"
  <2> DEFINE P == [m \in M!BellMode |-> <<"bell", m>>]
  <2>1. \A m \in M!BellMode : IsPlace(P[m]) /\ Len(P[m]) = 2 /\ P[m][1] = "bell"
    BY Place2, Zenon
  <2> QED BY <2>1, Zenon DEF BellActs
<1>4. \A m \in M!BellMode : Idle(BellActs[m])
  BY <1>1, ActsHere, Zenon
<1>5. \A m \in M!BellMode : IsPlace(BellPlaces[m]) /\ Len(BellPlaces[m]) = 1 /\ BellPlaces[m][1] = m
  BY <1>2, Place1, Zenon
<1>6. \A m, n \in M!BellMode : m # n => Differ(BellActs[m], BellActs[n]) /\ Differ(BellPlaces[m], BellPlaces[n])
  <2>1. \A m, n \in M!BellMode : m # n => Differ(BellActs[m], BellActs[n])
    BY <1>1, DifferAt, Zenon
  <2>2. \A m, n \in M!BellMode : m # n => Differ(BellPlaces[m], BellPlaces[n])
    BY <1>2, DifferAt, Zenon
  <2> QED BY <2>1, <2>2
<1> QED BY <1>3, <1>5, <1>6, <1>4

LEMMA MuxplexFieldsFlat ==
  /\ Flat(MuxplexFields) /\ Flat(LibraryFields) /\ Looks(MuxplexFields) = Looks(LibraryFields)
  /\ \A e \in MuxplexFields : Idle(e.does)
  /\ \E X : Under(MuxplexFields, X) /\ "close" \notin X
  /\ \E X : Under(LibraryFields, X) /\ "close" \notin X
<1> DEFINE p == Pills(M!BellMode, BellActs, BellActs, BellLooks)
           q == Pills(M!BellMode, BellPlaces, BellActs, BellLooks)
           B == M!BellMode
<1>1. Flat(MuxplexZoom) /\ Under(MuxplexZoom, {"zoom"})
  BY FlatAt1, KindsAre, Zenon DEF MuxplexZoom
<1>2. \A e \in MuxplexZoom : Idle(e.does)
  BY ActsHere, IdleElement, Zenon DEF MuxplexZoom
<1>3. Flat(p) /\ (\A e \in p : Idle(e.does))
  BY MuxplexBells, PillsFlat
<1>4. Flat(q)
  BY MuxplexBells, PillsFlat
<1>5. Under(p, {"bell"})
  <2>1. \A m \in M!BellMode : IsPlace(BellActs[m]) /\ Len(BellActs[m]) > 0 /\ BellActs[m][1] \in {"bell"}
    BY MuxplexBells
  <2> QED BY <2>1, MuxplexBells, PillsFlat
<1>6. Under(q, B)
  <2>1. \A m \in M!BellMode : IsPlace(BellPlaces[m]) /\ Len(BellPlaces[m]) > 0 /\ BellPlaces[m][1] \in B
    BY MuxplexBells
  <2> QED BY <2>1, MuxplexBells, PillsFlat
<1>7. Looks(p) = Looks(q)
  BY PillsLook
<1>8. /\ {"zoom"} \intersect {"bell"} = {} /\ {"zoom"} \intersect B = {}
      /\ "close" \notin {"zoom"} \union {"bell"} /\ "close" \notin {"zoom"} \union B
  BY DEF M!BellMode
<1> HIDE DEF p, q, B
<1>9. MuxplexFields = MuxplexZoom \union p /\ LibraryFields = MuxplexZoom \union q
  BY Zenon DEF MuxplexFields, LibraryFields, p, q
<1>10. /\ Flat(MuxplexZoom \union p) /\ Under(MuxplexZoom \union p, {"zoom"} \union {"bell"})
       /\ Flat(MuxplexZoom \union q) /\ Under(MuxplexZoom \union q, {"zoom"} \union B)
  BY <1>1, <1>3, <1>4, <1>5, <1>6, <1>8, FlatHeads
<1>11. Looks(MuxplexZoom \union p) = Looks(MuxplexZoom \union q)
  <2>1. /\ Looks(MuxplexZoom \union p) = Looks(MuxplexZoom) \union Looks(p)
        /\ Looks(MuxplexZoom \union q) = Looks(MuxplexZoom) \union Looks(q)
    BY LooksOf, Zenon
  <2> QED BY <1>7, <2>1, Zenon
<1>12. \A e \in MuxplexZoom \union p : Idle(e.does)
  BY <1>2, <1>3
<1> QED BY <1>8, <1>9, <1>10, <1>11, <1>12, Zenon

LEMMA MuxplexSettings ==
  M!SettingsDialog = Dialog(<<"close", "settings">>, MuxplexFields) /\ Plain(M!SettingsDialog)
<1> DEFINE act == <<"close", "settings">>
           pills == UNION {Below(<<"bell", m>>, M!FilterPill(ui.bellMode = m, <<"bell", m>>)) : m \in M!BellMode}
<1>1. pills = Pills(M!BellMode, BellActs, BellActs, BellLooks)
  <2>1. pills = UNION {Below(BellActs[m], {Element(<<>>, "button", BellActs[m], BellLooks[m])}) : m \in M!BellMode}
    BY MuxplexWords, Zenon DEF M!FilterPill, BellActs, BellLooks
  <2> HIDE DEF pills
  <2> QED BY <2>1, MuxplexBells, PillsTogether
<1>2. M!SettingsDialog = M!Modal(act, MuxplexFields)
  <2>1. M!SettingsDialog = M!Modal(act, MuxplexZoom \union pills)
    BY MuxplexWords, Zenon DEF M!SettingsDialog, MuxplexZoom
  <2> QED BY <1>1, <2>1, Zenon DEF MuxplexFields
<1> HIDE DEF pills, act
<1>3. \A fields : M!Modal(act, fields) = Dialog(act, fields)
  BY MuxplexWords, DialogIs, Zenon DEF M!Modal
<1>4. M!SettingsDialog = Dialog(act, MuxplexFields)
  BY <1>2, <1>3, Zenon
<1>5. Idle(act)
  BY ActsHere, Zenon DEF act
<1>6. Plain(Dialog(act, MuxplexFields))
  BY <1>5, MuxplexFieldsFlat, DialogFlat, Zenon
<1> QED BY <1>4, <1>6 DEF act

LEMMA MuxplexAgentPanel == Plain(M!AgentPanel) /\ Plain(M!Toast)
<1> DEFINE close == {Element(<<"close">>, "button", <<"close", "agent">>, "")}
           draft == {Element(<<"draft">>, "input", <<"type", "draft">>, "")}
           enter == {Element(<<"draft", "enter">>, "key", <<"send">>, "")}
           send == {Element(<<"send">>, "button", <<"send">>, "")}
           powered == {Element(<<"powered">>, "link", <<"top">>, "")}
<1>1. M!AgentPanel = close \union draft \union enter \union send \union powered
  <2>1. M!AgentPanel = {Element(<<"close">>, "button", <<"close", "agent">>, ""),
                        Element(<<"draft">>, "input", <<"type", "draft">>, ""),
                        Element(<<"draft", "enter">>, "key", <<"send">>, ""),
                        Element(<<"send">>, "button", <<"send">>, ""),
                        Element(<<"powered">>, "link", <<"top">>, "")}
    BY MuxplexWords, Zenon DEF M!AgentPanel
  <2> QED BY <2>1, Singles, Zenon
<1>2. /\ Plain(close) /\ Under(close, {"close"}) /\ Plain(send) /\ Under(send, {"send"})
      /\ Plain(draft) /\ Plain(powered) /\ Under(powered, {"powered"})
  BY PlainAt1, ActsHere, KindsAre, Zenon
<1>3. Mute(draft) /\ Mute(enter) /\ Plain(enter)
  BY MuteElement, Place1, Place2, OneElement, ActsHere, KindsAre, Zenon
<1>4. Plain(M!Toast)
  BY MuxplexWords, PlainHere, ActsHere, KindsAre, Zenon DEF M!Toast
<1> HIDE DEF close, draft, enter, send, powered
<1>5. Plain(close \union send \union powered) /\ Plain(draft \union enter) /\ Mute(draft \union enter)
  <2>1. Plain(close \union send \union powered)
    BY <1>2, PlainThree, Zenon
  <2>2. Plain(draft \union enter)
    BY <1>2, <1>3, PlainBeside DEF Plain
  <2>3. Mute(draft \union enter)
    BY <1>3 DEF Mute
  <2> QED BY <2>1, <2>2, <2>3
<1>6. Plain((close \union send \union powered) \union (draft \union enter))
  BY <1>5, PlainBeside DEF Plain
<1>7. M!AgentPanel = (close \union send \union powered) \union (draft \union enter)
  BY <1>1
<1> QED BY <1>4, <1>6, <1>7

LEMMA MuxplexPill ==
  /\ Catalogue(M!SessionPillFloating, {"area"}, "open", {}) /\ Silent(M!SessionPillFloating)
<1> DEFINE does(act) == {Element(<<>>, "button", act, "")}
           deploy == <<"open", "deploy">>
           button == does(deploy)
           dot == {Element(<<"dot">>, "mark", NoAct, "bell")}
<1>1. M!SessionPillFloating = button \union dot
  <2>1. M!SessionPillFloating
          = {Element(<<>>, "button", <<"open", "deploy">>, ""), Element(<<"dot">>, "mark", NoAct, "bell")}
    BY MuxplexWords, Zenon DEF M!SessionPillFloating
  <2> QED BY <2>1, Singles, Zenon
<1>2. Plain(dot) /\ Mute(dot)
  BY PlainAt1, ActsHere, MuteElement, Place1, KindsAre, Zenon
<1>3. Sound(button)
  BY Place0, OneElement, KindsAre, Zenon
<1>4. \A act : \A e \in does(act) : e.does = act /\ e.kind = "button"
  <2> DEFINE k == "button"
  <2>1. \A at, act, look : Element(at, k, act, look).kind = k
    BY DEF Element
  <2>2. \A at, act, look : Element(at, k, act, look).does = act
    BY DEF Element
  <2> HIDE DEF k
  <2>3. \A act : \A e \in {Element(<<>>, k, act, "")} : e.kind = k
    BY <2>1, Zenon
  <2>4. \A act : \A e \in {Element(<<>>, k, act, "")} : e.does = act
    <3> DEFINE at == <<>>
               look == ""
    <3> HIDE DEF at, look
    <3>1. \A act : \A e \in {Element(at, k, act, look)} : e.does = act
      BY <2>2
    <3> QED BY <3>1, Zenon DEF at, look
  <2> QED BY <2>3, <2>4, Zenon DEF k
<1> HIDE DEF does
<1>5. \A e \in button : e.does = deploy /\ e.kind = "button"
  BY <1>4, Zenon
<1>6. \A n : deploy # <<"promote", n>> /\ deploy # <<"attach", n>>
  OBVIOUS
<1> HIDE DEF button, dot, deploy
<1>7. Sound(button \union dot)
  BY <1>2, <1>3, PlainBeside DEF Plain
<1>8. \A n : Never(button, {"area"}, <<"open", n>>) /\ Never(dot, {"area"}, <<"open", n>>)
  BY <1>2, <1>5, ActsHere, Zenon DEF Never, Offering, Plain
<1>9. \A n : Never(button \union dot, {"area"}, <<"open", n>>)
  BY <1>8, OfferedPair, Zenon
<1>10. Silent(button \union dot)
  <2>1. Silent(button)
    BY <1>5, <1>6 DEF Silent, Offers
  <2> QED BY <1>2, <2>1, SilentParts
<1> QED BY <1>1, <1>7, <1>9, <1>10 DEF Catalogue

(* What the components of the library are, as this page uses them.         *)
LEMMA MuxplexLibrary ==
  /\ \A c, part : M!L!When(c, part) = When(c, part)
  /\ \A at, part : M!L!Below(at, part) = Below(at, part)
  /\ \A at, kind, act, look : M!L!Element(at, kind, act, look) = Element(at, kind, act, look)
  /\ \A at, act : M!L!Button(at, act) = Element(at, "button", act, "")
  /\ \A at, act, look : M!L!Area(at, act, look) = Element(at, "area", act, look)
  /\ \A at : M!L!NewTab(at) = Element(at, "link", <<"new tab">>, "")
  /\ \A at, act : M!L!Input(at, act) = Element(at, "input", act, "")
  /\ \A at, act : M!L!Key(at, act) = Element(at, "key", act, "")
  /\ \A at, look : M!L!Mark(at, look) = Element(at, "mark", NoAct, look)
  /\ M!L!NoAct = NoAct
<1>1. /\ M!L!NoAct = NoAct
      /\ \A at, kind, act, look : M!L!Element(at, kind, act, look) = Element(at, kind, act, look)
  BY DEF M!L!NoAct, NoAct, M!L!Element, Element
<1>2. /\ \A at, act : M!L!Button(at, act) = Element(at, "button", act, "")
      /\ \A at, act, look : M!L!Area(at, act, look) = Element(at, "area", act, look)
      /\ \A at : M!L!NewTab(at) = Element(at, "link", <<"new tab">>, "")
      /\ \A at, act : M!L!Input(at, act) = Element(at, "input", act, "")
      /\ \A at, act : M!L!Key(at, act) = Element(at, "key", act, "")
      /\ \A at, look : M!L!Mark(at, look) = Element(at, "mark", NoAct, look)
  BY <1>1, Zenon DEF M!L!Button, M!L!Area, M!L!NewTab, M!L!Input, M!L!Key, M!L!Mark
<1>3. /\ \A c, part : M!L!When(c, part) = When(c, part)
      /\ \A at, part : M!L!Below(at, part) = Below(at, part)
  BY Zenon DEF M!L!When, When, M!L!Below, Below
<1> QED BY <1>1, <1>2, <1>3, Zenon

LEMMA MuxplexMain ==
  LET main == Below(<<"main">>, IF M!Opened(ui) = {} THEN M!SessionGrid ELSE M!SessionView)
  IN /\ Catalogue(main, {"area"}, "open", {}) /\ Under(main, {"main"})
     /\ \A n : Offers(main, <<"attach", n>>) <=> n \in SessionNames /\ M!Opened(ui) = {}
<1> DEFINE inner == IF M!Opened(ui) = {} THEN M!SessionGrid ELSE M!SessionView
           at == <<"main">>
           none == {}
           kinds == {"area"}
<1>1. Plain(M!SessionView)
  <2>1. Plain(M!QuickLink(<<"back">>))
    BY MuxplexLinks, ActsHere, Zenon
  <2>2. Plain(Below(<<"back">>, M!QuickLink(<<"back">>)))
    BY <2>1, PlainBelow
  <2> QED BY <2>2, MuxplexWords, Zenon DEF M!SessionView
<1>2. Catalogue(M!SessionView, kinds, "open", none) /\ Silent(M!SessionView)
  <2>1. "open" \in Shows
    BY ActsHere, Zenon
  <2> QED BY <1>1, <2>1, PlainIsCatalogue, SilentParts
<1>3. /\ Catalogue(M!SessionGrid, kinds, "open", none)
      /\ \A n : Offers(M!SessionGrid, <<"attach", n>>) <=> n \in SessionNames
  BY MuxplexGrid
<1>4. IsPlace(at) /\ Len(at) > 0 /\ at[1] = "main"
  BY Place1, Zenon
<1> HIDE DEF none, kinds, at
<1>5. /\ Catalogue(inner, kinds, "open", none)
      /\ \A n : Offers(inner, <<"attach", n>>) <=> n \in SessionNames /\ M!Opened(ui) = {}
  <2>1. CASE M!Opened(ui) = {}
    BY <1>3, <2>1
  <2>2. CASE M!Opened(ui) # {}
    BY <1>2, <2>2 DEF Silent
  <2> QED BY <2>1, <2>2
<1> HIDE DEF inner
<1>6. IsPart(inner)
  BY <1>5 DEF Catalogue, Sound
<1>7. Catalogue(Below(at, inner), kinds, "open", none) /\ Under(Below(at, inner), {"main"})
  BY <1>4, <1>5, <1>6, CatalogueBelow, UnderBelow
<1>8. Below(at, inner) = {Moves(e, at) : e \in inner} /\ \A e \in inner : Moves(e, at).does = e.does
  BY <1>4, <1>6, BelowMoves
<1>9. \A act : Offers(Below(at, inner), act) <=> Offers(inner, act)
  BY <1>8 DEF Offers
<1>10. \A n : Offers(Below(at, inner), <<"attach", n>>) <=> n \in SessionNames /\ M!Opened(ui) = {}
  BY <1>5, <1>9, Zenon
<1> QED BY <1>7, <1>10 DEF inner, at, none, kinds

LEMMA MuxplexOthers ==
  LET header == Below(<<"header">>, M!Header)
      dialog == When(ui.settings, Below(<<"settings dialog">>, M!SettingsDialog))
      agent == When(ui.agent, Below(<<"agent panel">>, M!AgentPanel))
      toast == When(ui.toast # M!NoToast, Below(<<"toast">>, M!Toast))
  IN /\ Plain(header \union dialog \union agent \union toast)
     /\ Under(header \union dialog \union agent \union toast,
              {"header"} \union {"settings dialog"} \union {"agent panel"} \union {"toast"})
<1> DEFINE header == Below(<<"header">>, M!Header)
           dialog == When(ui.settings, Below(<<"settings dialog">>, M!SettingsDialog))
           agent == When(ui.agent, Below(<<"agent panel">>, M!AgentPanel))
           toast == When(ui.toast # M!NoToast, Below(<<"toast">>, M!Toast))
<1>1. /\ Plain(Below(<<"agent panel">>, M!AgentPanel)) /\ Under(Below(<<"agent panel">>, M!AgentPanel), {"agent panel"})
      /\ Plain(Below(<<"toast">>, M!Toast)) /\ Under(Below(<<"toast">>, M!Toast), {"toast"})
  BY MuxplexAgentPanel, PlainBelow, Zenon
<1>2. /\ Plain(Below(<<"settings dialog">>, M!SettingsDialog))
      /\ Under(Below(<<"settings dialog">>, M!SettingsDialog), {"settings dialog"})
  BY MuxplexSettings, PlainBelow, Zenon
<1>3. Plain(header) /\ Under(header, {"header"})
  BY MuxplexHeader, PlainBelow
<1>4. /\ Plain(dialog) /\ Under(dialog, {"settings dialog"})
      /\ Plain(agent) /\ Under(agent, {"agent panel"}) /\ Plain(toast) /\ Under(toast, {"toast"})
  BY <1>1, <1>2, PlainWhen, Zenon
<1> HIDE DEF header, dialog, agent, toast
<1>5. /\ Plain(header \union dialog \union agent \union toast)
      /\ Under(header \union dialog \union agent \union toast,
              {"header"} \union {"settings dialog"} \union {"agent panel"} \union {"toast"})
  BY <1>3, <1>4, PlainFour, Zenon
<1> QED BY <1>5, Zenon DEF header, dialog, agent, toast

LEMMA MuxplexScreen ==
  /\ Catalogue(M!Screen, {"area"}, "open", SessionNames)
  /\ \A n : Offers(M!Screen, <<"attach", n>>) <=> n \in SessionNames /\ M!Opened(ui) = {}
<1> DEFINE sidebar == Below(<<"sidebar">>, M!Rail)
           main == Below(<<"main">>, IF M!Opened(ui) = {} THEN M!SessionGrid ELSE M!SessionView)
           shown == M!Opened(ui) = {} /\ \E s \in Session : s.bell > 0
           floating == Below(<<"pill">>, M!SessionPillFloating)
           pill == When(shown, floating)
           header == Below(<<"header">>, M!Header)
           dialog == When(ui.settings, Below(<<"settings dialog">>, M!SettingsDialog))
           agent == When(ui.agent, Below(<<"agent panel">>, M!AgentPanel))
           toast == When(ui.toast # M!NoToast, Below(<<"toast">>, M!Toast))
           others == header \union dialog \union agent \union toast
           X == {"header"} \union {"settings dialog"} \union {"agent panel"} \union {"toast"}
           kinds == {"area"}
           none == {}
<1>1. M!Screen = header \union sidebar \union main \union pill \union dialog \union agent \union toast
  BY Zenon DEF M!Screen, M!Below, Below, M!When, When
<1>2. Plain(others) /\ Under(others, X)
  BY MuxplexOthers, Zenon
<1>3. /\ Catalogue(main, kinds, "open", none) /\ Under(main, {"main"})
      /\ \A n : Offers(main, <<"attach", n>>) <=> n \in SessionNames /\ M!Opened(ui) = {}
  BY MuxplexMain, Zenon
<1>4. {"main", "sidebar", "pill"} \intersect X = {} /\ "open" \in Shows
  BY ActsHere, Zenon
<1>5. {"sidebar"} \intersect {"main"} = {} /\ {"sidebar", "main"} \intersect {"pill"} = {}
  OBVIOUS
<1>6. SessionNames \intersect none = {} /\ SessionNames \union none = SessionNames
  OBVIOUS
<1>7. M!Screen = ((sidebar \union main) \union pill) \union others
  <2> HIDE DEF sidebar, main, pill, header, dialog, agent, toast
  <2> QED BY <1>1
<1> HIDE DEF header, dialog, agent, toast, others, main, kinds, none, shown
<1>8. Catalogue(sidebar, kinds, "open", SessionNames) /\ Under(sidebar, {"sidebar"}) /\ Silent(sidebar)
  <2>1. Catalogue(M!Rail, kinds, "open", SessionNames) /\ Silent(M!Rail)
    BY MuxplexRail DEF kinds
  <2>2. IsPart(M!Rail)
    BY <2>1 DEF Catalogue, Sound
  <2> QED BY <2>1, <2>2, Place1, CatalogueBelow, UnderBelow, SilentParts
<1>9. Catalogue(pill, kinds, "open", none) /\ Under(pill, {"pill"}) /\ Silent(pill)
  <2>1. Catalogue(M!SessionPillFloating, kinds, "open", none) /\ Silent(M!SessionPillFloating)
    BY MuxplexPill DEF kinds, none
  <2>2. IsPart(M!SessionPillFloating)
    BY <2>1 DEF Catalogue, Sound
  <2>3. Catalogue(floating, kinds, "open", none) /\ Under(floating, {"pill"}) /\ Silent(floating)
    BY <2>1, <2>2, Place1, CatalogueBelow, UnderBelow, SilentParts
  <2>4. "open" \in Shows
    BY <1>4
  <2>5. Catalogue({}, kinds, "open", none) /\ Under({}, {"pill"}) /\ Silent({})
    BY <2>4, PlainNothing, PlainIsCatalogue, SilentParts DEF none
  <2> HIDE DEF floating
  <2>6. CASE shown
    BY <2>3, <2>6 DEF When
  <2>7. CASE ~shown
    BY <2>5, <2>7 DEF When
  <2> QED BY <2>6, <2>7
<1> HIDE DEF sidebar, pill
<1>10. Catalogue(sidebar \union main, kinds, "open", SessionNames) /\ Under(sidebar \union main, {"sidebar", "main"})
  <2>1. Catalogue(sidebar \union main, kinds, "open", SessionNames \union none)
    BY <1>3, <1>5, <1>6, <1>8, CatalogueHeads, Zenon
  <2>2. Under(sidebar \union main, {"sidebar", "main"})
    BY <1>3, <1>8 DEF Under
  <2> QED BY <1>6, <2>1, <2>2
<1>11. Catalogue((sidebar \union main) \union pill, kinds, "open", SessionNames)
  <2>1. Catalogue((sidebar \union main) \union pill, kinds, "open", SessionNames \union none)
    BY <1>5, <1>6, <1>9, <1>10, CatalogueHeads, Zenon
  <2> QED BY <1>6, <2>1
<1>12. Under((sidebar \union main) \union pill, {"main", "sidebar", "pill"})
  BY <1>9, <1>10 DEF Under
<1> HIDE DEF X
<1>13. Catalogue(((sidebar \union main) \union pill) \union others, kinds, "open", SessionNames)
  BY <1>2, <1>4, <1>11, <1>12, CataloguePlain
<1>14. Silent(others)
  BY <1>2, SilentParts
<1>15. \A n : Offers(((sidebar \union main) \union pill) \union others, <<"attach", n>>)
                 <=> n \in SessionNames /\ M!Opened(ui) = {}
  BY <1>3, <1>8, <1>9, <1>14 DEF Silent, Offers
<1> QED BY <1>7, <1>13, <1>15, Zenon DEF kinds

LEMMA MuxplexLibraryParts ==
  /\ M!FilterInput = M!L!FilterInput(ui.filter, "filter", <<"clear", "filter">>)
  /\ M!HeaderButton(TRUE, <<"agent">>) = M!L!HeaderButton(TRUE, <<"agent">>)
  /\ M!QuickLink(<<"sort">>) = M!L!QuickLink(<<"sort">>)
  /\ M!SessionPillFloating = M!L!SessionPill(TRUE, <<"open", "deploy">>)
<1>1. \A c, part : M!L!When(c, part) = M!When(c, part)
  BY Zenon DEF M!L!When, M!When
<1>2. M!FilterInput = M!L!FilterInput(ui.filter, "filter", <<"clear", "filter">>)
  BY <1>1, MuxplexLibrary, MuxplexWords, Zenon DEF M!FilterInput, M!L!FilterInput
<1>3. M!HeaderButton(TRUE, <<"agent">>) = M!L!HeaderButton(TRUE, <<"agent">>)
  BY <1>1, MuxplexLibrary, MuxplexWords, Zenon DEF M!HeaderButton, M!L!HeaderButton
<1>4. M!QuickLink(<<"sort">>) = M!L!QuickLink(<<"sort">>)
  BY MuxplexLibrary, MuxplexWords, Zenon DEF M!QuickLink, M!L!QuickLink
<1>5. M!SessionPillFloating = M!L!SessionPill(TRUE, <<"open", "deploy">>)
  <2> DEFINE button == Element(<<>>, "button", <<"open", "deploy">>, "")
             dot == Element(<<"dot">>, "mark", NoAct, "bell")
  <2>1. M!SessionPillFloating = {button, dot}
    BY MuxplexWords, Zenon DEF M!SessionPillFloating
  <2>2. M!L!SessionPill(TRUE, <<"open", "deploy">>) = {button} \union {dot}
    BY MuxplexLibrary, Zenon DEF M!L!SessionPill, M!L!When
  <2> QED BY <2>1, <2>2, Singles, Zenon
<1> QED BY <1>2, <1>3, <1>4, <1>5

LEMMA MuxplexLibraryEntries ==
  ASSUME NEW s
  PROVE  /\ M!SessionTile(s) = M!L!SessionTile(s.bell, <<"attach", s.name>>)
         /\ \A active : M!SidebarItem(s, active)
              = M!L!SidebarItem(active, s.bell > 0, M!When(s.bell > 0, {M!Mark(<<"badge">>, "bell")}), <<"open", s.name>>)
<1>1. \A c, part : M!L!When(c, part) = M!When(c, part)
  BY Zenon DEF M!L!When, M!When
<1>2. \A at, act, look : M!L!Area(at, act, look) = M!Area(at, act, look)
  BY MuxplexLibrary, MuxplexWords, Zenon
<1>3. \A at, look : M!L!Mark(at, look) = M!Mark(at, look)
  BY MuxplexLibrary, MuxplexWords, Zenon
<1>4. M!SessionTile(s) = M!L!SessionTile(s.bell, <<"attach", s.name>>)
  BY <1>1, <1>2, <1>3, Zenon DEF M!SessionTile, M!L!SessionTile
<1>5. ASSUME NEW active
      PROVE  M!SidebarItem(s, active)
              = M!L!SidebarItem(active, s.bell > 0, M!When(s.bell > 0, {M!Mark(<<"badge">>, "bell")}), <<"open", s.name>>)
  BY <1>2, Zenon DEF M!SidebarItem, M!L!SidebarItem
<1> QED BY <1>4, <1>5

(* The dialog of the library holds the same pills at other places.         *)
LEMMA MuxplexLibrarySettings ==
  M!Deeds(M!SettingsDialog) = M!Deeds(M!L!Modal(<<"close", "settings">>,
       {M!Input(<<"zoom">>, <<"zoom">>)} \union
       UNION {M!Below(<<m>>, M!L!FilterPill(ui.bellMode = m, <<"bell", m>>)) : m \in M!BellMode}))
<1> DEFINE act == <<"close", "settings">>
           pills == UNION {M!Below(<<m>>, M!L!FilterPill(ui.bellMode = m, <<"bell", m>>)) : m \in M!BellMode}
           zoom == {M!Input(<<"zoom">>, <<"zoom">>)}
<1>1. pills = Pills(M!BellMode, BellPlaces, BellActs, BellLooks)
  <2>1. pills = UNION {Below(BellPlaces[m], {Element(<<>>, "button", BellActs[m], BellLooks[m])}) : m \in M!BellMode}
    BY MuxplexWords, MuxplexLibrary, Zenon DEF M!L!FilterPill, BellPlaces, BellActs, BellLooks
  <2> HIDE DEF pills
  <2> QED BY <2>1, MuxplexBells, PillsTogether
<1>2. zoom = MuxplexZoom
  BY MuxplexWords, Zenon DEF MuxplexZoom
<1> HIDE DEF pills, act, zoom
<1>3. \A fields : M!L!Modal(act, fields) = Dialog(act, fields)
  BY MuxplexLibrary, DialogIs, Zenon DEF M!L!Modal
<1>4. M!L!Modal(act, zoom \union pills) = Dialog(act, LibraryFields)
  BY <1>1, <1>2, <1>3, Zenon DEF LibraryFields
<1>5. Deeds(Dialog(act, MuxplexFields)) = Deeds(Dialog(act, LibraryFields))
  BY MuxplexFieldsFlat, DialogsAgree
<1>6. M!SettingsDialog = Dialog(act, MuxplexFields)
  BY MuxplexSettings, Zenon DEF act
<1>7. M!Deeds(M!SettingsDialog) = M!Deeds(M!L!Modal(act, zoom \union pills))
  BY <1>4, <1>5, <1>6, MuxplexWords, Zenon
<1> QED BY <1>7 DEF act, zoom, pills

(* The same of the session dashboard; on the grid each session that        *)
(* matches can be attached, and only while none is open.                   *)
THEOREM MuxplexScreenSound == M!ScreenSound
<1>1. /\ Catalogue(M!Screen, {"area"}, "open", SessionNames)
      /\ \A n : Offers(M!Screen, <<"attach", n>>) <=> n \in SessionNames /\ M!Opened(ui) = {}
  BY MuxplexScreen
<1>2. M!OneHandler
  <2>1. Sound(M!Screen)
    BY <1>1 DEF Catalogue
  <2>2. \A e \in M!Screen : Cardinality(Fired(M!Screen, e)) <= 1
    BY <2>1, CalmFiresOne
  <2> QED BY <2>2, MuxplexWords, Zenon DEF M!OneHandler
<1>3. M!ItemsShownOnce
  <2>1. ASSUME NEW s \in Session
        PROVE  s \in M!Sessions <=> s.name \in SessionNames
    BY DataAssumption DEF SessionNames, M!Sessions
  <2>2. ASSUME NEW s \in Session
        PROVE  Cardinality({e \in M!Screen : e.kind = "area" /\ e.does = <<"open", s.name>>})
                 = IF s \in M!Sessions THEN 1 ELSE 0
    <3>1. {e \in M!Screen : e.kind = "area" /\ e.does = <<"open", s.name>>}
            = Offering(M!Screen, {"area"}, <<"open", s.name>>)
      BY DEF Offering
    <3>2. CASE s \in M!Sessions
      <4>1. Once(M!Screen, {"area"}, <<"open", s.name>>)
        BY <1>1, <2>1, <3>2 DEF Catalogue
      <4>2. Cardinality(Offering(M!Screen, {"area"}, <<"open", s.name>>)) = 1
        BY <4>1, OfferedCount, Zenon
      <4> QED BY <3>1, <3>2, <4>2, Zenon
    <3>3. CASE s \notin M!Sessions
      <4>1. Never(M!Screen, {"area"}, <<"open", s.name>>)
        BY <1>1, <2>1, <3>3 DEF Catalogue
      <4>2. Cardinality(Offering(M!Screen, {"area"}, <<"open", s.name>>)) = 0
        BY <4>1, OfferedCount, Zenon
      <4> QED BY <3>1, <3>3, <4>2, Zenon
    <3> QED BY <3>2, <3>3
  <2>3. \A s \in Session : M!Offers(M!Screen, <<"attach", s.name>>) <=> s \in M!Sessions /\ M!Opened(ui) = {}
    <3>1. \A act : M!Offers(M!Screen, act) <=> Offers(M!Screen, act)
      BY DEF M!Offers, Offers
    <3> QED BY <1>1, <2>1, <3>1, Zenon
  <2> QED BY <2>2, <2>3, MuxplexWords, Zenon DEF M!ItemsShownOnce
<1>4. M!AsTheLibrary
  <2>1. /\ M!Deeds(M!FilterInput) = M!Deeds(M!L!FilterInput(ui.filter, "filter", <<"clear", "filter">>))
        /\ M!Deeds(M!HeaderButton(TRUE, <<"agent">>)) = M!Deeds(M!L!HeaderButton(TRUE, <<"agent">>))
        /\ M!Deeds(M!QuickLink(<<"sort">>)) = M!Deeds(M!L!QuickLink(<<"sort">>))
        /\ M!Deeds(M!SessionPillFloating) = M!Deeds(M!L!SessionPill(TRUE, <<"open", "deploy">>))
    BY MuxplexLibraryParts, Zenon
  <2>2. \A s \in Session :
          LET badge == M!When(s.bell > 0, {M!Mark(<<"badge">>, "bell")})
          IN /\ M!Deeds(M!SessionTile(s)) = M!Deeds(M!L!SessionTile(s.bell, <<"attach", s.name>>))
             /\ \A active \in BOOLEAN : M!Deeds(M!SidebarItem(s, active))
                  = M!Deeds(M!L!SidebarItem(active, s.bell > 0, badge, <<"open", s.name>>))
    BY MuxplexLibraryEntries, Zenon
  <2> QED BY <2>1, <2>2, MuxplexLibrarySettings, Zenon DEF M!AsTheLibrary
<1> QED BY <1>2, <1>3, <1>4 DEF M!ScreenSound

-----------------------------------------------------------------------------
(* Whatever was clicked before: every page shows each item that matches    *)
(* its filter once and no other, offers what the library's components      *)
(* would, and runs at most one handler for a click on any of its elements. *)
THEOREM ScreensAreSound == Spec => []ScreenSound
<1>1. IInv => ScreenSound
  <2> SUFFICES ASSUME IInv PROVE ScreenSound
    OBVIOUS
  <2>1. kit = "registry" => R!ScreenSound
    BY RegistryTyped, RegistryScreenSound DEF IInv
  <2>2. kit = "directory" => D!ScreenSound
    BY DirectoryTyped, DirectoryScreenSound DEF IInv
  <2> QED BY <2>1, <2>2, AmplifierScreenSound, MuxplexScreenSound DEF IInv, ScreenSound
<1> QED BY <1>1, Invariant, PTL
=============================================================================
