--------------------------- MODULE DcRuntimeProofs ---------------------------
(***************************************************************************)
(* Proofs about DcRuntime, for every set of components, templates, scripts *)
(* and modules, and every order of tasks.                                  *)
(***************************************************************************)
EXTENDS DcRuntime, FiniteSetTheorems, SequenceTheorems, TLAPS

SomeTemplate == Template \union {NoTemplate}

EntryOK(e) ==
  /\ e \in [html : SomeTemplate, tpl : SomeTemplate, logic : {e.logic}, logicError : BOOLEAN,
            htmlStreaming : BOOLEAN, jsStreaming : BOOLEAN, fetched : BOOLEAN]
  /\ e.logic = NoClass \/ e.logic.src \in Source

ViewOK(v) ==
  v \in [kind : {"placeholder", "circular", "error", "template"}, tpl : SomeTemplate,
         logic : {v.logic}, problem : {v.problem}, hole : {v.hole}, refs : {v.refs},
         html : {v.html}, js : {v.js}]

InstanceOK(i) ==
  /\ i \in [logic : {i.logic}, failed : {i.failed}, retry : BOOLEAN, needsDidMount : BOOLEAN,
            live : BOOLEAN, err : BOOLEAN, shown : {i.shown}]
  /\ ViewOK(i.shown)

KnobsOK == knobs \in [set : Knobs \union {0}, next : Knobs \union {0}, shown : Knobs \union {0},
                      heard : BOOLEAN, missed : BOOLEAN]

ObservedOK == observed \in [html : [Name -> SomeTemplate], logic : {observed.logic},
                            slip : BOOLEAN, torn : BOOLEAN]
              /\ DOMAIN observed.logic = Name

(* The state has the shape the tasks expect.                               *)
Typed ==
  /\ reg = [n \in Name |-> reg[n]]
  /\ \A n \in Name : EntryOK(reg[n])
  /\ asked \subseteq {n \in Name : reg[n].fetched}
  /\ page \in {"mounting", "mounted", "unmounted"}
  /\ Mounted \subseteq Path
  /\ inst = [p \in Mounted |-> inst[p]]
  /\ \A p \in Mounted : InstanceOK(inst[p])
  /\ \A p \in Mounted : Len(p) = 1 \/ SubSeq(p, 1, Len(p) - 1) \in Mounted
  /\ dirty \subseteq Mounted \union {RootPath}
  /\ KnobsOK
  /\ ObservedOK
  /\ head \subseteq Global
  /\ live \subseteq Name
  /\ budget \in Nat
  /\ reloading \in SomeTemplate
  /\ cache \in [Url -> {"none", "loading", "ok", "failed"}]
  /\ poll = [g \in DOMAIN poll |-> poll[g]]
  /\ \A g \in DOMAIN poll : poll[g] \in 0..PollLimit
-----------------------------------------------------------------------------
(* Paths and what a render makes of them.                                  *)

LEMMA Parameters ==
  /\ IsFiniteSet(Name) /\ Root \in Name /\ NoTemplate \notin Template
  /\ NoSource \notin Source /\ PollLimit \in Nat \ {0}
  /\ NoScript \notin Global
  /\ \A t \in Template : /\ t.kids \subseteq Name \X Nat
                         /\ t.scripts \subseteq Global
                         /\ t.cut \in Global \union {NoScript}
                         /\ \A b \in t.refs : b.ref \in Reference
BY RuntimeAssumption, ExternalAssumption DEF TemplateType

LEMMA EmptySeqIsFunction == DOMAIN <<>> = {} /\ <<>> = [i \in {} |-> <<>>[i]]
OBVIOUS

LEMMA DepthIsNat == Depth \in Nat /\ Depth >= 1
BY Parameters, FS_CardinalityType DEF Depth

LEMMA FunctionIsSeq ==
  ASSUME NEW S, NEW n \in Nat, NEW f \in [1..n -> S]
  PROVE  f \in Seq(S) /\ Len(f) = n
<1>1. f \in Seq(S)
  BY SeqDef
<1>2. Len(f) \in Nat /\ 1..Len(f) = 1..n
  BY <1>1, LenProperties
<1>3. Len(f) = n
  BY <1>2
<1> QED BY <1>1, <1>3

LEMMA RootPathIsSeq ==
  /\ RootPath \in Seq(Name \X Nat) /\ Len(RootPath) = 1
  /\ RootPath[1] = <<Root, 0>>
BY Parameters DEF RootPath

LEMMA PathType ==
  ASSUME NEW p \in Path
  PROVE  /\ p \in Seq(Name \X Nat) /\ Len(p) \in 1..Depth
         /\ p[1] = <<Root, 0>> /\ \A i \in 2..Len(p) : p[i] \in Import
<1>0. PICK d \in 0..(Depth - 1) : \E s \in [1..d -> Import] : p = RootPath \o s
  BY DEF Path
<1>1. PICK s \in [1..d -> Import] : p = RootPath \o s
  BY <1>0
<1>2. Import \subseteq Name \X Nat
  BY Parameters DEF Import
<1>3. s \in Seq(Name \X Nat) /\ Len(s) = d
  BY <1>1, <1>2, DepthIsNat, FunctionIsSeq, SeqMonotonic
<1>5. p \in Seq(Name \X Nat) /\ Len(p) = 1 + d
  BY <1>1, <1>3, RootPathIsSeq, ConcatProperties
<1>6. p[1] = <<Root, 0>> /\ \A i \in 2..Len(p) : p[i] = s[i - 1]
  BY <1>1, <1>3, <1>5, RootPathIsSeq, ConcatProperties
<1>7. \A i \in 2..Len(p) : s[i - 1] \in Import
  BY <1>1, <1>5, DepthIsNat
<1> QED BY <1>5, <1>6, <1>7, DepthIsNat

LEMMA PathFrom ==
  ASSUME NEW p \in Seq(Name \X Nat), Len(p) \in 1..Depth, p[1] = <<Root, 0>>,
         \A i \in 2..Len(p) : p[i] \in Import
  PROVE  p \in Path
<1> DEFINE d == Len(p) - 1
           s == [i \in 1..d |-> p[i + 1]]
<1>1. d \in 0..(Depth - 1) /\ s \in [1..d -> Import]
  BY DepthIsNat
<1>2. Import \subseteq Name \X Nat
  BY Parameters DEF Import
<1>3. s \in Seq(Name \X Nat) /\ Len(s) = d
  BY <1>1, <1>2, DepthIsNat, FunctionIsSeq, SeqMonotonic
<1>5. RootPath \o s \in Seq(Name \X Nat) /\ Len(RootPath \o s) = Len(p)
  <2>1. Len(RootPath \o s) = Len(RootPath) + Len(s)
    BY <1>3, RootPathIsSeq, ConcatProperties
  <2>2. RootPath \o s \in Seq(Name \X Nat)
    BY <1>3, RootPathIsSeq, ConcatProperties
  <2> QED BY <1>3, <2>1, <2>2, RootPathIsSeq, DepthIsNat
<1>6. \A i \in 1..Len(p) : (RootPath \o s)[i] = p[i]
  <2> DEFINE q == RootPath \o s
  <2>1. \A i \in 1..(Len(RootPath) + Len(s)) :
          q[i] = IF i <= Len(RootPath) THEN RootPath[i] ELSE s[i - Len(RootPath)]
    BY <1>3, RootPathIsSeq, ConcatProperties
  <2>2. \A j \in 1..d : s[j] = p[j + 1]
    OBVIOUS
  <2>3. d \in Nat /\ Len(s) = d
    BY <1>3, DepthIsNat
  <2> HIDE DEF q, s
  <2> SUFFICES ASSUME NEW i \in 1..Len(p) PROVE q[i] = p[i]
    BY DEF q
  <2>4. q[i] = IF i <= 1 THEN RootPath[i] ELSE s[i - 1]
    BY <2>1, <2>3, RootPathIsSeq, DepthIsNat
  <2>5. CASE i = 1
    BY <2>4, <2>5, RootPathIsSeq
  <2>6. CASE i # 1
    <3>1. i - 1 \in 1..d /\ (i - 1) + 1 = i
      BY <2>6, DepthIsNat
    <3>2. q[i] = s[i - 1]
      BY <2>4, <2>6, DepthIsNat
    <3> QED BY <2>2, <3>1, <3>2
  <2> QED BY <2>5, <2>6
<1>7. p = RootPath \o s
  BY <1>5, <1>6, SeqEqual
<1> QED BY <1>1, <1>7 DEF Path

LEMMA RootIsPath == RootPath \in Path /\ Len(RootPath) = 1
<1>1. Len(RootPath) \in 1..Depth /\ \A i \in 2..Len(RootPath) : RootPath[i] \in Import
  BY RootPathIsSeq, DepthIsNat
<1> QED BY <1>1, RootPathIsSeq, PathFrom

LEMMA NameOfPath == ASSUME NEW p \in Path PROVE Of(p) \in Name
BY PathType, DepthIsNat DEF Of

(* The part of a path up to one of its components.                         *)
LEMMA PrefixOfPath ==
  ASSUME NEW p \in Path, NEW k \in 1..Len(p)
  PROVE  /\ SubSeq(p, 1, k) \in Path /\ Len(SubSeq(p, 1, k)) = k
         /\ \A i \in 1..k : SubSeq(SubSeq(p, 1, k), 1, i) = SubSeq(p, 1, i)
<1> DEFINE q == SubSeq(p, 1, k)
<1>1. p \in Seq(Name \X Nat) /\ Len(p) \in 1..Depth /\ k \in Nat
  BY PathType, DepthIsNat
<1>2. \A i \in 1..k : p[i] \in Name \X Nat
  BY <1>1, ElementOfSeq, DepthIsNat
<1>3. q \in Seq(Name \X Nat) /\ Len(q) = k /\ \A i \in 1..k : q[i] = p[i]
  BY <1>1, <1>2, SubSeqProperties, DepthIsNat
<1>4. Len(q) \in 1..Depth /\ q[1] = <<Root, 0>> /\ \A i \in 2..Len(q) : q[i] \in Import
  BY <1>1, <1>3, PathType, DepthIsNat
<1>5. q \in Path
  BY <1>3, <1>4, PathFrom
<1>6. ASSUME NEW i \in 1..k PROVE SubSeq(q, 1, i) = SubSeq(p, 1, i)
  <2>1. 1 \in 1..Len(p) /\ k \in 1..Len(p) /\ 1 \in 1..(k - 1 + 1) /\ i \in 1..(k - 1 + 1)
    BY <1>1, DepthIsNat
  <2>2. SubSeq(SubSeq(p, 1, k), 1, i) = SubSeq(p, 1 + 1 - 1, 1 + i - 1)
    BY <1>1, <2>1, SubSeqOfSubSeq
  <2>3. 1 + 1 - 1 = 1 /\ 1 + i - 1 = i
    OBVIOUS
  <2> QED BY <2>2, <2>3
<1> QED BY <1>3, <1>5, <1>6

(* What is mounted after a render is closed towards the root.              *)
LEMMA TreeIsClosed ==
  /\ Tree \subseteq Path
  /\ Tree # {} => RootPath \in Tree
  /\ \A p \in Tree : Len(p) = 1 \/ SubSeq(p, 1, Len(p) - 1) \in Tree
<1>1. Tree \subseteq Path
  BY DEF Tree
<1>2. Grown(RootPath)
  BY RootIsPath DEF Grown, Reached
<1>3. Tree # {} => RootPath \in Tree
  BY <1>2, RootIsPath DEF Tree
<1>4. ASSUME NEW p \in Tree, Len(p) # 1 PROVE SubSeq(p, 1, Len(p) - 1) \in Tree
  <2> DEFINE k == Len(p) - 1
             q == SubSeq(p, 1, k)
  <2>1. p \in Path /\ Grown(p) /\ ~Throws(RootPath)
    BY DEF Tree
  <2>2. k \in 1..Len(p) /\ Len(p) \in Nat
    <3>1. Len(p) \in 1..Depth
      BY <2>1, PathType
    <3>2. \A n \in 1..Depth : n \in Nat /\ (n # 1 => n - 1 \in 1..n)
      BY DepthIsNat
    <3> QED BY <1>4, <3>1, <3>2
  <2>3. q \in Path /\ Len(q) = k /\ \A i \in 1..k : SubSeq(q, 1, i) = SubSeq(p, 1, i)
    BY <2>1, <2>2, PrefixOfPath
  <2>4. ASSUME NEW i \in 1..(Len(q) - 1)
        PROVE  SubSeq(q, 1, i + 1) \in KidsOf(SubSeq(q, 1, i)) /\ ~Catches(SubSeq(q, 1, i))
    <3>1. i \in 1..k /\ i + 1 \in 1..k /\ i \in 1..(Len(p) - 1)
      BY <2>2, <2>3
    <3> QED BY <2>1, <2>3, <3>1 DEF Grown, Reached
  <2> QED BY <2>1, <2>3, <2>4 DEF Grown, Reached, Tree
<1> QED BY <1>1, <1>3, <1>4

LEMMA TplOfType ==
  ASSUME Typed, NEW p \in Path
  PROVE  TplOf(p) \in SomeTemplate
BY NameOfPath DEF TplOf, Redone, Typed, EntryOK, InstanceOK, ViewOK

(* Everything that is rendered is a component with an entry.               *)
LEMMA AttemptedType ==
  ASSUME Typed
  PROVE  \A p \in Attempted : Of(p) \in Name /\ Redone(p) /\ TplOf(p) = reg[Of(p)].tpl
BY NameOfPath DEF Attempted, TplOf
-----------------------------------------------------------------------------
(* What an instance shows, as a function of the entry it is rendered with, *)
(* its own state, and the loader's.                                        *)

ResolveIn(c, w, ref) ==
  LET settled == c[ref.url] \in {"ok", "failed"}
      exported == IF c[ref.url] = "ok" THEN Exports[ref.url] ELSE {}
  IN CASE ref.scope # "global" ->
            IF ref.url = NoUrl \/ ~settled THEN "waiting"
            ELSE IF ref.name \in exported \union w THEN "component" ELSE "error"
       [] ref.scope = "global" /\ ref.url = NoUrl ->
            IF ref.name \in w THEN "component" ELSE "waiting"
       [] OTHER -> IF ~settled THEN "waiting"
                   ELSE IF ref.name \in w THEN "component"
                   ELSE IF ~ref.dotted THEN "element"
                   ELSE IF c[ref.url] = "failed" THEN "error" ELSE "blank"

LEMMA ResolveIs == \A ref : Resolve(ref) = ResolveIn(cache, window, ref)
BY DEF Resolve, ResolveIn, ResolveExport, ResolveGlobal, Settled, Exported

LEMMA ResolveNext == \A ref : Resolve(ref)' = ResolveIn(cache', window', ref)
BY DEF Resolve, ResolveIn, ResolveExport, ResolveGlobal, Settled, Exported

Kind(e, i, circular) == IF circular THEN "circular"
                        ELSE IF i.err THEN "error"
                        ELSE IF e.tpl = NoTemplate THEN "placeholder" ELSE "template"

(* Whether a reference is hidden, as long as it streams, by its container. *)
Shaded(b, hole, e) == b.bound /\ hole # "filled" /\ e.htmlStreaming

RefView(b, hole, e, c, w) ==
  <<b.ref, IF ResolveIn(c, w, b.ref) = "component" /\ Shaded(b, hole, e)
           THEN "placeholder" ELSE ResolveIn(c, w, b.ref)>>

Look(e, i, circular, c, w) ==
  LET shows == Kind(e, i, circular) = "template"
  IN [kind |-> Kind(e, i, circular),
      tpl |-> IF shows THEN e.tpl ELSE NoTemplate,
      logic |-> IF shows THEN i.logic ELSE NoClass,
      problem |-> IF shows THEN \/ e.logicError \/ i.failed # NoClass
                                \/ i.logic # NoClass /\ ~i.logic.src.renders
                  ELSE FALSE,
      hole |-> IF shows THEN Hole(e.tpl, i, e) ELSE "none",
      refs |-> IF shows THEN {RefView(b, Hole(e.tpl, i, e), e, c, w) : b \in e.tpl.refs} ELSE {},
      html |-> e.htmlStreaming,
      js |-> e.jsStreaming]

LEMMA ImportViewIs ==
  \A b, hole, e : ImportView(b, hole, e) = RefView(b, hole, e, cache, window)
BY ResolveIs DEF ImportView, RefView, Shaded

LEMMA ViewIsLook ==
  ASSUME NEW p, NEW i, i.err \in BOOLEAN
  PROVE  View(p, i) = Look(reg[Of(p)], i, Circular(p), cache, window)
<1> DEFINE e == reg[Of(p)]
           kind == Kind(e, i, Circular(p))
<1>1. CASE kind # "template"
  BY <1>1 DEF View, Look, Kind, NoView
<1>2. CASE kind = "template"
  <2>1. {ImportView(b, Hole(e.tpl, i, e), e) : b \in e.tpl.refs}
        = {RefView(b, Hole(e.tpl, i, e), e, cache, window) : b \in e.tpl.refs}
    BY ImportViewIs
  <2> QED BY <1>2, <2>1 DEF View, Look, Kind, NoView
<1> QED BY <1>1, <1>2

LEMMA LookType ==
  ASSUME NEW e, NEW i, NEW circular, NEW c, NEW w, e.tpl \in SomeTemplate
  PROVE  ViewOK(Look(e, i, circular, c, w))
BY DEF ViewOK, Look, Kind, SomeTemplate
-----------------------------------------------------------------------------
(* What rendering makes of one instance.                                   *)

LEMMA OldType == ASSUME Typed, NEW p \in Path PROVE InstanceOK(Old(p))
<1>1. CASE p \in Mounted
  BY <1>1 DEF Old, Typed
<1>2. CASE p \notin Mounted
  BY <1>2 DEF Old, FreshInstance, InstanceOK, ViewOK, NoView, SomeTemplate
<1> QED BY <1>1, <1>2

LEMMA ReconciledIs ==
  ASSUME Typed, NEW p \in Path
  PROVE  LET o == Old(p)
             m == Made(reg[Of(p)].logic)
             r == Rendered(p)
         IN  /\ InstanceOK(r)
             /\ r.shown = o.shown
             /\ r.err <=> (o.err \/ Catches(p))
             /\ Swaps(p, o) => /\ r.logic = m.logic /\ r.failed = m.failed
                               /\ ~r.retry /\ r.needsDidMount /\ ~r.live
             /\ ~Swaps(p, o) => /\ r.logic = o.logic /\ r.failed = o.failed
                                /\ r.retry = o.retry /\ r.live = o.live
                                /\ r.needsDidMount = o.needsDidMount
<1>1. InstanceOK(Old(p))
  BY OldType
<1>2. Catches(p) \in BOOLEAN
  BY DEF Catches
<1> QED BY <1>1, <1>2 DEF Rendered, Reconciled, InstanceOK

(* The record a render leaves of an instance.                              *)
LEMMA PaintedIs ==
  ASSUME Typed, NEW p \in Path
  PROVE  LET r == Rendered(p)
             i == Painted(p)
         IN  /\ InstanceOK(i)
             /\ i.logic = r.logic /\ i.failed = r.failed /\ i.retry = r.retry /\ i.err = r.err
             /\ i.shown = IF Redone(p) \/ Catches(p) THEN View(p, r) ELSE r.shown
             /\ Mounts(p, r) => i.live /\ ~i.needsDidMount
             /\ ~Mounts(p, r) => i.live = r.live /\ i.needsDidMount = r.needsDidMount
<1> DEFINE r == Rendered(p)
           shown == IF Redone(p) \/ Catches(p) THEN View(p, r) ELSE r.shown
           i == [r EXCEPT !.shown = shown]
<1>1. InstanceOK(r)
  BY ReconciledIs
<1>2. ViewOK(shown)
  <2>1. reg[Of(p)].tpl \in SomeTemplate
    BY NameOfPath DEF Typed, EntryOK
  <2>2. View(p, r) = Look(reg[Of(p)], r, Circular(p), cache, window)
    BY <1>1, ViewIsLook DEF InstanceOK
  <2> QED BY <1>1, <2>1, <2>2, LookType DEF InstanceOK
<1>3. InstanceOK(i) /\ i.shown = shown /\ i.logic = r.logic /\ i.failed = r.failed
      /\ i.retry = r.retry /\ i.err = r.err /\ i.live = r.live
      /\ i.needsDidMount = r.needsDidMount
  BY <1>1, <1>2 DEF InstanceOK
<1>4. Painted(p) = Committed(p, i)
  <2>1. i = [r EXCEPT !.shown = IF Redone(p) \/ Catches(p) THEN View(p, r) ELSE r.shown]
    OBVIOUS
  <2> QED BY <2>1 DEF Painted
<1>5. Mounts(p, i) <=> Mounts(p, r)
  BY <1>3 DEF Mounts
<1> HIDE DEF i, shown, r
<1>6. InstanceOK(Committed(p, i))
  BY <1>3 DEF Committed, InstanceOK
<1>7. /\ Committed(p, i).logic = i.logic /\ Committed(p, i).failed = i.failed
      /\ Committed(p, i).retry = i.retry /\ Committed(p, i).err = i.err
      /\ Committed(p, i).shown = i.shown
      /\ Mounts(p, i) => Committed(p, i).live /\ ~Committed(p, i).needsDidMount
      /\ ~Mounts(p, i) => Committed(p, i) = i
  BY <1>3 DEF Committed, InstanceOK
<1> QED BY <1>3, <1>4, <1>5, <1>6, <1>7 DEF r, shown
-----------------------------------------------------------------------------
(* The operations of the registry on one entry.                            *)

LEMMA NewClassIs == \A c : NewClass(c).src = c /\ (c # NoSource => NewClass(c) # NoClass)
BY DEF NewClass, NoClass

LEMMA HtmlStreamsIs ==
  ASSUME NEW e, EntryOK(e), NEW streaming \in BOOLEAN
  PROVE  LET f == HtmlStreams(e, streaming)
         IN  /\ EntryOK(f)
             /\ f.htmlStreaming = streaming /\ (f.fetched <=> e.fetched \/ streaming)
             /\ f.html = e.html /\ f.tpl = e.tpl /\ f.logic = e.logic
             /\ f.jsStreaming = e.jsStreaming
BY DEF HtmlStreams, Claimed, EntryOK

LEMMA JsStreamsIs ==
  ASSUME NEW e, EntryOK(e), NEW streaming \in BOOLEAN
  PROVE  LET f == JsStreams(e, streaming)
         IN  /\ EntryOK(f)
             /\ f.jsStreaming = streaming /\ (f.fetched <=> e.fetched \/ streaming)
             /\ f.html = e.html /\ f.tpl = e.tpl /\ f.logic = e.logic
             /\ f.htmlStreaming = e.htmlStreaming
BY DEF JsStreams, Claimed, EntryOK

LEMMA WithHtmlIs ==
  ASSUME NEW e, EntryOK(e), NEW t \in Template
  PROVE  LET f == WithHtml(e, t)
         IN  /\ EntryOK(f)
             /\ f.html = t /\ f.tpl \in {e.tpl, t} /\ f.logic = e.logic
             /\ f.htmlStreaming = e.htmlStreaming /\ f.jsStreaming = e.jsStreaming
             /\ f.fetched = e.fetched
BY DEF WithHtml, EntryOK, SomeTemplate

LEMMA WithJsIs ==
  ASSUME NEW e, EntryOK(e), NEW s \in Source
  PROVE  LET f == WithJs(e, s)
         IN  /\ EntryOK(f)
             /\ f.logic = IF s.defines THEN NewClass(s) ELSE e.logic
             /\ e.logic # NoClass => f.logic # NoClass
             /\ f.html = e.html /\ f.tpl = e.tpl
             /\ f.htmlStreaming = e.htmlStreaming /\ f.jsStreaming = e.jsStreaming
             /\ f.fetched = e.fetched
BY NewClassIs, Parameters DEF WithJs, EntryOK

LEMMA FilledIs ==
  ASSUME NEW e, EntryOK(e), NEW f \in FileType
  PROVE  LET g == Filled(e, f)
         IN  /\ EntryOK(g)
             /\ g.html = e.html \/ Lacks(e)
             /\ g.tpl \in {e.tpl, f.tpl} /\ (f.tpl = NoTemplate => g.tpl = e.tpl)
             /\ e.logic # NoClass => g.logic = e.logic
             /\ g.htmlStreaming = e.htmlStreaming /\ g.jsStreaming = e.jsStreaming
             /\ g.fetched = e.fetched
<1> DEFINE h == IF f.tpl # NoTemplate /\ Lacks(e) THEN WithHtml(e, f.tpl) ELSE e
<1>1. f.tpl \in SomeTemplate /\ f.src \in Source \union {NoSource}
  BY DEF FileType, SomeTemplate
<1>2. /\ EntryOK(h) /\ h.logic = e.logic
      /\ h.html = e.html \/ Lacks(e)
      /\ h.tpl \in {e.tpl, f.tpl} /\ (f.tpl = NoTemplate => h.tpl = e.tpl)
      /\ h.htmlStreaming = e.htmlStreaming /\ h.jsStreaming = e.jsStreaming
      /\ h.fetched = e.fetched
  BY <1>1, WithHtmlIs DEF SomeTemplate
<1>3. Filled(e, f) = IF f.src # NoSource /\ e.logic = NoClass THEN WithJs(h, f.src) ELSE h
  BY DEF Filled
<1> HIDE DEF h
<1> QED BY <1>1, <1>2, <1>3, WithJsIs

(* A bump keeps the shape of every instance.                               *)
LEMMA BumpIs ==
  ASSUME Typed, NEW names, Bump(names)
  PROVE  /\ Mounted' = Mounted /\ inst' = [p \in Mounted |-> inst'[p]]
         /\ \A p \in Mounted :
              /\ InstanceOK(inst'[p])
              /\ Of(p) \in names => /\ ~inst'[p].err /\ inst'[p].retry
                                    /\ p \in dirty'
                                    /\ inst'[p].logic = inst[p].logic
                                    /\ inst'[p].failed = inst[p].failed
                                    /\ inst'[p].live = inst[p].live
                                    /\ inst'[p].needsDidMount = inst[p].needsDidMount
              /\ Of(p) \notin names => inst'[p] = inst[p]
         /\ dirty \subseteq dirty' /\ dirty' \subseteq Mounted' \union {RootPath}
<1>1. Mounted' = Mounted /\ inst' = [p \in Mounted |-> inst'[p]]
  BY DEF Bump, Mounted
<1>2. ASSUME NEW p \in Mounted
      PROVE  inst'[p] = IF Of(p) \in names THEN [inst[p] EXCEPT !.err = FALSE, !.retry = TRUE]
                        ELSE inst[p]
  BY DEF Bump
<1>3. \A p \in Mounted : InstanceOK(inst[p])
  BY DEF Typed
<1>4. dirty \subseteq dirty' /\ dirty' \subseteq Mounted' \union {RootPath}
      /\ \A p \in Mounted : Of(p) \in names => p \in dirty'
  BY <1>1 DEF Bump, Typed
<1> QED BY <1>1, <1>2, <1>3, <1>4 DEF InstanceOK

(* The part of the type that a bump can disturb.                           *)
LEMMA BumpTyped ==
  ASSUME Typed, NEW names, Bump(names)
  PROVE  /\ (Mounted \subseteq Path)'
         /\ (inst = [p \in Mounted |-> inst[p]])'
         /\ (\A p \in Mounted : InstanceOK(inst[p]))'
         /\ (\A p \in Mounted : Len(p) = 1 \/ SubSeq(p, 1, Len(p) - 1) \in Mounted)'
         /\ (dirty \subseteq Mounted \union {RootPath})'
<1>1. Mounted' = Mounted
  BY BumpIs
<1>2. \A p \in Mounted : InstanceOK(inst'[p])
  BY BumpIs
<1>3. (\A p \in Mounted : InstanceOK(inst[p]))'
  BY <1>1, <1>2 DEF InstanceOK, ViewOK
<1> QED BY <1>1, <1>3, BumpIs DEF Typed

LEMMA PassOnIs ==
  ASSUME NEW names, NEW k, NEW S,
         k \in [set : S, next : S, shown : S, heard : BOOLEAN, missed : BOOLEAN]
  PROVE  LET j == PassOn(names, k)
         IN  /\ j \in [set : S, next : S, shown : S, heard : BOOLEAN, missed : BOOLEAN]
             /\ j.set = k.set /\ j.shown = k.shown /\ j.heard = k.heard
             /\ Root \in names /\ k.heard => j.next = k.set /\ ~j.missed
             /\ ~(Root \in names /\ k.heard) => j = k
BY DEF PassOn
-----------------------------------------------------------------------------
(* Typed is inductive.                                                     *)

EntriesOK(r) == r = [n \in Name |-> r[n]] /\ \A n \in Name : EntryOK(r[n])

CacheOK(c) == c \in [Url -> {"none", "loading", "ok", "failed"}]

PollOK(l) == l = [g \in DOMAIN l |-> l[g]] /\ \A g \in DOMAIN l : l[g] \in 0..PollLimit

LEMMA BumpKeepsTyped ==
  ASSUME Typed, NEW names, Bump(names),
         EntriesOK(reg'), \A n \in Name : reg[n].fetched => reg'[n].fetched,
         asked' \subseteq asked, page' = page, KnobsOK', ObservedOK', head' = head,
         live' \subseteq Name, budget' \in Nat, reloading' \in SomeTemplate,
         CacheOK(cache'), PollOK(poll')
  PROVE  Typed'
<1>1. /\ (Mounted \subseteq Path)'
      /\ (inst = [p \in Mounted |-> inst[p]])'
      /\ (\A p \in Mounted : InstanceOK(inst[p]))'
      /\ (\A p \in Mounted : Len(p) = 1 \/ SubSeq(p, 1, Len(p) - 1) \in Mounted)'
      /\ (dirty \subseteq Mounted \union {RootPath})'
  BY BumpTyped
<1>2. (asked \subseteq {n \in Name : reg[n].fetched})'
  BY DEF Typed
<1>3. (page \in {"mounting", "mounted", "unmounted"})' /\ (head \subseteq Global)'
  BY DEF Typed
<1> QED BY <1>1, <1>2, <1>3 DEF Typed, EntriesOK, CacheOK, PollOK

(* One entry of the registry is replaced.                                  *)
LEMMA EntryReplaced ==
  ASSUME Typed, NEW n \in Name, NEW e, EntryOK(e), reg' = [reg EXCEPT ![n] = e]
  PROVE  EntriesOK(reg') /\ reg'[n] = e /\ \A m \in Name \ {n} : reg'[m] = reg[m]
<1>1. reg' = [m \in Name |-> IF m = n THEN e ELSE reg[m]]
  BY DEF Typed
<1>2. \A m \in Name : EntryOK(reg'[m])
  BY <1>1 DEF Typed
<1> QED BY <1>1, <1>2 DEF EntriesOK

LEMMA LoadIs ==
  ASSUME CacheOK(cache), NEW froms, Load(froms)
  PROVE  /\ CacheOK(cache')
         /\ \A u \in Url : cache'[u] = cache[u] \/ (cache[u] = "none" /\ cache'[u] = "loading")
BY DEF Load, Fresh, CacheOK

LEMMA RegOfTyped ==
  ASSUME Typed
  PROVE  CacheOK(cache) /\ PollOK(poll) /\ EntriesOK(reg)
BY DEF Typed, CacheOK, PollOK, EntriesOK

LEMMA PassOnTyped ==
  ASSUME KnobsOK, NEW names, knobs' = PassOn(names, knobs)
  PROVE  KnobsOK'
BY PassOnIs DEF KnobsOK

LEMMA HtmlEntries ==
  ASSUME Typed, NEW n \in Name, NEW t \in Template, NEW s \in BOOLEAN, NEW v \in BOOLEAN,
         HostPushesHtml(n, t, s, v)
  PROVE  /\ Typed' /\ \A m \in Name \ {n} : reg'[m] = reg[m]
         /\ reg'[n].html = t /\ reg'[n].tpl \in {reg[n].tpl, t} /\ reg'[n].logic = reg[n].logic
         /\ reg'[n].htmlStreaming = s /\ reg'[n].jsStreaming = reg[n].jsStreaming
         /\ reg'[n].fetched <=> reg[n].fetched \/ s
<1> DEFINE d == HtmlStreams(reg[n], s)
           e == WithHtml(d, t)
<1>0. /\ EntryOK(d) /\ (d.fetched <=> reg[n].fetched \/ s)
      /\ d.tpl = reg[n].tpl /\ d.logic = reg[n].logic
      /\ d.htmlStreaming = s /\ d.jsStreaming = reg[n].jsStreaming
  BY HtmlStreamsIs DEF Typed
<1> HIDE DEF d
<1>1. /\ EntryOK(e) /\ (e.fetched <=> reg[n].fetched \/ s)
      /\ e.html = t /\ e.tpl \in {reg[n].tpl, t} /\ e.logic = reg[n].logic
      /\ e.htmlStreaming = s /\ e.jsStreaming = reg[n].jsStreaming
  BY <1>0, WithHtmlIs
<1>2. reg' = [reg EXCEPT ![n] = e]
  BY DEF HostPushesHtml, d
<1> HIDE DEF e
<1>3. EntriesOK(reg') /\ reg'[n] = e /\ \A m \in Name \ {n} : reg'[m] = reg[m]
  BY <1>1, <1>2, EntryReplaced
<1>4. \A m \in Name : reg[m].fetched => reg'[m].fetched
  BY <1>1, <1>3
<1>5. CacheOK(cache') /\ PollOK(poll')
  BY RegOfTyped, LoadIs DEF HostPushesHtml, Compile
<1>6. KnobsOK'
  BY PassOnTyped DEF HostPushesHtml, Typed
<1>7. ObservedOK'
  <2>1. observed' = [observed EXCEPT !.html[n] = IF t.empty THEN NoTemplate ELSE t,
                                     !.torn = @ \/ (~s /\ Torn(reg'[n].tpl))]
    BY DEF HostPushesHtml
  <2> QED BY <2>1 DEF Typed, ObservedOK, SomeTemplate
<1>8. live' \subseteq Name /\ budget' \in Nat /\ Bump({n}) /\ asked' = asked /\ page' = page
      /\ head' = head /\ reloading' = reloading /\ reloading \in SomeTemplate
  BY DEF HostPushesHtml, Push, Typed
<1>9. Typed'
  BY <1>3, <1>4, <1>5, <1>6, <1>7, <1>8, BumpKeepsTyped
<1> QED BY <1>1, <1>3, <1>9

LEMMA JsEntries ==
  ASSUME Typed, NEW n \in Name, NEW j \in Source, NEW s \in BOOLEAN, NEW v \in BOOLEAN,
         HostPushesJs(n, j, s, v)
  PROVE  /\ Typed' /\ \A m \in Name \ {n} : reg'[m] = reg[m]
         /\ reg'[n].html = reg[n].html /\ reg'[n].tpl = reg[n].tpl
         /\ reg'[n].htmlStreaming = reg[n].htmlStreaming /\ reg'[n].jsStreaming = s
         /\ s \/ ~j.defines => reg'[n].logic = reg[n].logic
         /\ reg[n].logic # NoClass => reg'[n].logic # NoClass
         /\ reg'[n].fetched <=> reg[n].fetched \/ s
<1> DEFINE e == JsStreams(reg[n], s)
           f == IF s THEN e ELSE WithJs(e, j)
<1>1. /\ EntryOK(e) /\ (e.fetched <=> reg[n].fetched \/ s)
      /\ e.logic = reg[n].logic /\ e.html = reg[n].html /\ e.tpl = reg[n].tpl
      /\ e.htmlStreaming = reg[n].htmlStreaming /\ e.jsStreaming = s
  BY JsStreamsIs DEF Typed
<1>2. reg' = [reg EXCEPT ![n] = f]
  BY DEF HostPushesJs
<1> HIDE DEF e
<1>3. /\ EntryOK(f) /\ (f.fetched <=> reg[n].fetched \/ s)
      /\ f.html = reg[n].html /\ f.tpl = reg[n].tpl
      /\ f.htmlStreaming = reg[n].htmlStreaming /\ f.jsStreaming = s
      /\ s \/ ~j.defines => f.logic = reg[n].logic
      /\ reg[n].logic # NoClass => f.logic # NoClass
  <2>1. CASE s
    BY <1>1, <2>1
  <2>2. CASE ~s
    BY <1>1, <2>2, WithJsIs
  <2> QED BY <2>1, <2>2
<1> HIDE DEF f
<1>4. EntriesOK(reg') /\ reg'[n] = f /\ \A m \in Name \ {n} : reg'[m] = reg[m]
  BY <1>2, <1>3, EntryReplaced
<1>5. \A m \in Name : reg[m].fetched => reg'[m].fetched
  BY <1>3, <1>4
<1>6. CacheOK(cache') /\ PollOK(poll') /\ KnobsOK'
  BY RegOfTyped, PassOnTyped DEF HostPushesJs, externalVars, Typed
<1>7. ObservedOK'
  <2>1. observed' = IF s \/ ~j.defines THEN observed
                    ELSE [observed EXCEPT !.logic[n] = reg'[n].logic]
    BY DEF HostPushesJs
  <2> QED BY <2>1 DEF Typed, ObservedOK
<1>8. live' \subseteq Name /\ budget' \in Nat /\ Bump({n}) /\ asked' = asked /\ page' = page
      /\ head' = head /\ reloading' = reloading /\ reloading \in SomeTemplate
  BY DEF HostPushesJs, Push, Typed
<1>9. Typed'
  BY <1>4, <1>5, <1>6, <1>7, <1>8, BumpKeepsTyped
<1> QED BY <1>3, <1>4, <1>9

LEMMA WantedIs ==
  ASSUME Typed, NEW k \in Knobs
  PROVE  /\ Wanted(k) \in [set : Knobs \union {0}, next : Knobs \union {0},
                          shown : Knobs \union {0}, heard : BOOLEAN, missed : BOOLEAN]
         /\ Wanted(k).heard = knobs.heard
         /\ Wanted(k).missed <=> page = "mounted" /\ ~knobs.heard
BY DEF Wanted, Typed, KnobsOK

LEMMA PropsEntries ==
  ASSUME Typed, NEW n \in Name, NEW k \in Knobs, NEW s \in BOOLEAN, NEW v \in BOOLEAN,
         HostPushesProps(n, k, s, v)
  PROVE  /\ Typed' /\ \A m \in Name \ {n} : reg'[m] = reg[m]
         /\ \A m \in Name :
              /\ reg'[m].html = reg[m].html /\ reg'[m].tpl = reg[m].tpl
              /\ reg'[m].logic = reg[m].logic
              /\ reg'[m].htmlStreaming = reg[m].htmlStreaming
              /\ reg'[m].jsStreaming = reg[m].jsStreaming
         /\ reg'[n].fetched <=> reg[n].fetched \/ s
<1> DEFINE e == Claimed(reg[n], s)
<1>1. /\ EntryOK(e) /\ (e.fetched <=> reg[n].fetched \/ s)
      /\ e.html = reg[n].html /\ e.tpl = reg[n].tpl /\ e.logic = reg[n].logic
      /\ e.htmlStreaming = reg[n].htmlStreaming /\ e.jsStreaming = reg[n].jsStreaming
  BY DEF Claimed, Typed, EntryOK
<1>2. reg' = [reg EXCEPT ![n] = e]
  BY DEF HostPushesProps
<1> HIDE DEF e
<1>3. EntriesOK(reg') /\ reg'[n] = e /\ \A m \in Name \ {n} : reg'[m] = reg[m]
  BY <1>1, <1>2, EntryReplaced
<1>4. \A m \in Name : reg[m].fetched => reg'[m].fetched
  BY <1>1, <1>3
<1>5. KnobsOK'
  <2>1. knobs' = PassOn({n}, IF n = Root THEN Wanted(k) ELSE knobs)
    BY DEF HostPushesProps
  <2>2. KnobsOK
    BY DEF Typed
  <2> QED BY <2>1, <2>2, WantedIs, PassOnIs DEF KnobsOK
<1>6. CacheOK(cache') /\ PollOK(poll')
  BY RegOfTyped DEF HostPushesProps, externalVars
<1>7. ObservedOK'
  BY DEF HostPushesProps, Typed, ObservedOK
<1>8. live' \subseteq Name /\ budget' \in Nat /\ Bump({n}) /\ asked' = asked /\ page' = page
      /\ head' = head /\ reloading' = reloading /\ reloading \in SomeTemplate
  BY DEF HostPushesProps, Push, Typed
<1>9. Typed'
  BY <1>3, <1>4, <1>5, <1>6, <1>7, <1>8, BumpKeepsTyped
<1> QED BY <1>1, <1>3, <1>9

LEMMA HostSetsPropsTyped ==
  ASSUME Typed, NEW k \in Knobs, HostSetsProps(k)
  PROVE  Typed'
<1>2. knobs' = PassOn({Root}, Wanted(k))
  BY DEF HostSetsProps
<1>3. KnobsOK'
  BY <1>2, WantedIs, PassOnIs DEF KnobsOK
<1>4. CacheOK(cache') /\ PollOK(poll') /\ EntriesOK(reg') /\ reg' = reg
  BY RegOfTyped DEF HostSetsProps, externalVars
<1>5. live' = live /\ budget' \in Nat /\ Bump({Root}) /\ asked' = asked /\ page' = page
      /\ head' = head /\ reloading' = reloading /\ ObservedOK'
  BY DEF HostSetsProps, Typed, ObservedOK
<1> QED BY <1>3, <1>4, <1>5, BumpKeepsTyped DEF Typed

(* A step that leaves the tree of instances alone: at most dirty, the      *)
(* loader or the bookkeeping changes.                                      *)
LEMMA QuietTyped ==
  ASSUME Typed, UNCHANGED <<reg, page, inst, head, observed, budget>>,
         asked' \subseteq asked, dirty' \subseteq Mounted \union {RootPath}, KnobsOK',
         live' \subseteq live, reloading' \in SomeTemplate, CacheOK(cache'), PollOK(poll')
  PROVE  Typed'
<1>1. Mounted' = Mounted
  BY DEF Mounted
<1>2. ObservedOK'
  BY DEF Typed, ObservedOK
<1>3. /\ (\A p \in Mounted : InstanceOK(inst[p]))'
      /\ (\A n \in Name : EntryOK(reg[n]))'
  BY <1>1 DEF Typed, InstanceOK, ViewOK, EntryOK
<1>4. (\A p \in Mounted : Len(p) = 1 \/ SubSeq(p, 1, Len(p) - 1) \in Mounted)'
  BY <1>1 DEF Typed
<1> QED BY <1>1, <1>2, <1>3, <1>4 DEF Typed, CacheOK, PollOK

LEMMA SiblingArrivesTyped ==
  ASSUME Typed, NEW n \in Name, SiblingArrives(n)
  PROVE  /\ Typed'
         /\ File[n] \in FileType
         /\ reg'[n] = Filled(reg[n], File[n]) /\ \A m \in Name \ {n} : reg'[m] = reg[m]
         /\ reg' # reg => Bump({n}) /\ knobs' = PassOn({n}, knobs)
         /\ reg' = reg => UNCHANGED <<inst, dirty, knobs>>
         /\ UNCHANGED <<window, poll>>
         /\ \A u \in Url : cache'[u] = cache[u] \/ (cache[u] = "none" /\ cache'[u] = "loading")
<1> DEFINE e == Filled(reg[n], File[n])
<1>1. File[n] \in FileType
  BY RuntimeAssumption DEF SiblingArrives
<1>2. EntryOK(e) /\ e.fetched = reg[n].fetched
  BY <1>1, FilledIs DEF Typed
<1>3. reg' = [reg EXCEPT ![n] = e]
  BY DEF SiblingArrives
<1>4. EntriesOK(reg') /\ reg'[n] = e /\ \A m \in Name \ {n} : reg'[m] = reg[m]
  BY <1>2, <1>3, EntryReplaced
<1>5. \A m \in Name : reg[m].fetched => reg'[m].fetched
  BY <1>2, <1>4
<1>6. /\ CacheOK(cache') /\ PollOK(poll') /\ UNCHANGED <<window, poll>>
      /\ \A u \in Url : cache'[u] = cache[u] \/ (cache[u] = "none" /\ cache'[u] = "loading")
  BY RegOfTyped, LoadIs DEF SiblingArrives, Compile, externalVars
<1>7. asked' \subseteq asked /\ UNCHANGED <<reloading, page, head, live, budget, observed>>
  BY DEF SiblingArrives
<1>8. reg' = reg <=> reg'[n] = reg[n]
  BY <1>4, RegOfTyped DEF EntriesOK
<1>9. /\ reg' # reg => Bump({n}) /\ knobs' = PassOn({n}, knobs)
      /\ reg' = reg => UNCHANGED <<inst, dirty, knobs>>
  BY <1>8 DEF SiblingArrives
<1>10. KnobsOK' /\ ObservedOK' /\ live' \subseteq Name /\ budget' \in Nat
       /\ reloading' \in SomeTemplate
  BY <1>7, <1>9, PassOnTyped DEF Typed, KnobsOK, ObservedOK
<1> HIDE DEF e
<1>11. ASSUME reg' # reg PROVE Typed'
  BY <1>4, <1>5, <1>6, <1>7, <1>9, <1>10, <1>11, BumpKeepsTyped
<1>12. ASSUME reg' = reg PROVE Typed'
  BY <1>6, <1>7, <1>9, <1>10, <1>12, QuietTyped DEF Typed
<1> QED BY <1>1, <1>4, <1>6, <1>9, <1>11, <1>12 DEF e

LEMMA ReloadArrivesTyped ==
  ASSUME Typed, ReloadArrives
  PROVE  /\ Typed'
         /\ reloading \in Template
         /\ reg'[Root] = WithHtml(reg[Root], reloading)
         /\ \A m \in Name \ {Root} : reg'[m] = reg[m]
<1> DEFINE e == WithHtml(reg[Root], reloading)
<1>1. reloading \in Template /\ Root \in Name
  BY Parameters DEF ReloadArrives, Typed, SomeTemplate
<1>2. EntryOK(e) /\ e.fetched = reg[Root].fetched
  BY <1>1, WithHtmlIs DEF Typed
<1>3. reg' = [reg EXCEPT ![Root] = e]
  BY DEF ReloadArrives
<1>4. EntriesOK(reg') /\ reg'[Root] = e /\ \A m \in Name \ {Root} : reg'[m] = reg[m]
  BY <1>1, <1>2, <1>3, EntryReplaced
<1>5. \A m \in Name : reg[m].fetched => reg'[m].fetched
  BY <1>2, <1>4
<1>6. CacheOK(cache') /\ PollOK(poll')
  BY RegOfTyped, LoadIs DEF ReloadArrives, Compile
<1>7. KnobsOK' /\ ObservedOK'
  BY PassOnTyped DEF ReloadArrives, Typed, ObservedOK
<1>8. asked' = asked /\ Bump({Root}) /\ reloading' \in SomeTemplate
      /\ UNCHANGED <<page, head, live, budget, observed>>
  BY DEF ReloadArrives, SomeTemplate
<1> HIDE DEF e
<1>9. Typed'
  BY <1>4, <1>5, <1>6, <1>7, <1>8, BumpKeepsTyped DEF Typed
<1> QED BY <1>1, <1>4, <1>9 DEF e

LEMMA NotifiedTyped ==
  ASSUME Typed, Notified, CacheOK(cache'), PollOK(poll')
  PROVE  Typed'
<1>1. KnobsOK' /\ ObservedOK'
  BY PassOnTyped DEF Notified, Typed, ObservedOK
<1>2. EntriesOK(reg') /\ reg' = reg
  BY RegOfTyped DEF Notified
<1>3. Bump(Name) /\ UNCHANGED <<asked, reloading, page, head, live, budget>>
  BY DEF Notified
<1> QED BY <1>1, <1>2, <1>3, BumpKeepsTyped DEF Typed

LEMMA LoadEndsTyped ==
  ASSUME Typed, NEW u \in Url, LoadEnds(u)
  PROVE  Typed' /\ Notified
<1>1. CacheOK(cache') /\ PollOK(poll')
  <2>1. CacheOK(cache) /\ PollOK(poll)
    BY RegOfTyped
  <2>2. poll' = poll /\ (cache' = [cache EXCEPT ![u] = "ok"] \/ cache' = [cache EXCEPT ![u] = "failed"])
    BY DEF LoadEnds, Evaluated, LoadFailed
  <2> QED BY <2>1, <2>2 DEF CacheOK
<1>2. Notified
  BY DEF LoadEnds
<1> QED BY <1>1, <1>2, NotifiedTyped

LEMMA GlobalFoundTyped ==
  ASSUME Typed, NEW g, GlobalFound(g)
  PROVE  Typed' /\ Notified
<1>1. CacheOK(cache') /\ PollOK(poll')
  BY RegOfTyped DEF GlobalFound, PollFinds, CacheOK, PollOK
<1> QED BY <1>1, NotifiedTyped DEF GlobalFound

LEMMA PollMissesTyped ==
  ASSUME PollOK(poll), NEW g, PollMisses(g)
  PROVE  PollOK(poll') /\ DOMAIN poll' = DOMAIN poll
         /\ \A h \in DOMAIN poll : h \in window => poll'[h] = poll[h]
<1>1. g \in DOMAIN poll /\ g \notin window /\ ~GaveUp(g)
  BY DEF PollMisses, Polled
<1>2. poll[g] \in 0..PollLimit /\ poll[g] + 1 \in 0..PollLimit
  BY <1>1, Parameters DEF GaveUp, PollOK
<1>3. poll' = [poll EXCEPT ![g] = poll[g] + 1]
  BY DEF PollMisses
<1>4. DOMAIN poll' = DOMAIN poll
  BY <1>3
<1> QED BY <1>1, <1>2, <1>3, <1>4 DEF PollOK

LEMMA QuietActionsTyped ==
  ASSUME Typed,
         \/ PassiveEffects \/ ReloadFails \/ BabelArrives
         \/ \E p \in Mounted : LogicUpdates(p)
         \/ \E n \in Name : SiblingMissing(n) \/ StreamGoesStale(n)
         \/ \E g \in Global : GlobalMissed(g) \/ HeadScriptRuns(g)
  PROVE  Typed'
<1>1. CacheOK(cache) /\ PollOK(poll) /\ KnobsOK
  BY RegOfTyped DEF Typed
<1>2. CASE PassiveEffects
  <2>1. KnobsOK'
    BY <1>1, <1>2 DEF PassiveEffects, KnobsOK
  <2> QED BY <1>1, <1>2, <2>1, QuietTyped DEF PassiveEffects, externalVars, Typed
<1>3. CASE ReloadFails
  BY <1>1, <1>3, QuietTyped DEF ReloadFails, externalVars, Typed, SomeTemplate, KnobsOK
<1>4. CASE BabelArrives
  BY <1>1, <1>4, QuietTyped DEF BabelArrives, BabelLoads, dcVars, Typed, KnobsOK
<1>5. ASSUME NEW p \in Mounted, LogicUpdates(p) PROVE Typed'
  BY <1>1, <1>5, QuietTyped DEF LogicUpdates, externalVars, Typed, KnobsOK
<1>6. ASSUME NEW n \in Name, SiblingMissing(n) PROVE Typed'
  BY <1>1, <1>6, QuietTyped DEF SiblingMissing, externalVars, Typed, KnobsOK
<1>7. ASSUME NEW n \in Name, StreamGoesStale(n) PROVE Typed'
  BY <1>1, <1>7, QuietTyped DEF StreamGoesStale, externalVars, Typed, KnobsOK
<1>8. ASSUME NEW g \in Global, GlobalMissed(g) PROVE Typed'
  <2>1. PollOK(poll') /\ cache' = cache
    BY <1>1, <1>8, PollMissesTyped DEF GlobalMissed, PollMisses
  <2> QED BY <1>1, <1>8, <2>1, QuietTyped DEF GlobalMissed, dcVars, Typed, KnobsOK
<1>9. ASSUME NEW g \in Global, HeadScriptRuns(g) PROVE Typed'
  BY <1>1, <1>9, QuietTyped DEF HeadScriptRuns, ScriptRuns, dcVars, Typed, KnobsOK
<1> QED BY <1>2, <1>3, <1>4, <1>5, <1>6, <1>7, <1>8, <1>9

LEMMA RenderTyped ==
  ASSUME Typed, Render
  PROVE  /\ Typed'
         /\ Mounted' = Tree /\ \A p \in Tree : inst'[p] = Painted(p)
         /\ \A n \in Name : \/ reg'[n] = reg[n]
                            \/ reg'[n] = [reg[n] EXCEPT !.fetched = TRUE]
<1> DEFINE names == {Of(p) : p \in Attempted}
           run == {p \in Attempted : Runs(p)}
<1>1. names \subseteq Name
  BY AttemptedType
<1>2. inst' = [p \in Tree |-> Painted(p)]
  BY DEF Render
<1>3. Mounted' = Tree /\ \A p \in Tree : inst'[p] = Painted(p)
  BY <1>2 DEF Mounted
<1>4. (\A p \in Mounted : InstanceOK(inst[p]))'
  BY <1>3, TreeIsClosed, PaintedIs DEF InstanceOK, ViewOK
<1>5. /\ (Mounted \subseteq Path)'
      /\ (inst = [p \in Mounted |-> inst[p]])'
      /\ (\A p \in Mounted : Len(p) = 1 \/ SubSeq(p, 1, Len(p) - 1) \in Mounted)'
  <2>1. Path' = Path
    BY DEF Path
  <2> QED BY <1>2, <1>3, <2>1, TreeIsClosed
<1>6. reg' = [n \in Name |-> IF n \in names THEN [reg[n] EXCEPT !.fetched = TRUE] ELSE reg[n]]
  BY DEF Render
<1>7. ASSUME NEW n \in Name
      PROVE  /\ EntryOK(reg'[n])
             /\ reg'[n].fetched <=> (n \in names \/ reg[n].fetched)
             /\ reg'[n] = reg[n] \/ reg'[n] = [reg[n] EXCEPT !.fetched = TRUE]
  <2>1. EntryOK(reg[n])
    BY DEF Typed
  <2> QED BY <1>6, <2>1 DEF EntryOK
<1>8. (\A n \in Name : EntryOK(reg[n]))' /\ (reg = [n \in Name |-> reg[n]])'
  BY <1>6, <1>7 DEF EntryOK
<1>9. (asked \subseteq {n \in Name : reg[n].fetched})'
  <2>1. asked' = asked \union {n \in names : ~reg[n].fetched}
    BY DEF Render
  <2> QED BY <1>1, <1>7, <2>1 DEF Typed
<1>10. (head \subseteq Global)'
  <2>1. head' = head \union UNION {HelmetScripts(p) : p \in run}
    BY DEF Render
  <2>2. ASSUME NEW p \in run PROVE HelmetScripts(p) \subseteq Global
    <3>1. TplOf(p) \in Template
      BY AttemptedType DEF Runs, Typed, EntryOK, SomeTemplate
    <3> QED BY <3>1, Parameters DEF HelmetScripts
  <2>3. \A g \in UNION {HelmetScripts(p) : p \in run} : \E p \in run : g \in HelmetScripts(p)
    OBVIOUS
  <2> HIDE DEF run
  <2> QED BY <2>1, <2>2, <2>3 DEF Typed
<1>11. PollOK(poll')
  BY RegOfTyped, Parameters DEF Render, Wait, PollOK
<1>12. KnobsOK' /\ ObservedOK'
  BY DEF Render, Typed, KnobsOK, ObservedOK
<1>13. /\ (page \in {"mounting", "mounted", "unmounted"})'
       /\ (dirty \subseteq Mounted \union {RootPath})'
       /\ UNCHANGED <<live, budget, reloading, cache>>
  BY DEF Render
<1> HIDE DEF names, run
<1> QED BY <1>3, <1>4, <1>5, <1>7, <1>8, <1>9, <1>10, <1>11, <1>12, <1>13 DEF Typed, PollOK

LEMMA TypedInit == Init => Typed
<1> SUFFICES ASSUME Init PROVE Typed
  OBVIOUS
<1>1. PICK doc \in Pages : Opened(doc)
  BY DEF Init
<1>2. doc.tpl \in Template /\ doc.src \in Source \union {NoSource} /\ doc.raw \in SomeTemplate
      /\ doc.budget \in Nat
  BY RuntimeAssumption DEF PageType, SomeTemplate
<1>3. EntryOK(NoEntry)
  BY DEF NoEntry, EntryOK, SomeTemplate
<1>4. ASSUME NEW n \in Name PROVE EntryOK(reg[n])
  <2>1. reg[n] = IF n # Root THEN NoEntry
                 ELSE [NoEntry EXCEPT !.fetched = TRUE, !.html = doc.tpl, !.tpl = doc.tpl,
                         !.logic = IF doc.src = NoSource THEN NoClass ELSE [src |-> doc.src, nth |-> 0]]
    BY <1>1 DEF Opened
  <2>2. CASE n # Root
    BY <1>3, <2>1, <2>2
  <2>3. CASE n = Root
    <3> DEFINE l == IF doc.src = NoSource THEN NoClass ELSE [src |-> doc.src, nth |-> 0]
    <3>1. l = NoClass \/ l.src \in Source
      BY <1>2
    <3>2. reg[n] = [NoEntry EXCEPT !.fetched = TRUE, !.html = doc.tpl, !.tpl = doc.tpl,
                      !.logic = l]
      BY <2>1, <2>3
    <3> HIDE DEF l
    <3>3. reg[n] = [html |-> doc.tpl, tpl |-> doc.tpl, logic |-> l, logicError |-> FALSE,
                    htmlStreaming |-> FALSE, jsStreaming |-> FALSE, fetched |-> TRUE]
      BY <3>2 DEF NoEntry
    <3> QED BY <1>2, <3>1, <3>3 DEF EntryOK, SomeTemplate
  <2> QED BY <2>2, <2>3
<1>5. reg = [n \in Name |-> reg[n]] /\ reloading \in SomeTemplate /\ budget \in Nat
      /\ cache \in [Url -> {"none", "loading", "ok", "failed"}]
  BY <1>1, <1>2 DEF Opened
<1>6. Mounted = {} /\ poll = <<>> /\ inst = <<>>
  BY DEF Init, Mounted
<1>7. KnobsOK /\ ObservedOK
  BY DEF Init, KnobsOK, ObservedOK, SomeTemplate
<1>8. DOMAIN poll = {} /\ poll = [g \in DOMAIN poll |-> poll[g]]
      /\ inst = [p \in Mounted |-> inst[p]]
  BY <1>6, EmptySeqIsFunction
<1> QED BY <1>4, <1>5, <1>6, <1>7, <1>8 DEF Init, Typed

LEMMA TypedNext == Typed /\ [Next]_vars => Typed'
<1> SUFFICES ASSUME Typed, [Next]_vars PROVE Typed'
  OBVIOUS
<1>1. CASE UNCHANGED vars
  <2>1. CacheOK(cache') /\ PollOK(poll') /\ KnobsOK'
    BY <1>1, RegOfTyped DEF vars, externalVars, dcVars, Typed, KnobsOK
  <2> QED BY <1>1, <2>1, QuietTyped DEF vars, externalVars, dcVars, Typed
<1>2. \A n \in Name : PushHtml[n] \subseteq Template /\ PushJs[n] \subseteq Source
  BY RuntimeAssumption
<1>3. ASSUME NEW n \in Name, NEW t \in PushHtml[n], NEW s \in BOOLEAN, NEW v \in BOOLEAN,
             HostPushesHtml(n, t, s, v)
      PROVE  Typed'
  BY <1>2, <1>3, HtmlEntries
<1>4. ASSUME NEW n \in Name, NEW j \in PushJs[n], NEW s \in BOOLEAN, NEW v \in BOOLEAN,
             HostPushesJs(n, j, s, v)
      PROVE  Typed'
  BY <1>2, <1>4, JsEntries
<1>5. ASSUME NEW n \in Name, NEW k \in Knobs, NEW s \in BOOLEAN, NEW v \in BOOLEAN,
             HostPushesProps(n, k, s, v)
      PROVE  Typed'
  BY <1>5, PropsEntries
<1> QED
  BY <1>1, <1>3, <1>4, <1>5, RenderTyped, SiblingArrivesTyped, HostSetsPropsTyped, ReloadArrivesTyped,
     LoadEndsTyped, GlobalFoundTyped, QuietActionsTyped DEF Next

THEOREM Shape == Spec => []Typed
BY TypedInit, TypedNext, PTL DEF Spec

(* Every part of the state is of its kind, whatever tasks come in whatever *)
(* order.                                                                  *)
THEOREM TypeCorrect == Spec => []TypeOK
<1>1. Typed => TypeOK
  BY DEF Typed, TypeOK, EntryOK, SomeTemplate, KnobsOK
<1> QED BY <1>1, Shape, PTL
-----------------------------------------------------------------------------
(* Steps that write no entry of the registry, and those that do.           *)
Aside ==
  \/ PassiveEffects \/ ReloadFails \/ BabelArrives
  \/ \E p \in Mounted : LogicUpdates(p)
  \/ \E n \in Name : SiblingMissing(n) \/ StreamGoesStale(n)
  \/ \E k \in Knobs : HostSetsProps(k)
  \/ \E u \in Url : LoadEnds(u)
  \/ \E g \in Global : GlobalFound(g) \/ GlobalMissed(g) \/ HeadScriptRuns(g)
  \/ UNCHANGED vars

LEMMA AsideFrame ==
  ASSUME Aside
  PROVE  UNCHANGED <<reg, shimmer, head, observed>> /\ live' \subseteq live
BY DEF Aside, PassiveEffects, ReloadFails, BabelArrives, LogicUpdates, SiblingMissing,
       StreamGoesStale, HostSetsProps, LoadEnds, GlobalFound, GlobalMissed, HeadScriptRuns,
       Notified, vars, dcVars

LEMMA Steps ==
  ASSUME [Next]_vars
  PROVE  \/ Render
         \/ \E n \in Name, t \in Template, s, v \in BOOLEAN : HostPushesHtml(n, t, s, v)
         \/ \E n \in Name, j \in Source, s, v \in BOOLEAN : HostPushesJs(n, j, s, v)
         \/ \E n \in Name, k \in Knobs, s, v \in BOOLEAN : HostPushesProps(n, k, s, v)
         \/ \E n \in Name : SiblingArrives(n)
         \/ ReloadArrives
         \/ Aside
<1>1. \A n \in Name : PushHtml[n] \subseteq Template /\ PushJs[n] \subseteq Source
  BY RuntimeAssumption
<1> QED BY <1>1 DEF Next, Aside

(* A render marks entries as fetched and writes nothing else to them.      *)
LEMMA RenderEntries ==
  ASSUME Typed, Render, NEW n \in Name
  PROVE  /\ reg'[n].html = reg[n].html /\ reg'[n].tpl = reg[n].tpl
         /\ reg'[n].logic = reg[n].logic /\ reg'[n].logicError = reg[n].logicError
         /\ reg'[n].htmlStreaming = reg[n].htmlStreaming
         /\ reg'[n].jsStreaming = reg[n].jsStreaming
<1>1. EntryOK(reg[n])
  BY DEF Typed
<1> QED BY <1>1, RenderTyped DEF EntryOK

LEMMA SiblingEntries ==
  ASSUME Typed, NEW n \in Name, SiblingArrives(n)
  PROVE  LET f == File[n]
         IN  /\ Typed' /\ f \in FileType /\ \A m \in Name \ {n} : reg'[m] = reg[m]
             /\ reg'[n].html = reg[n].html \/ Lacks(reg[n])
             /\ reg'[n].tpl \in {reg[n].tpl, f.tpl}
             /\ f.tpl = NoTemplate => reg'[n].tpl = reg[n].tpl
             /\ reg[n].logic # NoClass => reg'[n].logic = reg[n].logic
             /\ reg'[n].htmlStreaming = reg[n].htmlStreaming
             /\ reg'[n].jsStreaming = reg[n].jsStreaming
<1>1. /\ Typed' /\ File[n] \in FileType
      /\ reg'[n] = Filled(reg[n], File[n]) /\ \A m \in Name \ {n} : reg'[m] = reg[m]
  BY SiblingArrivesTyped
<1>2. EntryOK(reg[n])
  BY DEF Typed
<1> DEFINE g == Filled(reg[n], File[n])
<1>3. /\ g.html = reg[n].html \/ Lacks(reg[n])
      /\ g.tpl \in {reg[n].tpl, File[n].tpl}
      /\ File[n].tpl = NoTemplate => g.tpl = reg[n].tpl
      /\ reg[n].logic # NoClass => g.logic = reg[n].logic
      /\ g.htmlStreaming = reg[n].htmlStreaming /\ g.jsStreaming = reg[n].jsStreaming
  BY <1>1, <1>2, FilledIs
<1> HIDE DEF g
<1> QED BY <1>1, <1>3 DEF g

-----------------------------------------------------------------------------
(* Components that are streamed into, and their files.                     *)

(* Whatever is streamed into counts as fetched.                            *)
ClaimInv == \A n \in Name : n \in live \/ Streaming(reg[n]) => reg[n].fetched

(* A step asks for files, if any, of components that are not yet fetched.  *)
LEMMA AskedNext ==
  ASSUME Typed, [Next]_vars, NEW n \in Name, n \in asked' \ asked
  PROVE  ~reg[n].fetched
<1>1. CASE Render
  BY <1>1 DEF Render
<1>2. CASE ~Render
  <2>1. asked' \subseteq asked
    BY <1>2, Steps DEF Aside, HostPushesHtml, HostPushesJs, HostPushesProps, SiblingArrives,
       ReloadArrives, PassiveEffects, ReloadFails, BabelArrives, LogicUpdates, SiblingMissing,
       StreamGoesStale, HostSetsProps, LoadEnds, GlobalFound, GlobalMissed, HeadScriptRuns,
       Notified, vars, dcVars
  <2> QED BY <2>1
<1> QED BY <1>1, <1>2

LEMMA ClaimNext == Typed /\ ClaimInv /\ [Next]_vars => ClaimInv'
<1> SUFFICES ASSUME Typed, ClaimInv, [Next]_vars PROVE ClaimInv'
  OBVIOUS
<1>1. ASSUME \A n \in Name : /\ reg'[n].htmlStreaming = reg[n].htmlStreaming
                             /\ reg'[n].jsStreaming = reg[n].jsStreaming
                             /\ reg[n].fetched => reg'[n].fetched,
             live' \subseteq live
      PROVE  ClaimInv'
  BY <1>1 DEF ClaimInv, Streaming
<1>2. ASSUME NEW n \in Name, NEW s \in BOOLEAN, NEW v \in BOOLEAN, Push(n, s, v),
             reg'[n].fetched <=> reg[n].fetched \/ s,
             Streaming(reg'[n]) => s \/ Streaming(reg[n]),
             \A m \in Name \ {n} : reg'[m] = reg[m]
      PROVE  ClaimInv'
  <2>1. live' \subseteq live \union {n} /\ (n \in live' => s \/ n \in live)
    BY <1>2 DEF Push
  <2>2. n \in live' \/ Streaming(reg'[n]) => reg'[n].fetched
    BY <1>2, <2>1 DEF ClaimInv
  <2>3. \A m \in Name \ {n} : m \in live' \/ Streaming(reg'[m]) => reg'[m].fetched
    BY <1>2, <2>1 DEF ClaimInv
  <2> QED BY <2>2, <2>3 DEF ClaimInv
<1>3. CASE Render
  <2>1. \A n \in Name : reg[n].fetched => reg'[n].fetched
    <3>1. \A n \in Name : EntryOK(reg[n])
      BY DEF Typed
    <3>2. \A n \in Name : reg'[n] = reg[n] \/ reg'[n] = [reg[n] EXCEPT !.fetched = TRUE]
      BY <1>3, RenderTyped
    <3> QED BY <3>1, <3>2 DEF EntryOK
  <2> QED BY <1>1, <1>3, <2>1, RenderEntries DEF Render
<1>4. ASSUME NEW n \in Name, NEW t \in Template, NEW s \in BOOLEAN, NEW v \in BOOLEAN,
             HostPushesHtml(n, t, s, v)
      PROVE  ClaimInv'
  BY <1>2, <1>4, HtmlEntries DEF HostPushesHtml, Streaming
<1>5. ASSUME NEW n \in Name, NEW j \in Source, NEW s \in BOOLEAN, NEW v \in BOOLEAN,
             HostPushesJs(n, j, s, v)
      PROVE  ClaimInv'
  <2>1. Push(n, s, v)
    BY <1>5 DEF HostPushesJs
  <2>2. /\ reg'[n].htmlStreaming = reg[n].htmlStreaming /\ reg'[n].jsStreaming = s
        /\ reg'[n].fetched <=> reg[n].fetched \/ s
        /\ \A m \in Name \ {n} : reg'[m] = reg[m]
    BY <1>5, JsEntries
  <2>3. Streaming(reg'[n]) => s \/ Streaming(reg[n])
    BY <2>2 DEF Streaming
  <2> QED BY <1>2, <2>1, <2>2, <2>3
<1>6. ASSUME NEW n \in Name, NEW k \in Knobs, NEW s \in BOOLEAN, NEW v \in BOOLEAN,
             HostPushesProps(n, k, s, v)
      PROVE  ClaimInv'
  BY <1>2, <1>6, PropsEntries DEF HostPushesProps, Streaming
<1>7. ASSUME NEW n \in Name, SiblingArrives(n) PROVE ClaimInv'
  <2>1. /\ reg'[n].htmlStreaming = reg[n].htmlStreaming /\ reg'[n].jsStreaming = reg[n].jsStreaming
        /\ \A m \in Name \ {n} : reg'[m] = reg[m]
    BY <1>7, SiblingEntries
  <2>2. reg'[n].fetched = reg[n].fetched
    <3>1. EntryOK(reg[n]) /\ File[n] \in FileType /\ reg'[n] = Filled(reg[n], File[n])
      BY <1>7, SiblingArrivesTyped DEF Typed
    <3> DEFINE g == Filled(reg[n], File[n])
    <3>2. g.fetched = reg[n].fetched
      BY <3>1, FilledIs
    <3> HIDE DEF g
    <3> QED BY <3>1, <3>2 DEF g
  <2> QED BY <1>1, <1>7, <2>1, <2>2 DEF SiblingArrives
<1>8. CASE ReloadArrives
  <2>1. /\ reg'[Root].htmlStreaming = reg[Root].htmlStreaming
        /\ reg'[Root].jsStreaming = reg[Root].jsStreaming
        /\ reg[Root].fetched => reg'[Root].fetched
        /\ \A m \in Name \ {Root} : reg'[m] = reg[m]
    BY <1>8, ReloadArrivesTyped, WithHtmlIs, Parameters DEF Typed
  <2> QED BY <1>1, <1>8, <2>1 DEF ReloadArrives
<1>9. CASE Aside
  BY <1>1, <1>9, AsideFrame
<1> QED BY <1>3, <1>4, <1>5, <1>6, <1>7, <1>8, <1>9, Steps

LEMMA InitEntry ==
  ASSUME Init
  PROVE  \E doc \in Pages :
           /\ \A n \in Name : ~Streaming(reg[n]) /\ reg[n].tpl \in {NoTemplate, doc.tpl}
           /\ reloading = doc.raw /\ doc.tpl \in Template
<1>1. PICK doc \in Pages : Opened(doc)
  BY DEF Init
<1>2. doc.tpl \in Template /\ reloading = doc.raw
  BY <1>1, RuntimeAssumption DEF PageType, Opened
<1>3. ASSUME NEW n \in Name
      PROVE  /\ reg[n].htmlStreaming = FALSE /\ reg[n].jsStreaming = FALSE
             /\ reg[n].tpl \in {NoTemplate, doc.tpl}
  BY <1>1 DEF Opened, NoEntry
<1> QED BY <1>1, <1>2, <1>3 DEF Streaming

(* However pushes of templates, scripts and metadata, told to the tracker  *)
(* or not, come between the renders: no fetch of a component's file begins *)
(* while the host streams into that component (dcUpdate, ensureFetched).   *)
THEOREM StreamsAreNotAskedFor == Spec => StreamsNotAsked
<1>1. Init => ClaimInv
  BY InitEntry DEF Init, ClaimInv
<1>2. Typed /\ ClaimInv /\ [Next]_vars
      => [\A n \in Name : n \in live \/ Streaming(reg[n]) => n \notin asked' \ asked]_vars
  BY AskedNext DEF ClaimInv
<1> QED BY <1>1, <1>2, ClaimNext, Shape, PTL DEF Spec, StreamsNotAsked
-----------------------------------------------------------------------------
(* Pushes of the host.                                                     *)

PushInv == /\ PushWins
           /\ \A n \in Name : observed.html[n] # NoTemplate => ~observed.html[n].empty

LEMMA PushNext == Typed /\ PushInv /\ [Next]_vars => PushInv'
<1> SUFFICES ASSUME Typed, PushInv, [Next]_vars PROVE PushInv'
  OBVIOUS
<1>1. ASSUME \A n \in Name :
               /\ n # Root /\ observed.html[n] # NoTemplate => reg'[n].html = reg[n].html
               /\ observed.logic[n] # NoClass => reg'[n].logic = reg[n].logic,
             observed'.html = observed.html, observed'.logic = observed.logic
      PROVE  PushInv'
  BY <1>1 DEF PushInv, PushWins
<1>2. CASE Render
  <2>1. observed'.html = observed.html /\ observed'.logic = observed.logic
    BY <1>2 DEF Render, Typed, ObservedOK
  <2> QED BY <1>1, <1>2, <2>1, RenderEntries
<1>3. ASSUME NEW n \in Name, NEW t \in Template, NEW s \in BOOLEAN, NEW v \in BOOLEAN,
             HostPushesHtml(n, t, s, v)
      PROVE  PushInv'
  <2>1. /\ reg'[n].html = t /\ reg'[n].logic = reg[n].logic
        /\ \A m \in Name \ {n} : reg'[m] = reg[m]
    BY <1>3, HtmlEntries
  <2>2. observed' = [observed EXCEPT !.html[n] = IF t.empty THEN NoTemplate ELSE t,
                                     !.torn = @ \/ (~s /\ Torn(reg'[n].tpl))]
    BY <1>3 DEF HostPushesHtml
  <2>3. /\ observed'.logic = observed.logic
        /\ observed'.html[n] = IF t.empty THEN NoTemplate ELSE t
        /\ \A m \in Name \ {n} : observed'.html[m] = observed.html[m]
    BY <2>2 DEF Typed, ObservedOK
  <2> QED BY <2>1, <2>3 DEF PushInv, PushWins
<1>4. ASSUME NEW n \in Name, NEW j \in Source, NEW s \in BOOLEAN, NEW v \in BOOLEAN,
             HostPushesJs(n, j, s, v)
      PROVE  PushInv'
  <2>1. /\ reg'[n].html = reg[n].html
        /\ s \/ ~j.defines => reg'[n].logic = reg[n].logic
        /\ \A m \in Name \ {n} : reg'[m] = reg[m]
    BY <1>4, JsEntries
  <2>2. observed' = IF s \/ ~j.defines THEN observed
                    ELSE [observed EXCEPT !.logic[n] = reg'[n].logic]
    BY <1>4 DEF HostPushesJs
  <2>3. CASE s \/ ~j.defines
    BY <1>1, <2>1, <2>2, <2>3
  <2>4. CASE ~(s \/ ~j.defines)
    <3>1. /\ observed'.html = observed.html /\ observed'.logic[n] = reg'[n].logic
          /\ \A m \in Name \ {n} : observed'.logic[m] = observed.logic[m]
      BY <2>2, <2>4 DEF Typed, ObservedOK
    <3> QED BY <2>1, <3>1 DEF PushInv, PushWins
  <2> QED BY <2>3, <2>4
<1>5. ASSUME NEW n \in Name, SiblingArrives(n) PROVE PushInv'
  <2>1. /\ reg'[n].html = reg[n].html \/ Lacks(reg[n])
        /\ reg[n].logic # NoClass => reg'[n].logic = reg[n].logic
        /\ \A m \in Name \ {n} : reg'[m] = reg[m]
    BY <1>5, SiblingEntries
  <2>2. n # Root /\ observed.html[n] # NoTemplate => ~Lacks(reg[n])
    BY DEF PushInv, PushWins, Lacks
  <2>3. observed.logic[n] # NoClass => reg[n].logic # NoClass
    BY DEF PushInv, PushWins
  <2> QED BY <1>1, <1>5, <2>1, <2>2, <2>3 DEF SiblingArrives
<1>6. CASE ReloadArrives
  <2>1. reg'[Root].logic = reg[Root].logic /\ \A m \in Name \ {Root} : reg'[m] = reg[m]
    BY <1>6, ReloadArrivesTyped, WithHtmlIs, Parameters DEF Typed
  <2> QED BY <1>1, <1>6, <2>1 DEF ReloadArrives
<1>7. CASE Aside
  BY <1>1, <1>7, AsideFrame
<1>8. ASSUME NEW n \in Name, NEW k \in Knobs, NEW s \in BOOLEAN, NEW v \in BOOLEAN,
             HostPushesProps(n, k, s, v)
      PROVE  PushInv'
  BY <1>1, <1>8, PropsEntries DEF HostPushesProps
<1> QED BY <1>2, <1>3, <1>4, <1>5, <1>6, <1>7, <1>8, Steps

(* However late a sibling's file answers, it replaces neither a template   *)
(* nor a class that the host pushed before (ensureFetched).                *)
THEOREM PushesWin == Spec => []PushWins
<1>1. Init => PushInv
  BY DEF Init, PushInv, PushWins
<1>2. PushInv => PushWins
  BY DEF PushInv
<1> QED BY <1>1, <1>2, PushNext, Shape, PTL DEF Spec
-----------------------------------------------------------------------------
(* Scripts of streamed templates.                                          *)

(* What comes from a file is a whole document: no script breaks off in it. *)
FilesAreWhole == /\ \A n \in Name : File[n] # NoFile => ~Torn(File[n].tpl)
                 /\ \A doc \in Pages : ~Torn(doc.tpl) /\ ~Torn(doc.raw)

TornInv == /\ NoTornScript
           /\ ~Torn(reloading)
           /\ \A n \in Name : Torn(reg[n].tpl) => reg[n].htmlStreaming \/ observed.torn

LEMMA HeadGrows ==
  ASSUME Typed, TornInv, Render, NEW g \in head', \A t \in Template : g \notin t.scripts
  PROVE  observed.torn
<1>1. CASE g \in head
  BY <1>1 DEF TornInv, NoTornScript
<1>2. CASE g \notin head
  <2>1. PICK p \in Attempted : Runs(p) /\ g \in HelmetScripts(p)
    BY <1>2 DEF Render
  <2>2. Of(p) \in Name /\ TplOf(p) = reg[Of(p)].tpl
    BY AttemptedType
  <2>3. TplOf(p) \in Template /\ TplOf(p) # NoTemplate
    BY <2>1, <2>2 DEF Runs, Typed, EntryOK, SomeTemplate
  <2>4. TplOf(p).cut # NoScript /\ ~reg[Of(p)].htmlStreaming
    BY <2>1, <2>3 DEF HelmetScripts
  <2> QED BY <2>2, <2>3, <2>4 DEF TornInv, Torn
<1> QED BY <1>1, <1>2

LEMMA TornNext ==
  ASSUME FilesAreWhole
  PROVE  Typed /\ TornInv /\ [Next]_vars => TornInv'
<1> SUFFICES ASSUME Typed, TornInv, [Next]_vars PROVE TornInv'
  OBVIOUS
<1>1. ASSUME \A n \in Name : /\ reg'[n].tpl = reg[n].tpl \/ ~Torn(reg'[n].tpl)
                             /\ reg'[n].htmlStreaming = reg[n].htmlStreaming,
             head' = head, observed' = observed, ~Torn(reloading')
      PROVE  TornInv'
  BY <1>1 DEF TornInv, NoTornScript, Torn
<1>2. CASE Render
  <2>1. reloading' = reloading /\ observed'.torn = observed.torn
    BY <1>2 DEF Render, Typed, ObservedOK
  <2>2. NoTornScript'
    BY <1>2, <2>1, HeadGrows DEF NoTornScript
  <2>3. \A n \in Name : reg'[n].tpl = reg[n].tpl /\ reg'[n].htmlStreaming = reg[n].htmlStreaming
    BY <1>2, RenderEntries
  <2> QED BY <2>1, <2>2, <2>3 DEF TornInv, Torn
<1>3. ASSUME NEW n \in Name, NEW t \in Template, NEW s \in BOOLEAN, NEW v \in BOOLEAN,
             HostPushesHtml(n, t, s, v)
      PROVE  TornInv'
  <2>1. reg'[n].htmlStreaming = s /\ \A m \in Name \ {n} : reg'[m] = reg[m]
    BY <1>3, HtmlEntries
  <2>2. observed' = [observed EXCEPT !.html[n] = IF t.empty THEN NoTemplate ELSE t,
                                     !.torn = @ \/ (~s /\ Torn(reg'[n].tpl))]
        /\ head' = head /\ reloading' = reloading
    BY <1>3 DEF HostPushesHtml
  <2>3. observed'.torn <=> observed.torn \/ (~s /\ Torn(reg'[n].tpl))
    BY <2>2 DEF Typed, ObservedOK
  <2>4. \A m \in Name : Torn(reg'[m].tpl) => reg'[m].htmlStreaming \/ observed'.torn
    BY <2>1, <2>3 DEF TornInv
  <2>5. NoTornScript' /\ ~Torn(reloading)
    BY <2>2, <2>3 DEF TornInv, NoTornScript
  <2> QED BY <2>2, <2>4, <2>5 DEF TornInv, Torn
<1>4. ASSUME NEW n \in Name, NEW j \in Source, NEW s \in BOOLEAN, NEW v \in BOOLEAN,
             HostPushesJs(n, j, s, v)
      PROVE  TornInv'
  <2>1. \A m \in Name : reg'[m].tpl = reg[m].tpl /\ reg'[m].htmlStreaming = reg[m].htmlStreaming
    BY <1>4, JsEntries
  <2>2. observed'.torn = observed.torn
    BY <1>4 DEF HostPushesJs, Typed, ObservedOK
  <2>3. head' = head /\ reloading' = reloading
    BY <1>4 DEF HostPushesJs
  <2> QED BY <2>1, <2>2, <2>3 DEF TornInv, NoTornScript, Torn
<1>5. ASSUME NEW n \in Name, SiblingArrives(n) PROVE TornInv'
  <2>1. /\ reg'[n].tpl \in {reg[n].tpl, File[n].tpl} /\ reg'[n].htmlStreaming = reg[n].htmlStreaming
        /\ \A m \in Name \ {n} : reg'[m] = reg[m]
    BY <1>5, SiblingEntries
  <2>2. ~Torn(File[n].tpl)
    BY <1>5 DEF FilesAreWhole, SiblingArrives
  <2>3. UNCHANGED <<head, observed, reloading>>
    BY <1>5 DEF SiblingArrives
  <2> QED BY <1>1, <2>1, <2>2, <2>3 DEF TornInv
<1>6. CASE ReloadArrives
  <2>1. /\ reg'[Root].tpl \in {reg[Root].tpl, reloading}
        /\ reg'[Root].htmlStreaming = reg[Root].htmlStreaming
        /\ \A m \in Name \ {Root} : reg'[m] = reg[m]
    BY <1>6, ReloadArrivesTyped, WithHtmlIs, Parameters DEF Typed
  <2>2. head' = head /\ observed' = observed /\ ~Torn(reloading) /\ ~Torn(reloading')
    BY <1>6 DEF ReloadArrives, TornInv, Torn
  <2> QED BY <1>1, <2>1, <2>2
<1>7. CASE Aside
  <2>1. reloading' \in {reloading, NoTemplate}
    BY <1>7 DEF Aside, PassiveEffects, ReloadFails, BabelArrives, LogicUpdates, SiblingMissing,
                StreamGoesStale, HostSetsProps, LoadEnds, GlobalFound, GlobalMissed,
                HeadScriptRuns, Notified, vars, dcVars
  <2> QED BY <1>1, <1>7, <2>1, AsideFrame DEF TornInv, Torn
<1>8. ASSUME NEW n \in Name, NEW k \in Knobs, NEW s \in BOOLEAN, NEW v \in BOOLEAN,
             HostPushesProps(n, k, s, v)
      PROVE  TornInv'
  BY <1>1, <1>8, PropsEntries DEF HostPushesProps, TornInv
<1> QED BY <1>2, <1>3, <1>4, <1>5, <1>6, <1>7, <1>8, Steps

(* The script that a streamed template breaks off in is put into the head  *)
(* only when a push that ended its stream left that template in use; the   *)
(* files of the page and of its siblings are taken to be whole documents   *)
(* (helmet's mayBePartial).                                                *)
THEOREM TornScriptsStayOut == ASSUME FilesAreWhole PROVE Spec => []NoTornScript
<1>1. Init => TornInv
  <2> SUFFICES ASSUME Init PROVE TornInv
    OBVIOUS
  <2>1. PICK doc \in Pages : /\ \A n \in Name : reg[n].tpl \in {NoTemplate, doc.tpl}
                             /\ reloading = doc.raw
    BY InitEntry
  <2>2. ~Torn(doc.tpl) /\ ~Torn(doc.raw) /\ ~Torn(NoTemplate) /\ head = {}
    BY DEF FilesAreWhole, Torn, Init
  <2> QED BY <2>1, <2>2 DEF TornInv, NoTornScript
<1>2. TornInv => NoTornScript
  BY DEF TornInv
<1>3. Typed /\ TornInv /\ [Next]_vars => TornInv'
  BY TornNext
<1> QED BY <1>1, <1>2, <1>3, Shape, PTL DEF Spec
-----------------------------------------------------------------------------
(* The lifecycle calls of the author's logic.                              *)

InStep(i) == i.live <=> ~i.needsDidMount

LifeInv == /\ LifecycleBalanced
           /\ \A p \in Mounted : InStep(inst[p])

LEMMA RenderedInStep ==
  ASSUME Typed, NEW p \in Path, p \in Mounted => InStep(inst[p])
  PROVE  /\ InStep(Painted(p))
         /\ ~(Mounts(p, Rendered(p)) /\ Rendered(p).live)
         /\ p \in Mounted => InStep(Reconciled(p, inst[p]))
<1> DEFINE o == Old(p)
           r == Rendered(p)
<1>1. p \in Mounted => InStep(o)
  BY DEF Old
<1>2. p \notin Mounted => ~o.live
  BY DEF Old, FreshInstance
<1>3. /\ InstanceOK(o) /\ InstanceOK(r)
      /\ Swaps(p, o) => r.needsDidMount /\ ~r.live
      /\ ~Swaps(p, o) => r.live = o.live /\ r.needsDidMount = o.needsDidMount
  BY OldType, ReconciledIs
<1>4. ~(Mounts(p, r) /\ r.live)
  BY <1>1, <1>2, <1>3 DEF Mounts, InStep
<1>5. /\ Mounts(p, r) => Painted(p).live /\ ~Painted(p).needsDidMount
      /\ ~Mounts(p, r) => Painted(p).live = r.live /\ Painted(p).needsDidMount = r.needsDidMount
  BY PaintedIs
<1>6. InStep(Painted(p))
  BY <1>1, <1>3, <1>5 DEF InStep, Mounts
<1>7. p \in Mounted => InStep(Reconciled(p, inst[p]))
  BY <1>1, <1>3 DEF Old, Reconciled, InStep, InstanceOK
<1> QED BY <1>4, <1>6, <1>7

LEMMA LifeNext == Typed /\ LifeInv /\ [Next]_vars => LifeInv'
<1> SUFFICES ASSUME Typed, LifeInv, [Next]_vars PROVE LifeInv'
  OBVIOUS
<1>1. CASE Render
  <2>1. \A p \in Tree : InStep(Painted(p)) /\ ~(Mounts(p, Rendered(p)) /\ Rendered(p).live)
    BY TreeIsClosed, RenderedInStep DEF LifeInv
  <2>2. \A p \in Mounted : InStep(inst[p]) /\ InStep(Reconciled(p, inst[p]))
    BY RenderedInStep DEF LifeInv, Typed
  <2>3. ~Slip(Tree)
    <3>1. \A p \in Mounted : Leaves(inst[p]) = inst[p].live
      BY <2>2 DEF Leaves, InStep, Typed, InstanceOK
    <3>2. ASSUME NEW p \in Mounted
          PROVE  LET d == IF Throws(p) THEN Reconciled(p, inst[p]) ELSE inst[p]
                 IN  Leaves(d) = d.live
      <4>1. Reconciled(p, inst[p]).live \in BOOLEAN /\ inst[p].live \in BOOLEAN
        BY DEF Reconciled, Typed, InstanceOK
      <4> QED BY <2>2, <4>1 DEF Leaves, InStep
    <3> QED BY <2>1, <3>1, <3>2 DEF Slip
  <2>4. observed'.slip = observed.slip
    BY <1>1, <2>3 DEF Render, Typed, ObservedOK
  <2>5. \A p \in Mounted' : InStep(inst'[p])
    BY <1>1, <2>1, RenderTyped
  <2> QED BY <2>4, <2>5 DEF LifeInv, LifecycleBalanced, InStep
<1>2. ASSUME NEW names, Bump(names), observed'.slip = observed.slip PROVE LifeInv'
  <2>1. Mounted' = Mounted /\ \A p \in Mounted : InStep(inst'[p])
    BY <1>2, BumpIs DEF LifeInv, InStep
  <2> QED BY <1>2, <2>1 DEF LifeInv, LifecycleBalanced, InStep
<1>3. ASSUME inst' = inst, observed' = observed PROVE LifeInv'
  BY <1>3 DEF LifeInv, LifecycleBalanced, InStep, Mounted
<1>4. ASSUME NEW n \in Name, NEW t \in Template, NEW s \in BOOLEAN, NEW v \in BOOLEAN,
             HostPushesHtml(n, t, s, v)
      PROVE  LifeInv'
  BY <1>2, <1>4 DEF HostPushesHtml, Typed, ObservedOK
<1>5. ASSUME NEW n \in Name, NEW j \in Source, NEW s \in BOOLEAN, NEW v \in BOOLEAN,
             HostPushesJs(n, j, s, v)
      PROVE  LifeInv'
  BY <1>2, <1>5 DEF HostPushesJs, Typed, ObservedOK
<1>6. ASSUME NEW n \in Name, SiblingArrives(n) PROVE LifeInv'
  <2>1. observed' = observed
    BY <1>6 DEF SiblingArrives
  <2> QED BY <1>2, <1>3, <1>6, <2>1 DEF SiblingArrives
<1>7. CASE ReloadArrives
  BY <1>2, <1>7 DEF ReloadArrives
<1>8. CASE Aside
  <2>1. (\E names : Bump(names)) \/ inst' = inst
    BY <1>8 DEF Aside, PassiveEffects, ReloadFails, BabelArrives, LogicUpdates, SiblingMissing,
                StreamGoesStale, HostSetsProps, LoadEnds, GlobalFound, GlobalMissed,
                HeadScriptRuns, Notified, vars, dcVars
  <2> QED BY <1>2, <1>3, <1>8, <2>1, AsideFrame
<1>9. ASSUME NEW n \in Name, NEW k \in Knobs, NEW s \in BOOLEAN, NEW v \in BOOLEAN,
             HostPushesProps(n, k, s, v)
      PROVE  LifeInv'
  BY <1>2, <1>9 DEF HostPushesProps
<1> QED BY <1>1, <1>4, <1>5, <1>6, <1>7, <1>8, <1>9, Steps

(* Hot swaps, errors, cycles and unmounts in any order leave the author's  *)
(* logic with matched calls: componentDidMount once, componentWillUnmount  *)
(* once, and nothing dropped between the two (__needsDidMount).            *)
THEOREM LifecycleIsBalanced == Spec => []LifecycleBalanced
<1>1. Init => LifeInv
  BY DEF Init, LifeInv, LifecycleBalanced, Mounted
<1>2. LifeInv => LifecycleBalanced
  BY DEF LifeInv
<1> QED BY <1>1, <1>2, LifeNext, Shape, PTL DEF Spec
-----------------------------------------------------------------------------
(* What is shown, against what a render would show now.                    *)

GivenUp(g, l) == g \in DOMAIN l /\ l[g] >= PollLimit

(* A reference to a global that is there although nobody was told, or is   *)
(* about to be: its poll will find it.                                     *)
Excused(ref, w, l) ==
  /\ ref.name \in w
  /\ \/ /\ ref.name \in Scripts
        /\ ref.scope = "exports" \/ ref.url # NoUrl \/ GivenUp(ref.name, l)
     \/ ref.name \in DOMAIN l /\ ~GivenUp(ref.name, l)

Agree(v, u, w, l) ==
  /\ v.kind = u.kind /\ v.tpl = u.tpl /\ v.logic = u.logic /\ v.problem = u.problem
  /\ v.hole = u.hole /\ v.html = u.html /\ v.js = u.js
  /\ \A r \in v.refs \union u.refs : ~Excused(r[1], w, l) => r \in v.refs /\ r \in u.refs

(* A global that is shown as missing is being polled, or was.              *)
Waited(t, w, l) ==
  \A b \in t.refs : b.ref.scope = "global" /\ b.ref.url = NoUrl /\ b.ref.name \notin w
                    => b.ref.name \in DOMAIN l

Heals(i, w) == i.failed # NoClass => ~(i.failed.src.needs \subseteq w \ Scripts)

(* What holds of an instance whose last render is up to date.              *)
Settles(e, i, circular, c, w, l) ==
  /\ Agree(i.shown, Look(e, i, circular, c, w), w, l)
  /\ i.shown.kind = "template" => /\ e.logic \in {i.logic, i.failed}
                                  /\ Heals(i, w)
                                  /\ Waited(i.shown.tpl, w, l)

(* What holds of every instance: the class that failed is not tried again  *)
(* before something changed, and then it is.                               *)
Memo(e, i, w) == /\ i.logic = NoClass \/ i.failed = NoClass
                 /\ i.failed # NoClass => e.logic # NoClass
                 /\ ~i.retry => Heals(i, w)

InstancesInv ==
  \A p \in Mounted :
    /\ Memo(reg[Of(p)], inst[p], window)
    /\ ~Redone(p) => Settles(reg[Of(p)], inst[p], Circular(p), cache, window, poll)

(* The root is mounted, and is shown the props that were set, or will be.  *)
KnobsInv ==
  /\ page = "mounted" => RootPath \in Mounted
  /\ page = "mounted" /\ ~knobs.missed =>
       knobs.next = knobs.set /\ (dirty # {} \/ knobs.shown = knobs.next)

ShownInv == InstancesInv /\ KnobsInv

LEMMA LookSame ==
  ASSUME NEW e, NEW f, NEW i, NEW j, NEW circular, NEW c, NEW w, NEW d, NEW v,
         e.tpl = f.tpl, e.logicError = f.logicError, e.htmlStreaming = f.htmlStreaming,
         e.jsStreaming = f.jsStreaming, i.err = j.err, i.logic = j.logic, i.failed = j.failed,
         e.tpl # NoTemplate =>
           \A b \in e.tpl.refs : ResolveIn(c, w, b.ref) = ResolveIn(d, v, b.ref)
  PROVE  Look(e, i, circular, c, w) = Look(f, j, circular, d, v)
<1> DEFINE hole == Hole(e.tpl, i, e)
<1>1. Hole(f.tpl, j, f) = hole
  BY DEF Hole, Streaming
<1>2. Kind(f, j, circular) = Kind(e, i, circular)
  BY DEF Kind
<1>3. Kind(e, i, circular) = "template" =>
        {RefView(b, hole, e, c, w) : b \in e.tpl.refs}
        = {RefView(b, hole, f, d, v) : b \in f.tpl.refs}
  <2> SUFFICES ASSUME Kind(e, i, circular) = "template"
               PROVE  {RefView(b, hole, e, c, w) : b \in e.tpl.refs}
                      = {RefView(b, hole, f, d, v) : b \in e.tpl.refs}
    OBVIOUS
  <2>1. e.tpl # NoTemplate
    BY DEF Kind
  <2>2. \A b \in e.tpl.refs : RefView(b, hole, e, c, w) = RefView(b, hole, f, d, v)
    BY <2>1 DEF RefView, Shaded
  <2> QED BY <2>2
<1> HIDE DEF hole
<1> QED BY <1>1, <1>2, <1>3 DEF Look, hole

LEMMA AgreeWeakens ==
  ASSUME NEW v, NEW u, NEW w, NEW l, NEW x, NEW m, Agree(v, u, w, l),
         \A ref : Excused(ref, w, l) => Excused(ref, x, m)
  PROVE  Agree(v, u, x, m)
BY DEF Agree

LEMMA AgreeSelf == \A v, w, l : Agree(v, v, w, l)
BY DEF Agree

LEMMA ResolveWhileLoading ==
  ASSUME NEW c, NEW d, NEW w, NEW ref \in Reference,
         \A u \in Url : d[u] = c[u] \/ (c[u] = "none" /\ d[u] = "loading")
  PROVE  ResolveIn(d, w, ref) = ResolveIn(c, w, ref)
<1>1. ref.url \in Url \union {NoUrl}
  BY DEF Reference
<1>2. CASE ref.url = NoUrl
  BY <1>2 DEF ResolveIn
<1>3. CASE ref.url \in Url
  BY <1>3 DEF ResolveIn
<1> QED BY <1>1, <1>2, <1>3

(* A script of the page changes only what is excused from then on.         *)
LEMMA ResolveStable ==
  ASSUME NEW c, NEW w, NEW l, NEW ref \in Reference, NEW g \in Scripts \ w,
         ~Excused(ref, w \union {g}, l),
         ref.scope = "global" /\ ref.url = NoUrl /\ ref.name \notin w => ref.name \in DOMAIN l
  PROVE  ResolveIn(c, w \union {g}, ref) = ResolveIn(c, w, ref)
<1>1. ref.name # g
  BY DEF Excused, Reference
<1> QED BY <1>1 DEF ResolveIn

(* What may change around an instance that is not rendered: loads start, a *)
(* script of the page runs, polls miss.                                    *)
Drifts(c, w, l, d, v, m) ==
  /\ \A u \in Url : d[u] = c[u] \/ (c[u] = "none" /\ d[u] = "loading")
  /\ v = w \/ (m = l /\ \E g \in Scripts \ w : v = w \union {g})
  /\ DOMAIN l \subseteq DOMAIN m
  /\ \A h \in DOMAIN l : h \in w => m[h] = l[h]

LEMMA DriftExcuses ==
  ASSUME NEW c, NEW w, NEW l, NEW d, NEW v, NEW m, Drifts(c, w, l, d, v, m),
         NEW ref, Excused(ref, w, l)
  PROVE  Excused(ref, v, m)
<1>1. ref.name \in w /\ w \subseteq v
  BY DEF Drifts, Excused
<1>2. ref.name \in DOMAIN l => ref.name \in DOMAIN m /\ m[ref.name] = l[ref.name]
  BY <1>1 DEF Drifts
<1> QED BY <1>1, <1>2 DEF Excused, GivenUp

LEMMA DriftResolves ==
  ASSUME NEW c, NEW w, NEW l, NEW d, NEW v, NEW m, Drifts(c, w, l, d, v, m),
         NEW ref \in Reference, ~Excused(ref, v, m),
         ref.scope = "global" /\ ref.url = NoUrl /\ ref.name \notin w => ref.name \in DOMAIN l
  PROVE  ResolveIn(d, v, ref) = ResolveIn(c, w, ref)
<1>1. ResolveIn(d, v, ref) = ResolveIn(c, v, ref)
  BY ResolveWhileLoading DEF Drifts
<1>2. CASE v = w
  BY <1>1, <1>2
<1>3. ASSUME m = l, NEW g \in Scripts \ w, v = w \union {g}
      PROVE  ResolveIn(c, v, ref) = ResolveIn(c, w, ref)
  BY <1>3, ResolveStable
<1> QED BY <1>1, <1>2, <1>3 DEF Drifts

(* An instance that is up to date stays so while the world drifts.         *)
LEMMA StillSettles ==
  ASSUME NEW e, e.tpl \in SomeTemplate, NEW i, NEW circular,
         NEW c, NEW w, NEW l, NEW d, NEW v, NEW m,
         Drifts(c, w, l, d, v, m), Settles(e, i, circular, c, w, l)
  PROVE  Settles(e, i, circular, d, v, m)
<1> DEFINE old == Look(e, i, circular, c, w)
           new == Look(e, i, circular, d, v)
           hole == Hole(e.tpl, i, e)
<1>1. /\ old.kind = new.kind /\ old.tpl = new.tpl /\ old.logic = new.logic
      /\ old.problem = new.problem /\ old.hole = new.hole
      /\ old.html = new.html /\ old.js = new.js
      /\ old.kind = Kind(e, i, circular)
  BY DEF Look
<1>2. Kind(e, i, circular) # "template" => old.refs = {} /\ new.refs = {}
  BY DEF Look
<1>3. Kind(e, i, circular) = "template" =>
        /\ old.refs = {RefView(b, hole, e, c, w) : b \in e.tpl.refs}
        /\ new.refs = {RefView(b, hole, e, d, v) : b \in e.tpl.refs}
        /\ old.tpl = e.tpl /\ e.tpl \in Template
  BY DEF Look, Kind, SomeTemplate
<1>4. Agree(i.shown, old, w, l)
  BY DEF Settles
<1> HIDE DEF old, new, hole
<1>5. i.shown.kind = old.kind /\ i.shown.tpl = old.tpl
  BY <1>4 DEF Agree
<1>6. ASSUME Kind(e, i, circular) = "template", NEW b \in e.tpl.refs, ~Excused(b.ref, v, m)
      PROVE  RefView(b, hole, e, d, v) = RefView(b, hole, e, c, w)
  <2>1. Waited(e.tpl, w, l)
    BY <1>1, <1>3, <1>5, <1>6 DEF Settles
  <2>2. b.ref \in Reference
    BY <1>3, <1>6, Parameters
  <2>3. ResolveIn(d, v, b.ref) = ResolveIn(c, w, b.ref)
    BY <1>6, <2>1, <2>2, DriftResolves DEF Waited
  <2> QED BY <2>3 DEF RefView
<1>7. \A ref : Excused(ref, w, l) => Excused(ref, v, m)
  BY DriftExcuses
<1>8. \A b, h, x, y : RefView(b, h, e, x, y)[1] = b.ref
  BY DEF RefView
<1>9. ASSUME NEW r \in i.shown.refs \union new.refs, ~Excused(r[1], v, m)
      PROVE  r \in i.shown.refs /\ r \in new.refs
  <2>1. \A s \in i.shown.refs \union old.refs :
          ~Excused(s[1], w, l) => s \in i.shown.refs /\ s \in old.refs
    BY <1>4 DEF Agree
  <2>2. ~Excused(r[1], w, l)
    BY <1>7, <1>9
  <2>3. CASE Kind(e, i, circular) # "template"
    BY <1>2, <1>9, <2>1, <2>2, <2>3
  <2>4. CASE Kind(e, i, circular) = "template"
    <3>1. r \in i.shown.refs => r \in old.refs
      BY <2>1, <2>2
    <3>2. r \in old.refs => r \in new.refs
      <4> SUFFICES ASSUME r \in old.refs PROVE r \in new.refs
        OBVIOUS
      <4>1. PICK b \in e.tpl.refs : r = RefView(b, hole, e, c, w)
        BY <1>3, <2>4
      <4>2. r = RefView(b, hole, e, d, v)
        BY <1>6, <1>8, <1>9, <2>4, <4>1
      <4> QED BY <1>3, <2>4, <4>2
    <3>3. r \in new.refs => r \in old.refs
      <4> SUFFICES ASSUME r \in new.refs PROVE r \in old.refs
        OBVIOUS
      <4>1. PICK b \in e.tpl.refs : r = RefView(b, hole, e, d, v)
        BY <1>3, <2>4
      <4>2. r = RefView(b, hole, e, c, w)
        BY <1>6, <1>8, <1>9, <2>4, <4>1
      <4> QED BY <1>3, <2>4, <4>2
    <3> QED BY <1>9, <2>1, <2>2, <3>1, <3>2, <3>3
  <2> QED BY <2>3, <2>4
<1>10. Agree(i.shown, new, v, m)
  BY <1>1, <1>4, <1>9 DEF Agree
<1>11. w \subseteq v /\ v \ Scripts = w \ Scripts /\ DOMAIN l \subseteq DOMAIN m
  BY DEF Drifts
<1>12. i.shown.kind = "template" => /\ e.logic \in {i.logic, i.failed}
                                    /\ Heals(i, v)
                                    /\ Waited(i.shown.tpl, v, m)
  BY <1>11 DEF Settles, Heals, Waited
<1> QED BY <1>10, <1>12 DEF Settles, new

LEMMA DirtyIsRedone ==
  ASSUME NEW p \in Path, NEW d, p \in d
  PROVE  Prefixes(p) \intersect d # {}
<1>1. p \in Seq(Name \X Nat) /\ Len(p) \in 1..Depth
  BY PathType
<1>2. Len(p) \in 1..Len(p)
  BY <1>1, DepthIsNat
<1>3. SubSeq(p, 1, Len(p)) = p
  BY <1>1, SubSeqFull
<1>4. p \in Prefixes(p)
  BY <1>2, <1>3 DEF Prefixes
<1> QED BY <1>4

(* A step that renders nothing and bumps nobody.                           *)
LEMMA InstancesKept ==
  ASSUME Typed, InstancesInv, inst' = inst, reg' = reg, dirty \subseteq dirty',
         Drifts(cache, window, poll, cache', window', poll')
  PROVE  InstancesInv'
<1>1. Mounted' = Mounted
  BY DEF Mounted
<1> SUFFICES ASSUME NEW p \in Mounted
             PROVE  /\ Memo(reg[Of(p)], inst[p], window')
                    /\ ~Redone(p)' => Settles(reg[Of(p)], inst[p], Circular(p), cache', window', poll')
  BY <1>1 DEF InstancesInv, Circular
<1>2. window' \ Scripts = window \ Scripts
  BY DEF Drifts
<1>3. Memo(reg[Of(p)], inst[p], window')
  BY <1>2 DEF InstancesInv, Memo, Heals
<1>4. ~Redone(p)' => ~Redone(p)
  BY <1>1 DEF Redone
<1>5. reg[Of(p)].tpl \in SomeTemplate
  BY NameOfPath DEF Typed, EntryOK
<1> QED BY <1>3, <1>4, <1>5, StillSettles DEF InstancesInv

(* A step that bumps every component whose entry it writes, and all of     *)
(* them when what references resolve to may change.                        *)
LEMMA InstancesBumped ==
  ASSUME Typed, InstancesInv, NEW names, Bump(names),
         \A n \in Name \ names : reg'[n] = reg[n],
         \A n \in Name : reg[n].logic # NoClass => reg'[n].logic # NoClass,
         Name \subseteq names \/ (/\ window' = window
                                  /\ Drifts(cache, window, poll, cache', window', poll'))
  PROVE  InstancesInv'
<1>1. Mounted' = Mounted /\ dirty \subseteq dirty'
  BY BumpIs
<1> SUFFICES ASSUME NEW p \in Mounted
             PROVE  /\ Memo(reg'[Of(p)], inst'[p], window')
                    /\ ~Redone(p)' =>
                         Settles(reg'[Of(p)], inst'[p], Circular(p), cache', window', poll')
  BY <1>1 DEF InstancesInv, Circular
<1>2. p \in Path /\ Of(p) \in Name
  BY NameOfPath DEF Typed
<1>3. Memo(reg[Of(p)], inst[p], window)
  BY DEF InstancesInv
<1>4. CASE Of(p) \in names
  <2>1. /\ p \in dirty' /\ inst'[p].retry
        /\ inst'[p].logic = inst[p].logic /\ inst'[p].failed = inst[p].failed
    BY <1>4, BumpIs
  <2>2. Redone(p)'
    BY <1>2, <2>1, DirtyIsRedone DEF Redone
  <2>3. Memo(reg'[Of(p)], inst'[p], window')
    BY <1>2, <1>3, <2>1 DEF Memo
  <2> QED BY <2>2, <2>3
<1>5. CASE Of(p) \notin names
  <2>1. inst'[p] = inst[p] /\ reg'[Of(p)] = reg[Of(p)] /\ window' = window
        /\ Drifts(cache, window, poll, cache', window', poll')
    BY <1>2, <1>5, BumpIs
  <2>2. ~Redone(p)' => ~Redone(p)
    BY <1>1 DEF Redone
  <2>3. reg[Of(p)].tpl \in SomeTemplate
    BY <1>2 DEF Typed, EntryOK
  <2> QED BY <1>3, <2>1, <2>2, <2>3, StillSettles DEF InstancesInv
<1> QED BY <1>4, <1>5

(* What a render constructs, and what it leaves of the memo.               *)
LEMMA MadeIs ==
  ASSUME NEW c
  PROVE  LET m == Made(c)
         IN  /\ m.logic = NoClass \/ m.failed = NoClass
             /\ c \in {m.logic, m.failed}
             /\ m.failed # NoClass => m.failed = c /\ ~(c.src.needs \subseteq window)
BY DEF Made, Constructs

LEMMA RenderedMemo ==
  ASSUME Typed, InstancesInv, NEW p \in Path
  PROVE  Memo(reg[Of(p)], Rendered(p), window)
<1> DEFINE c == reg[Of(p)].logic
           m == Made(c)
           r == Rendered(p)
<1>1. /\ m.logic = NoClass \/ m.failed = NoClass
      /\ m.failed # NoClass => m.failed = c /\ ~(c.src.needs \subseteq window)
  BY MadeIs
<1>2. CASE Swaps(p, Old(p))
  <2>1. r.logic = m.logic /\ r.failed = m.failed
    BY <1>2, ReconciledIs
  <2> HIDE DEF m, r
  <2> QED BY <1>1, <2>1 DEF Memo, Heals, r
<1>3. CASE ~Swaps(p, Old(p)) /\ p \in Mounted
  <2>1. r.logic = inst[p].logic /\ r.failed = inst[p].failed /\ r.retry = inst[p].retry
    BY <1>3, ReconciledIs DEF Old
  <2> HIDE DEF r
  <2> QED BY <1>3, <2>1 DEF InstancesInv, Memo, Heals, r
<1>4. CASE ~Swaps(p, Old(p)) /\ p \notin Mounted
  <2>1. r.logic = Old(p).logic /\ r.failed = Old(p).failed
    BY <1>4, ReconciledIs
  <2>2. Old(p).logic = m.logic /\ Old(p).failed = m.failed
    BY <1>4 DEF Old, FreshInstance
  <2> HIDE DEF m, r
  <2> QED BY <1>1, <2>1, <2>2 DEF Memo, Heals, r
<1> QED BY <1>2, <1>3, <1>4 DEF r

(* An instance that shows its template has the class of its entry, or      *)
(* failed to construct it for want of a global that is not there.          *)
LEMMA RenderedLogic ==
  ASSUME Typed, InstancesInv, NEW p \in Path,
         Redone(p), ~Circular(p), ~InError(p)
  PROVE  /\ reg[Of(p)].logic \in {Rendered(p).logic, Rendered(p).failed}
         /\ Heals(Rendered(p), window)
<1> DEFINE c == reg[Of(p)].logic
           m == Made(c)
           r == Rendered(p)
<1>1. /\ m.logic = NoClass \/ m.failed = NoClass
      /\ c \in {m.logic, m.failed}
      /\ m.failed # NoClass => m.failed = c /\ ~(c.src.needs \subseteq window)
  BY MadeIs
<1>2. CASE Swaps(p, Old(p))
  <2>1. r.logic = m.logic /\ r.failed = m.failed
    BY <1>2, ReconciledIs
  <2> HIDE DEF m, r
  <2> QED BY <1>1, <2>1 DEF Heals, r
<1>3. CASE ~Swaps(p, Old(p))
  <2>1. r.logic = Old(p).logic /\ r.failed = Old(p).failed /\ r.retry = Old(p).retry
    BY <1>3, ReconciledIs
  <2>2. c = r.logic \/ (c = r.failed /\ ~r.retry)
    BY <1>3, <2>1 DEF Swaps
  <2>3. Memo(reg[Of(p)], r, window)
    BY RenderedMemo
  <2> HIDE DEF r
  <2> QED BY <2>2, <2>3 DEF Memo, Heals, r
<1> QED BY <1>2, <1>3

(* The references of every template that was run are there or polled for.  *)
LEMMA RunIsWaited ==
  ASSUME Typed, Render, NEW p \in Attempted, Runs(p)
  PROVE  Waited(TplOf(p), window, poll')
<1> DEFINE run == {q \in Attempted : Runs(q)}
           refs == UNION {{b.ref : b \in TplOf(q).refs} : q \in run}
<1>1. DOMAIN poll' = DOMAIN poll \union Missed(refs)
  BY DEF Render, Wait
<1>2. \A b \in TplOf(p).refs : b.ref \in refs
  OBVIOUS
<1> HIDE DEF refs
<1> QED BY <1>1, <1>2 DEF Waited, Missed

LEMMA RenderPolls ==
  ASSUME Render
  PROVE  Drifts(cache, window, poll, cache', window', poll')
BY DEF Render, Wait, Drifts

LEMMA PaintedSettles ==
  ASSUME Typed, InstancesInv, Render, NEW p \in Tree
  PROVE  Settles(reg'[Of(p)], Painted(p), Circular(p), cache, window, poll')
<1> DEFINE e == reg[Of(p)]
           r == Rendered(p)
           i == Painted(p)
<1>1. p \in Path /\ Of(p) \in Name
  BY TreeIsClosed, NameOfPath
<1>2. /\ reg'[Of(p)].tpl = e.tpl /\ reg'[Of(p)].logic = e.logic
      /\ reg'[Of(p)].logicError = e.logicError
      /\ reg'[Of(p)].htmlStreaming = e.htmlStreaming
      /\ reg'[Of(p)].jsStreaming = e.jsStreaming
  BY <1>1, RenderEntries
<1>3. /\ i.logic = r.logic /\ i.failed = r.failed /\ i.err = r.err
      /\ i.shown = IF Redone(p) \/ Catches(p) THEN View(p, r) ELSE r.shown
      /\ r.err <=> (Old(p).err \/ Catches(p))
      /\ r.shown = Old(p).shown /\ r.err \in BOOLEAN /\ Old(p).err \in BOOLEAN
  BY <1>1, PaintedIs, ReconciledIs, OldType DEF InstanceOK
<1>4. View(p, r) = Look(e, r, Circular(p), cache, window)
  BY <1>3, ViewIsLook
<1>5. Look(reg'[Of(p)], i, Circular(p), cache, window) = Look(e, r, Circular(p), cache, window)
  BY <1>2, <1>3, LookSame
<1> HIDE DEF e, r, i
<1>6. CASE Redone(p)
  <2>1. i.shown = Look(e, r, Circular(p), cache, window)
    BY <1>3, <1>4, <1>6
  <2>2. Agree(i.shown, Look(reg'[Of(p)], i, Circular(p), cache, window), window, poll')
    BY <1>5, <2>1, AgreeSelf
  <2>3. ASSUME i.shown.kind = "template"
        PROVE  e.logic \in {i.logic, i.failed} /\ Heals(i, window)
               /\ Waited(i.shown.tpl, window, poll')
    <3>1. Kind(e, r, Circular(p)) = "template" /\ i.shown.tpl = e.tpl
      BY <2>1, <2>3 DEF Look
    <3>2. ~Circular(p) /\ ~r.err /\ e.tpl # NoTemplate
      BY <3>1 DEF Kind
    <3>3. ~InError(p)
      BY <1>3, <3>2 DEF InError, Old
    <3>4. e.logic \in {r.logic, r.failed} /\ Heals(r, window)
      BY <1>1, <1>6, <3>2, <3>3, RenderedLogic DEF e, r
    <3>5. TplOf(p) = e.tpl /\ p \in Attempted /\ Runs(p)
      BY <1>6, <3>2, <3>3 DEF TplOf, Attempted, Tree, Grown, Runs, e
    <3>6. Waited(e.tpl, window, poll')
      BY <3>5, RunIsWaited
    <3> QED BY <1>3, <3>1, <3>4, <3>6 DEF Heals
  <2> QED BY <1>2, <2>2, <2>3 DEF Settles, e, i
<1>7. CASE ~Redone(p) /\ Catches(p)
  <2>1. i.shown = Look(e, r, Circular(p), cache, window)
    BY <1>3, <1>4, <1>7
  <2>2. i.shown.kind # "template"
    BY <1>3, <1>7, <2>1 DEF Look, Kind
  <2>3. Agree(i.shown, Look(reg'[Of(p)], i, Circular(p), cache, window), window, poll')
    BY <1>5, <2>1, AgreeSelf
  <2> QED BY <2>2, <2>3 DEF Settles, i
<1>8. CASE ~Redone(p) /\ ~Catches(p)
  <2>1. p \in Mounted /\ Old(p) = inst[p]
    BY <1>8 DEF Redone, Old
  <2>2. r.logic = inst[p].logic /\ r.failed = inst[p].failed
    <3>1. ~Swaps(p, Old(p))
      BY <1>8 DEF Swaps
    <3> QED BY <1>1, <2>1, <3>1, ReconciledIs DEF r
  <2>3. i.shown = inst[p].shown /\ i.logic = inst[p].logic /\ i.failed = inst[p].failed
        /\ i.err = inst[p].err
    BY <1>3, <1>8, <2>1, <2>2
  <2>4. Settles(e, inst[p], Circular(p), cache, window, poll)
    BY <1>8, <2>1 DEF InstancesInv, e
  <2>5. e.tpl \in SomeTemplate
    BY <1>1 DEF Typed, EntryOK, e
  <2>6. Drifts(cache, window, poll, cache, window, poll')
    BY RenderPolls DEF Drifts, Render
  <2>7. Settles(e, inst[p], Circular(p), cache, window, poll')
    BY <2>4, <2>5, <2>6, StillSettles
  <2>8. Look(reg'[Of(p)], i, Circular(p), cache, window)
        = Look(e, inst[p], Circular(p), cache, window)
    BY <1>2, <2>3, LookSame
  <2> QED BY <1>2, <2>3, <2>7, <2>8 DEF Settles, Heals, e, i
<1> QED BY <1>6, <1>7, <1>8 DEF i

LEMMA InstancesRendered ==
  ASSUME Typed, InstancesInv, Render
  PROVE  InstancesInv'
<1>1. Mounted' = Tree /\ (\A p \in Tree : inst'[p] = Painted(p))
      /\ UNCHANGED <<cache, window>>
  BY RenderTyped DEF Render
<1> SUFFICES ASSUME NEW p \in Tree
             PROVE  /\ Memo(reg'[Of(p)], inst'[p], window)
                    /\ Settles(reg'[Of(p)], inst'[p], Circular(p), cache, window, poll')
  BY <1>1 DEF InstancesInv, Circular
<1>2. p \in Path /\ Of(p) \in Name
  BY TreeIsClosed, NameOfPath
<1>3. Memo(reg[Of(p)], Rendered(p), window)
  BY <1>2, RenderedMemo
<1>4. reg'[Of(p)].logic = reg[Of(p)].logic
  BY <1>2, RenderEntries
<1>5. LET r == Rendered(p)
          i == Painted(p)
      IN  i.logic = r.logic /\ i.failed = r.failed /\ i.retry = r.retry
  BY <1>2, PaintedIs
<1>6. Memo(reg'[Of(p)], Painted(p), window)
  BY <1>3, <1>4, <1>5 DEF Memo, Heals
<1> QED BY <1>1, <1>6, PaintedSettles

LEMMA RootBumped ==
  ASSUME NEW names, Bump(names), Root \in names, RootPath \in Mounted
  PROVE  RootPath \in dirty'
<1>1. Of(RootPath) = Root
  BY RootPathIsSeq DEF Of
<1> QED BY <1>1 DEF Bump

LEMMA KnobsBumped ==
  ASSUME Typed, KnobsInv, NEW names, Bump(names), knobs' = PassOn(names, knobs), page' = page
  PROVE  KnobsInv'
<1>1. Mounted' = Mounted /\ dirty \subseteq dirty'
  BY BumpIs
<1>2. CASE Root \in names /\ knobs.heard
  <2>1. knobs'.next = knobs.set /\ knobs'.set = knobs.set
    BY <1>2 DEF PassOn, Typed, KnobsOK
  <2>2. page = "mounted" => RootPath \in dirty'
    BY <1>2, RootBumped DEF KnobsInv
  <2> QED BY <1>1, <2>1, <2>2 DEF KnobsInv
<1>3. CASE ~(Root \in names /\ knobs.heard)
  <2>1. knobs' = knobs
    BY <1>3 DEF PassOn
  <2> QED BY <1>1, <2>1 DEF KnobsInv
<1> QED BY <1>2, <1>3

LEMMA KnobsSet ==
  ASSUME Typed, KnobsInv, NEW k \in Knobs,
         knobs' = PassOn({Root}, Wanted(k)), Bump({Root}), page' = page
  PROVE  KnobsInv'
<1> DEFINE j == Wanted(k)
<1>1. /\ j \in [set : Knobs \union {0}, next : Knobs \union {0}, shown : Knobs \union {0},
                heard : BOOLEAN, missed : BOOLEAN]
      /\ j.heard = knobs.heard /\ (j.missed <=> page = "mounted" /\ ~knobs.heard)
  BY WantedIs
<1>2. knobs' = PassOn({Root}, j)
  OBVIOUS
<1> HIDE DEF j
<1>3. Mounted' = Mounted
  BY BumpIs
<1>4. CASE knobs.heard
  <2>1. knobs'.next = j.set /\ knobs'.set = j.set
    BY <1>1, <1>2, <1>4 DEF PassOn
  <2>2. page = "mounted" => RootPath \in dirty'
    BY RootBumped DEF KnobsInv
  <2> QED BY <1>3, <2>1, <2>2 DEF KnobsInv
<1>5. CASE ~knobs.heard
  <2>1. knobs'.missed <=> page = "mounted"
    BY <1>1, <1>2, <1>5 DEF PassOn
  <2> QED BY <1>3, <2>1 DEF KnobsInv
<1> QED BY <1>4, <1>5

LEMMA KnobsRendered ==
  ASSUME Typed, KnobsInv, Render
  PROVE  KnobsInv'
<1>1. Mounted' = Tree /\ page' = IF Tree = {} THEN "unmounted" ELSE "mounted"
  BY RenderTyped DEF Render
<1>2. page' = "mounted" => RootPath \in Mounted'
  BY <1>1, TreeIsClosed
<1>3. CASE page = "mounting"
  <2>1. knobs'.next = knobs'.set /\ knobs'.shown = knobs'.next
    BY <1>3 DEF Render, Typed, KnobsOK
  <2> QED BY <1>2, <2>1 DEF KnobsInv
<1>4. CASE page = "mounted"
  <2>1. /\ knobs'.next = knobs.next /\ knobs'.set = knobs.set /\ knobs'.missed = knobs.missed
        /\ knobs'.shown = knobs'.next
    BY <1>4 DEF Render, Typed, KnobsOK
  <2> QED BY <1>2, <1>4, <2>1 DEF KnobsInv
<1> QED BY <1>3, <1>4 DEF Render, Typed

(* What a step that neither renders nor bumps leaves of ShownInv.          *)
LEMMA ShownKept ==
  ASSUME Typed, ShownInv, UNCHANGED <<inst, reg, page>>, dirty \subseteq dirty',
         Drifts(cache, window, poll, cache', window', poll'),
         /\ knobs'.next = knobs.next /\ knobs'.set = knobs.set /\ knobs'.missed = knobs.missed
         /\ knobs'.shown = knobs.shown
  PROVE  ShownInv'
<1>1. InstancesInv'
  BY InstancesKept DEF ShownInv
<1>2. Mounted' = Mounted
  BY DEF Mounted
<1> QED BY <1>1, <1>2 DEF ShownInv, KnobsInv

LEMMA Drifting ==
  ASSUME UNCHANGED <<window, poll>>,
         \A u \in Url : cache'[u] = cache[u] \/ (cache[u] = "none" /\ cache'[u] = "loading")
  PROVE  Drifts(cache, window, poll, cache', window', poll')
BY DEF Drifts

LEMMA ShownAside == Typed /\ ShownInv /\ Aside => ShownInv'
<1> SUFFICES ASSUME Typed, ShownInv, Aside PROVE ShownInv'
  OBVIOUS
<1>1. ASSUME UNCHANGED <<inst, reg, page, externalVars>>, dirty \subseteq dirty',
             /\ knobs'.next = knobs.next /\ knobs'.set = knobs.set /\ knobs'.missed = knobs.missed
             /\ knobs'.shown = knobs.shown
      PROVE  ShownInv'
  BY <1>1, Drifting, ShownKept DEF externalVars
<1>2. CASE PassiveEffects
  <2>1. /\ knobs'.next = knobs.next /\ knobs'.set = knobs.set /\ knobs'.missed = knobs.missed
        /\ knobs'.shown = knobs.shown
    BY <1>2 DEF PassiveEffects, Typed, KnobsOK
  <2> QED BY <1>1, <1>2, <2>1 DEF PassiveEffects
<1>3. CASE ReloadFails \/ UNCHANGED vars
  BY <1>1, <1>3 DEF ReloadFails, vars, dcVars
<1>4. ASSUME NEW p \in Mounted, LogicUpdates(p) PROVE ShownInv'
  BY <1>1, <1>4 DEF LogicUpdates
<1>5. ASSUME NEW n \in Name, SiblingMissing(n) \/ StreamGoesStale(n) PROVE ShownInv'
  BY <1>1, <1>5 DEF SiblingMissing, StreamGoesStale
<1>6. CASE BabelArrives
  BY <1>6, Drifting, ShownKept DEF BabelArrives, BabelLoads, dcVars
<1>7. ASSUME NEW g \in Global, GlobalMissed(g) PROVE ShownInv'
  <2>1. Drifts(cache, window, poll, cache', window', poll')
    BY <1>7, RegOfTyped, PollMissesTyped DEF GlobalMissed, PollMisses, Drifts
  <2> QED BY <1>7, <2>1, ShownKept DEF GlobalMissed, dcVars
<1>8. ASSUME NEW g \in Global, HeadScriptRuns(g) PROVE ShownInv'
  <2>1. Drifts(cache, window, poll, cache', window', poll')
    BY <1>8 DEF HeadScriptRuns, ScriptRuns, Drifts
  <2> QED BY <1>8, <2>1, ShownKept DEF HeadScriptRuns, dcVars
<1>9. CASE Notified
  <2>1. Bump(Name) /\ reg' = reg /\ knobs' = PassOn(Name, knobs) /\ page' = page
    BY <1>9 DEF Notified
  <2>2. InstancesInv' /\ KnobsInv'
    BY <2>1, InstancesBumped, KnobsBumped DEF ShownInv
  <2> QED BY <2>2 DEF ShownInv
<1>10. ASSUME NEW k \in Knobs, HostSetsProps(k) PROVE ShownInv'
  <2>1. Bump({Root}) /\ UNCHANGED <<reg, externalVars>>
    BY <1>10 DEF HostSetsProps
  <2>2. InstancesInv'
    BY <2>1, Drifting, InstancesBumped DEF externalVars, ShownInv
  <2>3. KnobsInv'
    BY <1>10, KnobsSet DEF HostSetsProps, ShownInv
  <2> QED BY <2>2, <2>3 DEF ShownInv
<1>11. (\E u \in Url : LoadEnds(u)) \/ (\E g \in Global : GlobalFound(g)) => Notified
  BY DEF LoadEnds, GlobalFound
<1> QED
  BY <1>2, <1>3, <1>4, <1>5, <1>6, <1>7, <1>8, <1>9, <1>10, <1>11 DEF Aside

LEMMA ShownNext == Typed /\ ShownInv /\ [Next]_vars => ShownInv'
<1> SUFFICES ASSUME Typed, ShownInv, [Next]_vars PROVE ShownInv'
  OBVIOUS
<1>1. CASE Render
  BY <1>1, InstancesRendered, KnobsRendered DEF ShownInv
<1>2. ASSUME NEW n \in Name, Bump({n}), \A m \in Name \ {n} : reg'[m] = reg[m],
             reg[n].logic # NoClass => reg'[n].logic # NoClass, page' = page,
             UNCHANGED <<window, poll>>, knobs' = PassOn({n}, knobs),
             \A u \in Url : cache'[u] = cache[u] \/ (cache[u] = "none" /\ cache'[u] = "loading")
      PROVE  ShownInv'
  <2>1. Drifts(cache, window, poll, cache', window', poll')
    BY <1>2, Drifting
  <2>2. \A m \in Name : reg[m].logic # NoClass => reg'[m].logic # NoClass
    BY <1>2
  <2>3. InstancesInv'
    BY <1>2, <2>1, <2>2, InstancesBumped DEF ShownInv
  <2> QED BY <1>2, <2>3, KnobsBumped DEF ShownInv
<1>3. CacheOK(cache)
  BY RegOfTyped
<1>4. ASSUME NEW n \in Name, NEW t \in Template, NEW s \in BOOLEAN, NEW v \in BOOLEAN,
             HostPushesHtml(n, t, s, v)
      PROVE  ShownInv'
  <2>1. (\A m \in Name \ {n} : reg'[m] = reg[m]) /\ reg'[n].logic = reg[n].logic
    BY <1>4, HtmlEntries
  <2>2. \A u \in Url : cache'[u] = cache[u] \/ (cache[u] = "none" /\ cache'[u] = "loading")
    BY <1>3, <1>4, LoadIs DEF HostPushesHtml, Compile
  <2>3. /\ Bump({n}) /\ page' = page /\ knobs' = PassOn({n}, knobs)
        /\ UNCHANGED <<window, poll>>
    BY <1>4 DEF HostPushesHtml, Compile
  <2> QED BY <1>2, <2>1, <2>2, <2>3
<1>5. ASSUME NEW n \in Name, NEW j \in Source, NEW s \in BOOLEAN, NEW v \in BOOLEAN,
             HostPushesJs(n, j, s, v)
      PROVE  ShownInv'
  <2>1. (\A m \in Name \ {n} : reg'[m] = reg[m])
        /\ (reg[n].logic # NoClass => reg'[n].logic # NoClass)
    BY <1>5, JsEntries
  <2>2. /\ Bump({n}) /\ page' = page /\ knobs' = PassOn({n}, knobs)
        /\ UNCHANGED <<window, poll, cache>>
    BY <1>5 DEF HostPushesJs, externalVars
  <2> QED BY <1>2, <2>1, <2>2
<1>6. ASSUME NEW n \in Name, SiblingArrives(n) PROVE ShownInv'
  <2>1. /\ reg' # reg => Bump({n}) /\ knobs' = PassOn({n}, knobs)
        /\ reg' = reg => UNCHANGED <<inst, dirty, knobs>>
        /\ UNCHANGED <<window, poll>> /\ page' = page
        /\ \A u \in Url : cache'[u] = cache[u] \/ (cache[u] = "none" /\ cache'[u] = "loading")
        /\ \A m \in Name \ {n} : reg'[m] = reg[m]
    BY <1>6, SiblingArrivesTyped DEF SiblingArrives
  <2>2. reg[n].logic # NoClass => reg'[n].logic = reg[n].logic
    BY <1>6, SiblingEntries
  <2>3. CASE reg' # reg
    BY <1>2, <2>1, <2>2, <2>3
  <2>4. CASE reg' = reg
    BY <2>1, <2>4, Drifting, ShownKept
  <2> QED BY <2>3, <2>4
<1>7. CASE ReloadArrives
  <2>1. /\ \A m \in Name \ {Root} : reg'[m] = reg[m]
        /\ reg'[Root].logic = reg[Root].logic
    BY <1>7, ReloadArrivesTyped, WithHtmlIs, Parameters DEF Typed
  <2>2. \A u \in Url : cache'[u] = cache[u] \/ (cache[u] = "none" /\ cache'[u] = "loading")
    BY <1>3, <1>7, LoadIs DEF ReloadArrives, Compile
  <2>3. /\ Bump({Root}) /\ page' = page /\ knobs' = PassOn({Root}, knobs)
        /\ UNCHANGED <<window, poll>>
    BY <1>7 DEF ReloadArrives, Compile
  <2> QED BY <1>2, <2>1, <2>2, <2>3, Parameters
<1>8. ASSUME NEW n \in Name, NEW k \in Knobs, NEW s \in BOOLEAN, NEW v \in BOOLEAN,
             HostPushesProps(n, k, s, v)
      PROVE  ShownInv'
  <2>1. /\ \A m \in Name \ {n} : reg'[m] = reg[m]
        /\ \A m \in Name : reg[m].logic # NoClass => reg'[m].logic # NoClass
    BY <1>8, PropsEntries
  <2>2. Bump({n}) /\ page' = page /\ UNCHANGED externalVars
    BY <1>8 DEF HostPushesProps
  <2>3. InstancesInv'
    BY <2>1, <2>2, Drifting, InstancesBumped DEF externalVars, ShownInv
  <2>4. CASE n = Root
    <3>1. knobs' = PassOn({Root}, Wanted(k))
      BY <1>8, <2>4 DEF HostPushesProps
    <3> QED BY <2>2, <2>3, <2>4, <3>1, KnobsSet DEF ShownInv
  <2>5. CASE n # Root
    <3>1. knobs' = PassOn({n}, knobs)
      BY <1>8, <2>5 DEF HostPushesProps
    <3> QED BY <2>2, <2>3, <3>1, KnobsBumped DEF ShownInv
  <2> QED BY <2>4, <2>5
<1> QED BY <1>1, <1>4, <1>5, <1>6, <1>7, <1>8, ShownAside, Steps

LEMMA QuietExcuses ==
  ASSUME Quiet, NEW ref
  PROVE  Excused(ref, window, poll) <=> Untold(ref)
BY DEF Quiet, Polled, Excused, Untold, GaveUp, GivenUp

LEMMA ShownWhenQuiet ==
  ASSUME Typed, ShownInv, Quiet, NEW p \in Mounted
  PROVE  LET now == View(p, inst[p])
             told(v) == [v EXCEPT !.refs = {r \in v.refs : ~Untold(r[1])}]
         IN  /\ told(inst[p].shown) = told(now)
             /\ inst[p].shown.kind = "template" =>
                  reg[Of(p)].logic \in {inst[p].logic, inst[p].failed}
             /\ SelfHeals(p)
<1> DEFINE v == inst[p].shown
           u == View(p, inst[p])
<1>1. Settles(reg[Of(p)], inst[p], Circular(p), cache, window, poll)
  BY DEF ShownInv, InstancesInv, Quiet, Redone
<1>2. p \in Path /\ Of(p) \in Name /\ InstanceOK(inst[p])
  BY NameOfPath DEF Typed
<1>3. u = Look(reg[Of(p)], inst[p], Circular(p), cache, window)
  BY <1>2, ViewIsLook DEF InstanceOK
<1>4. Agree(v, u, window, poll)
  BY <1>1, <1>3 DEF Settles
<1>5. {r \in v.refs : ~Untold(r[1])} = {r \in u.refs : ~Untold(r[1])}
  BY <1>4, QuietExcuses DEF Agree
<1>6. ViewOK(u)
  BY <1>2, <1>3, LookType DEF Typed, EntryOK
<1>7. ViewOK(v)
  BY <1>2 DEF InstanceOK
<1> HIDE DEF v, u
<1>8. [v EXCEPT !.refs = {r \in v.refs : ~Untold(r[1])}]
      = [u EXCEPT !.refs = {r \in u.refs : ~Untold(r[1])}]
  BY <1>4, <1>5, <1>6, <1>7 DEF ViewOK, Agree
<1>9. SelfHeals(p)
  BY <1>1 DEF Settles, Heals, SelfHeals
<1> QED BY <1>1, <1>8, <1>9 DEF Settles, u, v

(* Whatever order pushes, files, modules, polls and renders came in, once  *)
(* nothing is scheduled every instance shows what a fresh render would     *)
(* show, and has the class of its entry; the root shows the props that     *)
(* were set.                                                               *)
THEOREM WhatIsShownIsCurrent == Spec => []ShownIsCurrent
<1>1. Init => ShownInv
  BY DEF Init, ShownInv, InstancesInv, KnobsInv, Mounted
<1>2. Typed /\ ShownInv => ShownIsCurrent
  BY ShownWhenQuiet DEF ShownIsCurrent, ShownInv, KnobsInv, Quiet
<1> QED BY <1>1, <1>2, ShownNext, Shape, PTL DEF Spec
=============================================================================
