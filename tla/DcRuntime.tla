----------------------------- MODULE DcRuntime -----------------------------
(***************************************************************************)
(* The runtime of a design page (support.js): a registry of components,    *)
(* each a template and a logic class, that the host of the page pushes new *)
(* sources into while React shows them, and that fetches what it was not   *)
(* given.                                                                  *)
(*                                                                         *)
(* One action is one task of the browser's event loop: a call of the host, *)
(* a response, a timer, or React's render and commit of everything that    *)
(* was scheduled.  A component shown on the page is named by its path, the *)
(* imports that lead to it from the root; an import is the imported name   *)
(* and the place it has in the template, since React keeps an instance     *)
(* only while both stay.                                                   *)
(***************************************************************************)
EXTENDS DcExternal

CONSTANTS Name,          \* component names
          Root,          \* the page's own component
          Template,      \* texts of templates, see TemplateType
          Source,        \* texts of logic scripts, see SourceType
          Pages,         \* the documents a page may be opened from, see PageType
          File,          \* template and script of a sibling file, or NoFile
          PushHtml,      \* the templates the host may push, by component
          PushJs,        \* the scripts the host may push, by component
          Knobs,         \* values the host sets the root's props to
          NoTemplate, NoSource, NoFile, NoScript

(* What a template's text says, as far as the runtime acts on it: the      *)
(* imports it has, the modules it loads (a list per from attribute) and    *)
(* refers to, whether it has a hole only logic fills, the scripts of its   *)
(* helmet and the one its text breaks off in, and what goes wrong with it: *)
(* compiling throws, its own builder throws, or something below it does.   *)
TemplateType ==
  [id : STRING, empty : BOOLEAN, compiles : BOOLEAN, kids : SUBSET (Name \X Nat),
   froms : SUBSET Seq(Url), refs : SUBSET [ref : Reference, bound : BOOLEAN],
   hole : BOOLEAN, scripts : SUBSET Global, cut : Global \union {NoScript},
   crash : {"none", "own", "inner"}]

(* A script defines its class or not; the constructor may need globals;    *)
(* renderVals returns the values, or throws; the logic may call setState.  *)
SourceType == [id : STRING, defines : BOOLEAN, needs : SUBSET Global, renders : BOOLEAN,
               updates : BOOLEAN]

(* The template and script a document has, the template its text has when  *)
(* it is read again (NoTemplate in a bundled page, which does not), and a  *)
(* bound on what the host of the page pushes.                              *)
PageType == [tpl : Template, src : Source \union {NoSource},
             raw : Template \union {NoTemplate}, budget : Nat]

FileType == [tpl : Template \union {NoTemplate}, src : Source \union {NoSource}]

ASSUME RuntimeAssumption ==
  /\ IsFiniteSet(Name) /\ Root \in Name
  /\ NoTemplate \notin Template /\ Template \subseteq TemplateType
  /\ NoSource \notin Source /\ Source \subseteq SourceType
  /\ NoFile \notin FileType /\ NoScript \notin Global
  /\ File \in [Name -> FileType \union {NoFile}]
  /\ Pages \subseteq PageType
  /\ PushHtml \in [Name -> SUBSET Template]
  /\ PushJs \in [Name -> SUBSET Source]

VARIABLES reg,           \* the registry, an entry per component
          asked,         \* siblings whose file was asked for, no answer yet
          reloading,     \* the template the page's own text will bring, if any
          page,          \* "mounting", "mounted", or "unmounted" by a crash
          inst,          \* the instances React has mounted, by path
          dirty,         \* instances React was told to render again
          knobs,         \* props of the root: set, scheduled, shown, ...
          head,          \* scripts that were put into the document's head
          shimmer,       \* the sc-dc-streaming class of the document
          live,          \* the stream tracker: components being streamed
          budget,        \* how often the host may still push
          observed       \* observer: last pushes, lifecycle slips

dcVars == <<reg, asked, reloading, page, inst, dirty, knobs, head, shimmer, live,
            budget, observed>>
vars == <<externalVars, dcVars>>
-----------------------------------------------------------------------------
RootPath == <<<<Root, 0>>>>
Of(p) == p[Len(p)][1]
Prefixes(p) == {SubSeq(p, 1, i) : i \in 1..Len(p)}
Mounted == DOMAIN inst

(* A class is a new object every time its script is evaluated: nth sets it *)
(* apart from the classes of the same script that are still referred to.   *)
NoClass == [src |-> NoSource, nth |-> 0]
Held == {reg[n].logic : n \in Name} \union UNION {{inst[p].logic, inst[p].failed} : p \in Mounted}
Nth(s) == CHOOSE k \in 0..Cardinality(Held) :
            /\ [src |-> s, nth |-> k] \notin Held
            /\ \A j \in 0..(k - 1) : [src |-> s, nth |-> j] \in Held
NewClass(s) == [src |-> s, nth |-> Nth(s)]

Streaming(e) == e.htmlStreaming \/ e.jsStreaming
NoView == [kind |-> "placeholder", tpl |-> NoTemplate, logic |-> NoClass, problem |-> FALSE,
           hole |-> "none", refs |-> {}, html |-> FALSE, js |-> FALSE]

(* registry.get: an entry nobody wrote to.                                 *)
NoEntry == [html |-> NoTemplate, tpl |-> NoTemplate, logic |-> NoClass, logicError |-> FALSE,
            htmlStreaming |-> FALSE, jsStreaming |-> FALSE, fetched |-> FALSE]

(* updateHtml and updateJs on an entry: a template that does not compile   *)
(* leaves the one before it in use, a script that defines no class leaves  *)
(* the class before it.                                                    *)
WithHtml(e, t) == [e EXCEPT !.html = t, !.tpl = IF t.compiles THEN t ELSE @]
WithJs(e, s) == IF s.defines THEN [e EXCEPT !.logic = NewClass(s), !.logicError = FALSE]
                ELSE [e EXCEPT !.logicError = TRUE]

(* Mutant: a push leaves the fetch of the component's file to its renders. *)
Unclaimed(e, streaming) == e

(* The first line of dcUpdate: a stream that starts, of a template, of a   *)
(* script or of metadata, keeps ensureFetched away from then on.           *)
Claimed(e, streaming) == [e EXCEPT !.fetched = @ \/ streaming]

(* setStreaming.                                                           *)
HtmlStreams(e, streaming) == [Claimed(e, streaming) EXCEPT !.htmlStreaming = streaming]
JsStreams(e, streaming) == [Claimed(e, streaming) EXCEPT !.jsStreaming = streaming]

(* Mutant: the response replaces whatever there is.                        *)
AlwaysFilled(e, f) ==
  LET withTpl == IF f.tpl # NoTemplate THEN WithHtml(e, f.tpl) ELSE e
  IN IF f.src # NoSource THEN WithJs(withTpl, f.src) ELSE withTpl

(* The end of ensureFetched: the file's parts fill what is still missing.  *)
Lacks(e) == e.html = NoTemplate \/ e.html.empty
Filled(e, f) ==
  LET withTpl == IF f.tpl # NoTemplate /\ Lacks(e) THEN WithHtml(e, f.tpl) ELSE e
  IN IF f.src # NoSource /\ e.logic = NoClass THEN WithJs(withTpl, f.src) ELSE withTpl
-----------------------------------------------------------------------------
(* Mutant: clearing the error is taken to be all an instance needs.        *)
BumpClears(names) ==
  /\ inst' = [p \in Mounted |-> IF Of(p) \in names
                                THEN [inst[p] EXCEPT !.err = FALSE, !.retry = TRUE]
                                ELSE inst[p]]
  /\ dirty' = dirty \union {p \in Mounted : Of(p) \in names /\ ~inst[p].err}

(* registry.bump: every mounted instance of the names is told to render    *)
(* again, loses its error, and may construct its logic again.  The root's  *)
(* props are passed on only once the page listens for its entry.           *)
Bump(names) ==
  /\ inst' = [p \in Mounted |-> IF Of(p) \in names
                                THEN [inst[p] EXCEPT !.err = FALSE, !.retry = TRUE]
                                ELSE inst[p]]
  /\ dirty' = dirty \union {p \in Mounted : Of(p) \in names}

PassOn(names, k) ==
  IF Root \in names /\ k.heard THEN [k EXCEPT !.next = k.set, !.missed = FALSE] ELSE k

(* The document's shimmer is on while any component streams.               *)
AnyStreaming(r) == \E n \in Name : Streaming(r[n])

(* compileTemplate starts the loads of the from attributes it walks over.  *)
Compile(t) == Load(t.froms) /\ UNCHANGED <<window, poll>>
-----------------------------------------------------------------------------
(* Rendering.  All of this is a function of the state the task starts in.  *)

(* The constructor runs against the globals there are.                     *)
Constructs(c) == c = NoClass \/ c.src.needs \subseteq window
Made(c) == [logic |-> IF Constructs(c) THEN c ELSE NoClass,
            failed |-> IF Constructs(c) THEN NoClass ELSE c]

FreshInstance(p) ==
  LET m == Made(reg[Of(p)].logic)
  IN [logic |-> m.logic, failed |-> m.failed, retry |-> FALSE, needsDidMount |-> FALSE,
      live |-> FALSE, err |-> FALSE, shown |-> NoView]

Circular(p) == \E i \in 1..(Len(p) - 1) : p[i][1] = Of(p)
Redone(p) == p \notin Mounted \/ Prefixes(p) \intersect dirty # {}
InError(p) == p \in Mounted /\ inst[p].err
TplOf(p) == IF Redone(p) THEN reg[Of(p)].tpl ELSE inst[p].shown.tpl
Runs(p) == ~Circular(p) /\ ~InError(p) /\ TplOf(p) # NoTemplate

(* A builder that throws ends the render of its own component, which gets  *)
(* to none of its imports, and no component catches what its own render    *)
(* throws: its parent does.                                                *)
Throws(p) == Redone(p) /\ Runs(p) /\ TplOf(p).crash = "own"
KidsOf(p) == IF Runs(p) /\ ~Throws(p) THEN {Append(p, k) : k \in TplOf(p).kids} ELSE {}
Catches(p) == \/ Redone(p) /\ Runs(p) /\ TplOf(p).crash = "inner"
              \/ \E c \in KidsOf(p) : Throws(c)

(* The paths this render gets to: every import is one of the component     *)
(* before it.  None is longer than Depth, since an import of itself        *)
(* renders no further.  Those that are mounted after it have no component  *)
(* before them that has caught an error.                                   *)
Depth == Cardinality(Name) + 1
Import == UNION {t.kids : t \in Template}
Path == {RootPath \o s : s \in UNION {[1..d -> Import] : d \in 0..(Depth - 1)}}
Reached(p) == \A i \in 1..(Len(p) - 1) : SubSeq(p, 1, i + 1) \in KidsOf(SubSeq(p, 1, i))
Grown(p) == Reached(p) /\ \A i \in 1..(Len(p) - 1) : ~Catches(SubSeq(p, 1, i))
Tree == IF Throws(RootPath) THEN {} ELSE {p \in Path : Grown(p)}

(* What was rendered on the way, all that an error then took away included *)
(* (as if it threw last of what is below the component that catches it).   *)
Attempted == {p \in Path : Reached(p) /\ Redone(p)}

(* __reconcileLogic: the instance takes over the registry's class, unless  *)
(* constructing that class failed and its entry has not been bumped since. *)
(* The values of props are left out: new ones would break the memo, too.   *)
Swaps(p, i) ==
  LET next == reg[Of(p)].logic
  IN Redone(p) /\ ~Circular(p) /\ ~InError(p)
       /\ next # i.logic /\ ~(next = i.failed /\ ~i.retry)

Reconciled(p, i) ==
  LET m == Made(reg[Of(p)].logic)
  IN IF Swaps(p, i)
     THEN [i EXCEPT !.logic = m.logic, !.failed = m.failed, !.retry = FALSE,
                    !.needsDidMount = TRUE, !.live = FALSE]
     ELSE i

(* Mutant: the logic is told to unmount whether it was mounted or not.     *)
AlwaysLeaves(i) == TRUE

(* The calls of componentWillUnmount and componentDidMount on the logic.   *)
Leaves(i) == ~i.needsDidMount

Mounts(p, i) == \/ p \notin Mounted
                \/ Redone(p) /\ i.needsDidMount /\ ~i.err /\ TplOf(p) # NoTemplate

Committed(p, i) ==
  IF Mounts(p, i) THEN [i EXCEPT !.live = TRUE, !.needsDidMount = FALSE] ELSE i

(* What an instance shows once it is rendered with the registry as it is.  *)
Hole(t, i, e) ==
  CASE ~t.hole -> "none"
    [] t.hole /\ i.logic # NoClass /\ i.logic.src.renders -> "filled"
    [] OTHER -> IF Streaming(e) THEN "shimmer" ELSE "blank"

ImportView(b, hole, e) ==
  <<b.ref, IF Resolve(b.ref) = "component" /\ b.bound /\ hole # "filled" /\ e.htmlStreaming
           THEN "placeholder" ELSE Resolve(b.ref)>>

View(p, i) ==
  LET e == reg[Of(p)]
      flagged(kind) == [NoView EXCEPT !.kind = kind, !.html = e.htmlStreaming, !.js = e.jsStreaming]
  IN CASE Circular(p) -> flagged("circular")
       [] ~Circular(p) /\ i.err -> flagged("error")
       [] ~Circular(p) /\ ~i.err /\ e.tpl = NoTemplate -> flagged("placeholder")
       [] OTHER -> [flagged("template") EXCEPT
            !.tpl = e.tpl, !.logic = i.logic,
            !.problem = \/ e.logicError \/ i.failed # NoClass
                        \/ i.logic # NoClass /\ ~i.logic.src.renders,
            !.hole = Hole(e.tpl, i, e),
            !.refs = {ImportView(b, Hole(e.tpl, i, e), e) : b \in e.tpl.refs}]

Old(p) == IF p \in Mounted THEN inst[p] ELSE FreshInstance(p)
Rendered(p) == [Reconciled(p, Old(p)) EXCEPT !.err = @ \/ Catches(p)]
Painted(p) ==
  LET i == Rendered(p)
      shown == IF Redone(p) \/ Catches(p) THEN View(p, i) ELSE i.shown
  IN Committed(p, [i EXCEPT !.shown = shown])

(* A call that does not fit: a logic is replaced or unmounted live and not *)
(* told, or told and not live, or mounted twice.                           *)
Slip(tree) ==
  LET dropped(p) == IF Throws(p) THEN Reconciled(p, inst[p]) ELSE inst[p]
  IN \/ \E p \in Mounted : Swaps(p, inst[p]) /\ Leaves(inst[p]) # inst[p].live
     \/ \E p \in Mounted \ tree : Leaves(dropped(p)) # dropped(p).live
     \/ \E p \in tree : Mounts(p, Rendered(p)) /\ Rendered(p).live

(* Mutant: the script at the end of a text that breaks off is mounted too. *)
AllScripts(p) == (TplOf(p).scripts \union {TplOf(p).cut}) \ {NoScript}

(* The helmet: whole scripts go into the head once; the script the text    *)
(* breaks off in does not while the component streams.                     *)
HelmetScripts(p) ==
  LET t == TplOf(p)
  IN t.scripts \union (IF t.cut = NoScript \/ reg[Of(p)].htmlStreaming THEN {} ELSE {t.cut})

Render ==
  /\ page # "unmounted"
  /\ dirty # {}
  /\ LET tree == Tree
         names == {Of(p) : p \in Attempted}
         run == {p \in Attempted : Runs(p)}
     IN /\ inst' = [p \in tree |-> Painted(p)]
        /\ page' = IF tree = {} THEN "unmounted" ELSE "mounted"
        /\ observed' = [observed EXCEPT !.slip = @ \/ Slip(tree)]
        /\ reg' = [n \in Name |-> IF n \in names THEN [reg[n] EXCEPT !.fetched = TRUE] ELSE reg[n]]
        /\ asked' = asked \union {n \in names : ~reg[n].fetched}
        /\ head' = head \union UNION {HelmetScripts(p) : p \in run}
        /\ Wait(Missed(UNION {{b.ref : b \in TplOf(p).refs} : p \in run}))
  /\ dirty' = {}
  /\ knobs' = IF page = "mounting" THEN [knobs EXCEPT !.next = knobs.set, !.shown = knobs.set]
              ELSE [knobs EXCEPT !.heard = TRUE, !.shown = knobs.next]
  /\ UNCHANGED <<cache, after, babel, window, reloading, shimmer, live, budget>>

(* The passive effect of the first commit: the page listens for its entry. *)
PassiveEffects ==
  /\ page = "mounted"
  /\ ~knobs.heard
  /\ knobs' = [knobs EXCEPT !.heard = TRUE]
  /\ UNCHANGED <<externalVars, reg, asked, reloading, page, inst, dirty, head, shimmer, live,
                 budget, observed>>

(* A component's logic calls setState or forceUpdate.                      *)
LogicUpdates(p) ==
  /\ p \in Mounted
  /\ inst[p].logic # NoClass /\ inst[p].logic.src.updates
  /\ dirty' = dirty \union {p}
  /\ UNCHANGED <<externalVars, reg, asked, reloading, page, inst, knobs, head, shimmer, live,
                 budget, observed>>
-----------------------------------------------------------------------------
(* A call of the host is counted, and noted by the stream tracker unless   *)
(* it is for the view the tracker ignores (viewportKey "dc-model").        *)
Push(n, streaming, model) ==
  /\ budget > 0
  /\ budget' = budget - 1
  /\ live' = IF model THEN live ELSE IF streaming THEN live \union {n} ELSE live \ {n}

Torn(t) == t # NoTemplate /\ t.cut # NoScript

(* dcUpdate with a template: streaming or final, it is shown at once.      *)
HostPushesHtml(n, t, streaming, model) ==
  /\ Push(n, streaming, model)
  /\ reg' = [reg EXCEPT ![n] = WithHtml(HtmlStreams(@, streaming), t)]
  /\ shimmer' = AnyStreaming(reg')
  /\ Compile(t)
  /\ Bump({n})
  /\ knobs' = PassOn({n}, knobs)
  /\ observed' = [observed EXCEPT !.html[n] = IF t.empty THEN NoTemplate ELSE t,
                                  !.torn = @ \/ (~streaming /\ Torn(reg'[n].tpl))]
  /\ UNCHANGED <<asked, reloading, page, head>>

(* dcUpdate with a script: evaluated when its stream is over.              *)
HostPushesJs(n, s, streaming, model) ==
  /\ Push(n, streaming, model)
  /\ LET e == JsStreams(reg[n], streaming)
     IN reg' = [reg EXCEPT ![n] = IF streaming THEN e ELSE WithJs(e, s)]
  /\ shimmer' = AnyStreaming(reg')
  /\ Bump({n})
  /\ knobs' = PassOn({n}, knobs)
  /\ observed' = IF streaming \/ ~s.defines THEN observed
                 ELSE [observed EXCEPT !.logic[n] = reg'[n].logic]
  /\ UNCHANGED <<externalVars, asked, reloading, page, head>>

(* The root's props, its defaults with the overrides over them, are to be  *)
(* k from now on; the page misses that while it does not listen.           *)
Wanted(k) == [knobs EXCEPT !.set = k, !.missed = (page = "mounted" /\ ~knobs.heard)]

(* dcUpdate with metadata of the props: it has no streaming flag of its    *)
(* own.  That of the root gives the root's props other defaults.           *)
HostPushesProps(n, k, streaming, model) ==
  /\ Push(n, streaming, model)
  /\ reg' = [reg EXCEPT ![n] = Claimed(@, streaming)]
  /\ Bump({n})
  /\ knobs' = PassOn({n}, IF n = Root THEN Wanted(k) ELSE knobs)
  /\ UNCHANGED <<externalVars, asked, reloading, page, head, shimmer, observed>>

(* setProps of the root.                                                   *)
HostSetsProps(k) ==
  /\ budget > 0
  /\ budget' = budget - 1
  /\ knobs' = PassOn({Root}, Wanted(k))
  /\ Bump({Root})
  /\ UNCHANGED <<externalVars, reg, asked, reloading, page, head, shimmer, live, observed>>

(* The answer to the fetch of a sibling's file: its text, or none.         *)
SiblingArrives(n) ==
  /\ n \in asked
  /\ asked' = asked \ {n}
  /\ File[n] # NoFile
  /\ reg' = [reg EXCEPT ![n] = Filled(@, File[n])]
  /\ IF reg[n].html # reg'[n].html THEN Compile(File[n].tpl) ELSE UNCHANGED externalVars
  /\ IF reg[n] = reg'[n] THEN UNCHANGED <<inst, dirty, knobs>>
     ELSE Bump({n}) /\ knobs' = PassOn({n}, knobs)
  /\ UNCHANGED <<reloading, page, head, shimmer, live, budget, observed>>

SiblingMissing(n) ==
  /\ n \in asked
  /\ asked' = asked \ {n}
  /\ UNCHANGED <<externalVars, reg, reloading, page, inst, dirty, knobs, head, shimmer, live,
                 budget, observed>>

(* The answer to the page's fetch of its own text: the template as it was  *)
(* written replaces the root's, whatever that is by now.                   *)
ReloadArrives ==
  /\ reloading # NoTemplate
  /\ reloading' = NoTemplate
  /\ reg' = [reg EXCEPT ![Root] = WithHtml(@, reloading)]
  /\ Compile(reloading)
  /\ Bump({Root})
  /\ knobs' = PassOn({Root}, knobs)
  /\ UNCHANGED <<asked, page, head, shimmer, live, budget, observed>>

ReloadFails ==
  /\ reloading # NoTemplate
  /\ reloading' = NoTemplate
  /\ UNCHANGED <<externalVars, reg, asked, page, inst, dirty, knobs, head, shimmer, live, budget,
                 observed>>

(* onResolved is bumpAll.                                                  *)
Notified ==
  /\ Bump(Name)
  /\ knobs' = PassOn(Name, knobs)
  /\ UNCHANGED <<reg, asked, reloading, page, head, shimmer, live, budget, observed>>

(* Mutant: the poll ends without a call of onResolved.                     *)
FoundQuietly(g) == PollFinds(g) /\ UNCHANGED dcVars

LoadEnds(u) == (Evaluated(u) \/ LoadFailed(u)) /\ Notified
GlobalFound(g) == PollFinds(g) /\ Notified

(* The tasks of the loader, and of the scripts in the head, that tell      *)
(* nobody.                                                                 *)
GlobalMissed(g) == PollMisses(g) /\ UNCHANGED dcVars
BabelArrives == BabelLoads /\ UNCHANGED dcVars
HeadScriptRuns(g) == g \in head /\ ScriptRuns(g) /\ UNCHANGED dcVars

(* A stream nothing was pushed to for 60 seconds is taken to be over.      *)
StreamGoesStale(n) ==
  /\ n \in live
  /\ live' = live \ {n}
  /\ UNCHANGED <<externalVars, reg, asked, reloading, page, inst, dirty, knobs, head, shimmer,
                 budget, observed>>
-----------------------------------------------------------------------------
(* The state boot leaves: the page's own template and script registered,   *)
(* their loads started, the root handed to React, its text asked for.      *)
Opened(doc) ==
  LET urls == UNION {{f[i] : i \in 1..Len(f)} : f \in doc.tpl.froms}
  IN /\ cache = [u \in Url |-> IF u \in urls THEN "loading" ELSE "none"]
     /\ after = [u \in Url |-> IF u \in urls THEN Before(doc.tpl.froms, u) ELSE NoUrl]
     /\ babel = IF urls \intersect Jsx # {} THEN "loading" ELSE "none"
     /\ reg = [n \in Name |->
          IF n # Root THEN NoEntry
          ELSE [NoEntry EXCEPT !.fetched = TRUE, !.html = doc.tpl, !.tpl = doc.tpl,
                  !.logic = IF doc.src = NoSource THEN NoClass ELSE [src |-> doc.src, nth |-> 0]]]
     /\ reloading = doc.raw
     /\ budget = doc.budget

Init ==
  /\ \E doc \in Pages : Opened(doc)
  /\ window = {}
  /\ poll = <<>>
  /\ asked = {}
  /\ page = "mounting"
  /\ inst = <<>>
  /\ dirty = {RootPath}
  /\ knobs = [set |-> 0, next |-> 0, shown |-> 0, heard |-> FALSE, missed |-> FALSE]
  /\ head = {}
  /\ shimmer = FALSE
  /\ live = {}
  /\ observed = [html |-> [n \in Name |-> NoTemplate], logic |-> [n \in Name |-> NoClass],
                 slip |-> FALSE, torn |-> FALSE]

Next ==
  \/ Render \/ PassiveEffects
  \/ \E p \in Mounted : LogicUpdates(p)
  \/ \E n \in Name, s, v \in BOOLEAN :
       \/ \E t \in PushHtml[n] : HostPushesHtml(n, t, s, v)
       \/ \E j \in PushJs[n] : HostPushesJs(n, j, s, v)
       \/ \E k \in Knobs : HostPushesProps(n, k, s, v)
  \/ \E n \in Name : SiblingArrives(n) \/ SiblingMissing(n) \/ StreamGoesStale(n)
  \/ \E k \in Knobs : HostSetsProps(k)
  \/ ReloadArrives \/ ReloadFails
  \/ BabelArrives
  \/ \E u \in Url : LoadEnds(u)
  \/ \E g \in Global : GlobalFound(g) \/ GlobalMissed(g) \/ HeadScriptRuns(g)

(* React's scheduler runs what is scheduled, a request or a script's load  *)
(* ends one way or the other, and the timer of a poll fires.  Nothing is   *)
(* assumed of the host, of the files, or of the scripts of the page.  The  *)
(* first conjunct is weak fairness of Render, the one step that empties    *)
(* dirty, in a form that is cheap to check.                                *)
Fairness ==
  /\ []<>(dirty = {} \/ page = "unmounted")
  /\ WF_vars(PassiveEffects) /\ WF_vars(BabelArrives)
  /\ \A u \in Url : WF_vars(LoadEnds(u))
  /\ \A g \in Global : WF_vars(GlobalFound(g) \/ GlobalMissed(g))

Spec == Init /\ [][Next]_vars
FairSpec == Spec /\ Fairness
-----------------------------------------------------------------------------
(* Every part of the state is of its kind.                                 *)
TypeOK ==
  /\ \A n \in Name : /\ {reg[n].html, reg[n].tpl} \subseteq Template \union {NoTemplate}
                     /\ (reg[n].logic = NoClass \/ reg[n].logic.src \in Source)
  /\ asked \subseteq {n \in Name : reg[n].fetched}
  /\ page \in {"mounting", "mounted", "unmounted"}
  /\ dirty \subseteq Mounted \union {RootPath}
  /\ \A p \in Mounted : Len(p) = 1 \/ SubSeq(p, 1, Len(p) - 1) \in Mounted
  /\ knobs.shown \in Knobs \union {0}
  /\ head \subseteq Global
  /\ live \subseteq Name
  /\ DOMAIN cache = Url
  /\ \A g \in DOMAIN poll : poll[g] \in 0..PollLimit

(* Nothing is left to render, and no poll has something to find.           *)
Quiet == page = "mounted" /\ dirty = {} /\ Polled \intersect window = {}

(* A global a script set after the page gave up waiting for it, or that it *)
(* looked up elsewhere: nobody tells the components that refer to it.      *)
Untold(ref) == /\ ref.name \in Scripts \intersect window
               /\ ref.scope = "exports" \/ ref.url # NoUrl \/ GaveUp(ref.name)

(* A constructor that failed for want of a global that a module then set   *)
(* has been tried again (the memo of __failedLogic is broken by a bump).   *)
SelfHeals(p) ==
  inst[p].shown.kind = "template" /\ inst[p].failed # NoClass =>
    ~(inst[p].failed.src.needs \subseteq window \ Scripts)

(* Whatever order pushes, files, modules and renders came in, once nothing *)
(* is scheduled every instance shows what a fresh render would show now:   *)
(* no update of the registry or of the loader is left without its bump     *)
(* (updateHtml, updateJs, setStreaming, onResolved = bumpAll, the subs);   *)
(* and the root shows the props the host set, unless they were set between *)
(* the first commit and its passive effects.                               *)
ShownIsCurrent ==
  Quiet =>
    /\ \A p \in Mounted :
         LET now == View(p, inst[p])
             told(v) == [v EXCEPT !.refs = {r \in v.refs : ~Untold(r[1])}]
         IN /\ told(inst[p].shown) = told(now)
            /\ inst[p].shown.kind = "template" =>
                 reg[Of(p)].logic \in {inst[p].logic, inst[p].failed}
            /\ SelfHeals(p)
    /\ ~knobs.missed => knobs.shown = knobs.set

(* What the host pushed last stays: a sibling's file that answers late     *)
(* replaces neither a template nor a class (the guards in ensureFetched).  *)
(* The root is not claimed for: its own text replaces what was pushed.     *)
PushWins ==
  \A n \in Name :
    /\ (n # Root /\ observed.html[n] # NoTemplate) => reg[n].html = observed.html[n]
    /\ observed.logic[n] # NoClass => reg[n].logic = observed.logic[n]

(* Hot swaps, errors, cycles and unmounts leave the author's logic with    *)
(* matched calls: componentDidMount once, then componentWillUnmount once,  *)
(* and no logic is dropped between the two (__needsDidMount).              *)
LifecycleBalanced == ~observed.slip

(* The script a streamed template breaks off in is put into the head only  *)
(* when a push that ended its stream left that template in use (helmet's   *)
(* mayBePartial against setStreaming and a final text that fails to        *)
(* compile).                                                               *)
NoTornScript ==
  \A g \in head : (\A t \in Template : g \notin t.scripts) => observed.torn

(* The file of a component is not asked for while the host streams into    *)
(* the component, be it a template, a script or only metadata, and whether *)
(* or not its tracker is told: neither the first render of an instance nor *)
(* a later one starts a fetch that would race the stream (dcUpdate's first *)
(* line against ensureFetched).                                            *)
StreamsNotAsked ==
  [][\A n \in Name : n \in live \/ Streaming(reg[n]) => n \notin asked' \ asked]_vars

(* Every module that was asked for settles, in whatever order the lists    *)
(* name them and whichever of Babel, a request or an evaluation fails.     *)
ImportsSettle == \A u \in Url : cache[u] = "loading" ~> Settled(u)

(* A global that a script sets while the page still polls for it ends up   *)
(* on the page: no instance goes on showing its placeholder.               *)
Waits(g) == \E p \in Mounted : \E r \in inst[p].shown.refs :
              r[1].name = g /\ r[1].url = NoUrl /\ r[2] = "waiting"
GlobalsNoticed == \A g \in Global : g \in Polled \intersect window ~> ~Waits(g)

(* A crash while rendering never takes the page away: the comment of the   *)
(* error boundary in support.js says a crash in the component's own        *)
(* template lands in it "instead of unmounting the page".                  *)
PageStaysMounted == page # "unmounted"
=============================================================================
