----------------------------- MODULE DcExternal -----------------------------
(***************************************************************************)
(* The loader of external modules of the page runtime (external.ts in      *)
(* support.js): modules an <x-import> names by URL, fetched and evaluated  *)
(* once each, and globals it waits for by polling the window.              *)
(*                                                                         *)
(* Every action here is a task of the browser's event loop.  The actions   *)
(* that end in a call of onResolved are kept apart, because the runtime    *)
(* that composes this module renders its components again on that call.    *)
(***************************************************************************)
EXTENDS Naturals, FiniteSets, Sequences

CONSTANTS Url,           \* the modules' URLs
          Jsx,           \* the URLs that need Babel before they are evaluated
          Exports,       \* the names a module exports, by URL
          Defines,       \* the globals a module sets when it is evaluated
          Scripts,       \* the globals plain scripts of the page set
          NoUrl,         \* an <x-import> without a from attribute
          PollLimit      \* GLOBAL_POLL_TIMEOUT_MS, in ticks of the poll

ASSUME ExternalAssumption ==
  /\ Jsx \subseteq Url
  /\ NoUrl \notin Url
  /\ DOMAIN Exports = Url
  /\ DOMAIN Defines = Url
  /\ PollLimit \in Nat \ {0}

VARIABLES cache,         \* "none" (never asked), "loading", "ok" or "failed"
          after,         \* the load a load waits for, NoUrl if none
          babel,         \* state of the one load of Babel
          window,        \* the names that are on window
          poll           \* ticks a global was polled for; absent: not polled

externalVars == <<cache, after, babel, window, poll>>
-----------------------------------------------------------------------------
Global == Scripts \union UNION {Defines[u] : u \in Url}
Loading == {u \in Url : cache[u] = "loading"}
Settled(u) == cache[u] \in {"ok", "failed"}

(* Mutant: the last tick before the limit is not the last.                 *)
GaveUpLate(g) == g \in DOMAIN poll /\ poll[g] > PollLimit

GaveUp(g) == g \in DOMAIN poll /\ poll[g] >= PollLimit
Polled == {g \in DOMAIN poll : ~GaveUp(g)}

(* A reference of an <x-import>: its last URL, the name, whether the name  *)
(* is looked up in the global scope, and whether it has a dot in it.       *)
Reference == [url : Url \union {NoUrl}, name : STRING \union Global,
              scope : {"exports", "global"}, dotted : BOOLEAN]

(* The module exports of an entry, empty unless it loaded.                 *)
Exported(u) == IF cache[u] = "ok" THEN Exports[u] ELSE {}

(* resolve2 and getError: what a component named in a module shows as.     *)
ResolveExport(ref) ==
  IF ref.url = NoUrl \/ ~Settled(ref.url) THEN "waiting"
  ELSE IF ref.name \in Exported(ref.url) \union window THEN "component" ELSE "error"

(* resolveGlobal and getError.  After its module is there, a dotted name   *)
(* that is missing shows an empty placeholder (the module's own error, if  *)
(* it has one), any other name becomes the tag of an unknown element.      *)
ResolveGlobal(ref) ==
  CASE ref.url = NoUrl /\ ref.name \in window -> "component"
    [] ref.url = NoUrl /\ ref.name \notin window -> "waiting"
    [] ref.url # NoUrl /\ ~Settled(ref.url) -> "waiting"
    [] ref.url # NoUrl /\ Settled(ref.url) /\ ref.name \in window -> "component"
    [] OTHER -> IF ~ref.dotted THEN "element"
                ELSE IF cache[ref.url] = "failed" THEN "error" ELSE "blank"

Resolve(ref) == IF ref.scope = "global" THEN ResolveGlobal(ref) ELSE ResolveExport(ref)

(* The globals that rendering these references starts to wait for.         *)
Missed(refs) == {ref.name : ref \in {r \in refs : r.scope = "global" /\ r.url = NoUrl
                                                  /\ r.name \notin window}}

ExternalInit ==
  /\ cache = [u \in Url |-> "none"]
  /\ after = [u \in Url |-> NoUrl]
  /\ babel = "none"
  /\ window = {}
  /\ poll = <<>>

(* load, called for every URL of the from attributes a template has, each  *)
(* after the one before it: an URL that was asked for before keeps its     *)
(* load and what that waits for.                                           *)
Fresh(froms) == {u \in UNION {{f[i] : i \in 1..Len(f)} : f \in froms} : cache[u] = "none"}

Before(froms, u) ==
  LET chain == CHOOSE f \in froms : \E i \in 1..Len(f) : f[i] = u
      at == CHOOSE i \in 1..Len(chain) : chain[i] = u
  IN IF at = 1 THEN NoUrl ELSE chain[at - 1]

Load(froms) ==
  /\ cache' = [u \in Url |-> IF u \in Fresh(froms) THEN "loading" ELSE cache[u]]
  /\ after' = [u \in Url |-> IF u \in Fresh(froms) THEN Before(froms, u) ELSE after[u]]
  /\ babel' = IF babel = "none" /\ Fresh(froms) \intersect Jsx # {} THEN "loading" ELSE babel

(* waitForGlobal: a name that is polled, or was given up, stays as it is.  *)
Wait(names) ==
  poll' = [g \in DOMAIN poll \union names |-> IF g \in DOMAIN poll THEN poll[g] ELSE 0]
-----------------------------------------------------------------------------
(* ensureBabel: the promise of its script is kept, failed or not.          *)
BabelLoads ==
  /\ babel = "loading"
  /\ babel' \in {"ok", "failed"}
  /\ UNCHANGED <<cache, after, window, poll>>

(* Mutant: a load of JSX goes on waiting for a Babel that failed.          *)
WaitsForBabel(u) ==
  /\ u \in Jsx => babel = "ok"
  /\ after[u] # NoUrl => Settled(after[u])

(* ready: Babel for JSX, and the load before it whether it failed or not.  *)
Ready(u) ==
  \/ u \in Jsx /\ babel = "failed"
  \/ /\ u \in Jsx => babel = "ok"
     /\ after[u] # NoUrl => Settled(after[u])

(* The module's text came and was evaluated; onResolved is called.         *)
Evaluated(u) ==
  /\ cache[u] = "loading"
  /\ Ready(u)
  /\ u \in Jsx => babel = "ok"
  /\ cache' = [cache EXCEPT ![u] = "ok"]
  /\ window' = window \union Defines[u]
  /\ UNCHANGED <<after, babel, poll>>

(* Babel or the request failed, or the text threw when it was evaluated,   *)
(* before or after it set its globals; onResolved is called.               *)
LoadFailed(u) ==
  /\ cache[u] = "loading"
  /\ Ready(u)
  /\ cache' = [cache EXCEPT ![u] = "failed"]
  /\ window' \in IF u \in Jsx /\ babel = "failed" THEN {window}
                 ELSE {window, window \union Defines[u]}
  /\ UNCHANGED <<after, babel, poll>>

(* A script of the page sets a global; nobody is told.                     *)
ScriptRuns(g) ==
  /\ g \in Scripts \ window
  /\ window' = window \union {g}
  /\ UNCHANGED <<cache, after, babel, poll>>

(* tick finds the global: onResolved is called.                            *)
PollFinds(g) ==
  /\ g \in Polled \intersect window
  /\ poll' = [h \in DOMAIN poll \ {g} |-> poll[h]]
  /\ UNCHANGED <<cache, after, babel, window>>

(* tick does not find it: it tries again, or gives up after 30 seconds and *)
(* leaves the name in polling.                                             *)
PollMisses(g) ==
  /\ g \in Polled \ window
  /\ poll' = [poll EXCEPT ![g] = @ + 1]
  /\ UNCHANGED <<cache, after, babel, window>>
=============================================================================
