# Formal verification of service-directory

`service-directory` runs one small web service per machine: a page and a JSON
API that list the services of that machine and, through *federation*, those of
the machines it is paired with.  The repository also holds the design system its
pages are built with: a component library, example pages, and the runtime that
shows a page while it is still being written.  This directory holds TLA+ models of
the parts that keep state and are reached by several actors, or in many orders,
the TLC runs that check them on small instances, and TLAPS proofs of what matters
most for every instance.

    tlasany M.tla                       parse a module
    tlc -workers 2 -config X.cfg MCM    check a run (PROJECT.json lists them)
    tlapm XProofs.tla                   check the proofs about X: Registry, Maintenance,
                                        Pairing, Federation, DcRuntime, Kits, KitsScreen;
                                        ElementsProofs, about any screen

Paths below are relative to `src/service_directory/` (Python) or `design-system/`
(JavaScript) in the repository.

## 1. The system

### The service

| Component | State | Operations | Where |
|---|---|---|---|
| Dynamic registry | `registry.json` (mode 0600), read afresh by every request | list, register, deregister, heartbeat; every load prunes expired entries and saves | `registry.py`, handlers in `app.py` |
| Trust store | `peers.json`: name, device, base URL, token of each peer | load, upsert, remove, find by token | `trust_store.py` |
| Pairing | codes, in memory of the web process | issue, redeem; `POST /api/federation/pair` (server half), `pair-with-peer` and `cli pair` (client half) | `pairing.py`, `app.py`, `cli.py` |
| Federation | none of its own: one tree of HTTP requests per page | aggregate, tag origin, deduplicate, report reachability | `federation.py`, `app.py` |
| Maintenance | `<id>.json` job records, `latest-job.json`, a lock file, a systemd transient unit per job | start, read and reconcile a job, launch and run the worker, verify | `maintenance.py` |
| Upgrade | the installed package | stop, reinstall, regenerate the unit, start | `upgrade.py`, `install_source.py` |
| Service manager | systemd unit (or launchd plist) of the web service | install, uninstall, start, stop, status | `service_manager.py` |
| Access control | `write-token` file; the trust store | read, write and admin access of a request | `auth.py`, `write_token.py` |
| Identity | `identity.json` | load or create | `identity.py` |
| Health | none | probe every service concurrently, each with a timeout | `health.py` |
| Configuration, URLs | `services.yaml`, read once at start | parse, validate, resolve links | `config.py`, `urls.py` |
| Page scripts | browser state: settings panel, maintenance poller, viewer | JavaScript strings of `app.py` | `app.py` 100-1950 |
| CLI, doctor | none | HTTP client of the API; read-only diagnosis | `cli.py`, `doctor.py` |

Handlers are plain `def` functions, so each request runs in a thread of the
server's pool (40 threads) and any two requests of one process interleave.  The
CLI is a separate process that writes the same files.  A page request
(`_aggregation_result`) loads the trust store, asks each peer over HTTP and merges
the answers with the registry and the configured services; the peer's handler is
the same function.  Pairing writes the trust stores of two machines with two HTTP
halves.  An update request takes a file lock, stores a job and asks systemd for an
independent worker, which stops the very process that served the request.

What is hard.  No lock protects `registry.json`, `peers.json` or the code store,
and saves of one file share one temporary name.  The web process may die between
any two steps, sometimes because its own update stops it.  Requests, answers and
launches get lost or time out while the other side goes on.  Deadlines of three
parties (request, systemd, reader) have to fit together.  A page is a tree of
requests over a graph with cycles, each holding a thread and a timeout.

What makes each component correct: an acknowledged registration stays until it
is removed or expires, and the file stays readable; at most one update runs, a
final status is true and final, and the service comes back; a code works once,
both ends of a pairing hold the same token, a removed peer stays removed; a page
attributes each service to its owner, once, and lacks only what failed.

### The design system

| Component | State | Operations | Where |
|---|---|---|---|
| Page runtime | registry of components (template, logic class, streaming flags), mounted instances, the head's scripts | adopt the page, fetch siblings, take pushes, render, error boundaries, logic lifecycle | `templates/amplifier-app/support.js` |
| External modules | cache by URL, one Babel load, polls for globals | load, evaluate, resolve an import | same file, `external.ts` part |
| Component library | hover and focus only; what a component offers is a function of its props | | `components/`, compiled into `_ds_bundle.js` |
| Example pages | filter, open item, dialogs, toast and its timer, counters, theme in `localStorage` | every click, key and timer of four pages | `ui_kits/*/*.jsx` |
| Guidelines, tokens, cards | none | | `guidelines/`, `tokens/` |

A host pushes templates and scripts into the runtime while React shows them; files,
modules, Babel and globals arrive by themselves, in any order.  The example pages
hold their own copies of components of the library.

What is hard: an answer that arrives after what it answers was replaced; a script
or a template cut off in the middle of a stream; a logic object that is swapped,
crashes, or is unmounted between two of its calls; a wait that is given up just
before what it waits for; timers and effects that outlive what they belong to;
clicks that bubble through nested handlers.

What makes it correct: what is shown is what is registered, what is pushed is not
overwritten by what comes late, every mounted logic leaves once; every listed item
is shown once and can be opened and left; the copies of the library's components
offer what the library's do.

## 2. Modules

| Module | Models | Used by |
|---|---|---|
| `RegistryEntries` | entries of `registry.json` and the pure operations on them | the next two |
| `ServiceRegistry` | abstract: what `registry.py` promises, one atomic operation at a time | refined by `DynamicRegistry` |
| `DynamicRegistry` | requests as threads, file operations on inodes, crashes | `MCDynamicRegistry`, `RegistryProofs` |
| `Maintenance` | update requests, records and lock, units and workers, the web service, systemd | `MCMaintenance`, `MaintenanceProofs` |
| `Pairing` | codes, both halves of handshakes, trust stores, removals, restarts | `MCPairing`, `PairingProofs` |
| `Federation` | the requests of aggregated pages over a trust graph | `MCFederation`, `FederationProofs` |
| `DcExternal` | the loader of external modules, Babel and globals | `DcRuntime` |
| `DcRuntime` | the page runtime, composed with the loader and with React's scheduling | `MCDcRuntime`, `DcRuntimeProofs` |
| `Elements` | a screen as a tree of elements, what a click on it runs | the next six, `ElementsProofs` |
| `Library` | the component library | the four kits |
| `RegistryKit`, `DirectoryKit`, `AmplifierKit`, `MuxplexKit` | the example pages, one each | `Kits` |
| `Kits` | a browser that shows one of the four pages | `MCKits`, `KitsProofs`, `KitsScreenProofs` |
| `Browsing` | abstract: what each page promises about its list | refined by the four kits in `Kits` |

Definitions called mutants in their comments are wrong variants of the definition
that follows them; they are not part of the model and exist to show that each
property would notice the bug they stand for.

A property that holds only of a system nobody races with is stated of the part of the
behaviours where nobody does: a constant variable of the specification says what load
the system is under (`alone` in `DynamicRegistry`, `overlap` in `Pairing`), `Init`
leaves it open, and the guards of a request's first step honour it.  So one
specification holds both the code as it is and the code used with care, and the
property says on which it rests.  The `MC` modules give each load its own bounds.

### DynamicRegistry

A request is `idle`, or at a step of `load -> prune [-> open -> write -> rename]
-> open -> write -> rename`.  `List`, `Register`, `Deregister`, `Heartbeat` are
the handlers up to the sampling of the clock; `Load` is `_load_raw`;
`PruneLoaded` is `load_registry`'s filter with its second clock sample;
`Proceed`/`Applied` the operation itself; `OpenTmp`, `Write`, `Rename` are the
three system calls of `save_registry`.  `path` and `tmp` are what the two names
refer to and `content` what the inodes hold, so a save that writes into an inode
another save has already renamed is the real one, torn text included
(`Overlaid`).  `RenameFails` is the `FileNotFoundError` of the loser.  `Crash` is
the death of the process anywhere.  `owed` is an observer: names whose persistent
registration was answered and that no request was trying to change since.

`ServiceRegistry` is the promise of the module's docstring.  `ImplementsAlone`
says that `DynamicRegistry`, one request at a time (`alone`), implements it with
`entries <- Parsed(path)`: the rename is the moment an operation takes effect, and
everything else is a stutter.  (Where requests race it does not hold, and the mapping
is constant.)

Abstractions: reading a small file, and `os.chmod` with `os.replace`, are one
step; one `write` carries the whole text (the files are far below a write
buffer); the wall clock does not go back; a service is its name, ttl and stamps.

### Maintenance

`start()` is split where the process may die between two writes: `StartEnter`
(takes the lock, samples the clock), `StartDecide`, `StoreJob`, `StorePointer`,
then the launch with its three outcomes (refused, accepted, unconfirmed after the
timeout of `systemd-run`), `Observe` (`systemctl show`), and `ReconcileLaunch`
under the lock again.  `ReadJob` is any reader of a job, which stores the
staleness verdict back.  `Spawn .. Collect` are what systemd was asked for
(`RuntimeMaxSec`, `TimeoutStopSec`, `ExecStopPost`, `--collect`), `Begin ..
Report` the steps of `run_worker` and `run_upgrade`, each with its failure.
`Die` is any end of a worker by force, `Damage` what a kill leaves of a package
or of the unit file, which is written in place.  `WebDies` and `Reboot` are the
crashes.  Job records are written under a lock with unique temporary names, so a
write of one is a step.

Assumptions: `GraceAssumption`, launch + run + stop time fits in the staleness
limit (15 min run, 20 s stop, 16 min limit in the code: `LaunchMax`, the time from
the request's clock sample to the start of the unit or to its being given up, must
then stay under 40 s; `systemd-run` is given less, but no code enforces it for a
unit that is queued and not started).  Not modelled: the branch of
`_reconcile_launch_locked` for a record that disappeared (no code deletes one),
platforms without `fcntl`, and `status`/`check`.

### Pairing

An attempt is one use of `pair`.  Its client part is `waiting -> received ->
loaded -> paired` or `failed`, its server part `sent -> checked -> accepted ->
loaded -> answered`, or `rejected`, or `dead`.  `RedeemCheck` and `RedeemMark` are
the two halves of `redeem` (CPython may switch threads between its test and its
assignment), `ServerLoad`/`ServerSave` and `ClientLoad`/`ClientSave` the two halves
of `upsert_peer` on either node, `RemoveLoad`/`RemoveSave` those of `remove_peer`.
`ClientTimesOut` may happen wherever the server is, which goes on.  `Restart`
loses codes and threads and keeps `peers.json`; a client part dies with it if it
was an API call and not a command, which is a choice.  A save that overlaps
another section of the same file shares its temporary file (the code that
`DynamicRegistry` models down to inodes): it may put in place the list of any section
that is under way (`Pending`) or a file that reads as empty (`SaveOutcomes`), and one
that fails may still have left its own list there (`SaveFails`).  What a section that
has ended left in the temporary file is taken to be gone, and a node has one removal
under way at a time: these are bounds of the model, not guards of the code.

`overlap` separates what holds always from what holds only without races: with
`"sections"` anything interleaves, which is the code, since it has no lock; with
`"attempts"` several handshakes may be under way, but the store sections of one node
do not overlap; with `"none"` one handshake ends before the next begins.  The last
two are the code when operators do one thing at a time.

Abstractions: a peer record is a name and a token (device and URL travel with
them); tokens are numbered as they are minted; node names are distinct, and no
node pairs with itself.

### Federation

A request is named by its path, the nodes from the browser's node to the one that
handles it.  `request[p]` holds its headers (`visited`, `ttl`), the peers it
asked, what each fetch came to, and its answer.  `Ask` is the browser's request;
`AnswerLocally` is the early returns of `_aggregation_result` (federation off,
already visited, no budget); `FanOut` loads the trust store and the own catalogue
and starts one fetch per peer; `Receive`, `Fail`, `TimeOut` are the ends of a
fetch (`_fetch_one`); `Answer` merges and deduplicates.  `Refuse` is a node that
is not there, dies under the handler, or does not accept the caller's token
(`require_read_access`).  A timeout leaves the request it gave up on running, and
holding its thread.  `Break` makes a node refuse (`down`) or never answer
(`silent`).  `Tick` counts the timers down and never passes one that has run out.
With `Prompt`, time passes only when no node has anything to do, that is, nodes
are infinitely fast compared with timeouts.

Lists are sets of entries, because only *which* copy survives deduplication
matters; the order in which the copies are considered is kept (`Part`, `Merged`).
The trust graph does not change during a walk; names of nodes are distinct and
hold no comma (the visited set is a comma-separated header); a walk of a root
starts when the requests of its last walk are gone.  Not modelled: a caller that
sends the hop header without a budget (an older fetcher; it gets the local list),
and the browser's own request being refused by a guarded root.

### DcExternal and DcRuntime

An action is one task of the browser's event loop: a call of the host
(`HostPushesHtml`, `HostPushesJs`, `HostPushesProps`, `HostSetsProps`), a response (`SiblingArrives`,
`ReloadArrives`, `LoadEnds`, `BabelArrives` and their failures), a timer
(`GlobalFound`, `GlobalMissed`, `StreamGoesStale`), a script of the head
(`HeadScriptRuns`), a `setState` of the page's own logic (`LogicUpdates`), or
React's render and commit of all that was scheduled (`Render`, then
`PassiveEffects` once).  `Opened` is `boot`.

A template is what its text tells the runtime: imports, modules and references,
whether it has a hole only logic fills, scripts of its helmet and the one the text
breaks off in, and which of compiling, its own builder or something below throws.
A script defines its class or not, needs globals in its constructor or not, and its
`renderVals` works or throws.  An instance is named by the path of imports that leads
to it, since React keeps one exactly while name and place stay.  `Rendered` computes
the commit: constructors and class swaps (`FreshInstance`, `Swaps`, `Reconciled`),
what each instance shows (`View`), the error each boundary catches (`Catches`), who
mounts and leaves (`Mounts`, `Leaves`), and the helmet (`HelmetScripts`).
`observed` holds what the host pushed last and whether the calls of a logic got out
of step; `knobs` the root's props as set, scheduled and shown.

A push is of a template, a script or the metadata of the props, streaming or not, and
the stream tracker (`live`) is told of it unless it is for the view it ignores
(`Push`).  So the tracker and the streaming flags of the registry go separate ways: a
stream of metadata sets no flag, an ignored push that ends a stream clears the flag
and leaves the tracker, a stale stream leaves the tracker and keeps the flag.  Nothing
in the code depends on their agreeing; what does depend on a stream being noticed, by
whichever of the two, is that no render fetches the file of a component that is being
streamed into (`Claimed`, `StreamsNotAsked`).  `shimmer` is recomputed from all flags
at every change, and no property is stated of it.

`DcExternal` keeps the loader apart because two modules listed by one import load one
after the other (`after`), share one load of Babel and end with one notification
of every component (`Notified`), which `DcRuntime` adds.

Not modelled: `jsSeq`, which drops a script that a synchronous push overtook while it
was evaluated; the design-document mode; `<style>` of the helmet; props of
components other than the root, and with them the second way, beside a bump, in which
a failed class is tried again (props whose values changed, `Swaps`); a URL that two
lists of one template order differently.  Where a component below a boundary throws,
`Attempted` takes it to be the last that is rendered there, so that what is below its
siblings has been reached: React may stop anywhere before.

### Elements, Library and the kits

A screen is a set of elements: place in the tree, kind, handler, look.  `Fired` is
what a click runs, with React's bubbling and `stopPropagation`.  Each component of the
library and of a page is an operator that returns the elements its JSX renders for
given props; `Screen` is the whole page as a function of its state.  An act of a kit
is enabled where `Screen` has an element that offers it (`Does`), and is the handler
with React's commit and the effects it causes; `Tick` and `Second` are the timers of
toasts and of the counter "updated N s ago", `Reload` opens the page again with the
stored theme.  `Unmounted` drops the state of components that are no longer shown,
`Handled` runs the effects whose dependencies changed.  `seen` and `since` are
observers of time.

Where a page holds its own copy of a library component, `AsTheLibrary` compares the
two by what can be done on them and seen (`Deeds`).  The comparison leaves out, by
name, what a page adds (the remove button of a tile) or lacks.

Observed, and left as they are: `FilterInput` of the library with a caption and no
`onClear` shows a clear button without a handler; the address and documentation links
of the library's wide `ServiceRow` bubble, so a click opens a tab and the viewer; the
same toast text set twice keeps the first timer; switching automatic refresh off
stops the counter in the registry page and does nothing in the directory page; removing
a selected service there leaves `selected` naming it (the screen shows the welcome);
the idle and active tiers of muxplex show the same sessions; its floating pill always
names `deploy`; no dialog holds the focus; a theme in `localStorage` that no page knows
counts as the one before the first.

Not modelled: the layout of `JsonTree`, hover and focus, the order of sorted lists,
`Menu` and `BottomSheet`, components without handlers.

## 3. Runs

Every run finishes; the counts are distinct states.

| Run | Instance | Shows |
|---|---|---|
| `registry` (585k) | *alone*: one request at a time, two dynamic names and a static one, ttl 1, four clock values, one crash at any step; *racing*: two requests of any kind, one dynamic and one static name, ttl 0, two clock values, no crash | `RegistrationsSurvive`, `CrashesLeaveItReadable`, `ImplementsAlone` (the refinement) alone; `NamesSound`, `TypeOK` and, under fairness, `RequestsEnd` in both |
| `registry_lost_update` | a writer and a reader | violated: a pruning GET erases an acknowledged registration |
| `maintenance_safety` (3.6M) | two requests, two jobs, one crash or reboot, deadlines 1+1+1 in a limit of 3 | `OneUpgrade`, `FinishedIsOver`, `NoChangesClaimed`, `SuccessIsInstalled`, `TerminalIsFinal`, `TypeOK` |
| `maintenance_liveness` | one request at a time, two jobs | `LatestResolves`, `WebReturns` |
| `maintenance_restarted` | as above | violated: the late `ExecStopPost` of one job restarts the old service inside the next |
| `pairing` (952k) | two codes, two handshakes, one removal, under three loads: no overlap, between two nodes, with a restart and expiry; overlapping handshakes between two nodes, sections apart; anything, between three nodes | `PairedBothWays` without overlap; `CodesWorkOnce`, `RemovalsHold` with sections apart; `OneRecordPerName`, `OwnToken`, `TypeOK` and, under fairness, `AttemptsEnd` always |
| `pairing_crossed` | two overlapping handshakes of one pair | violated: the two ends keep tokens of different handshakes |
| `federation` (111k) | one graph in two parts that do not know each other: a mesh, three nodes that all trust each other, with a change of catalogues or one node that refuses or hangs, and any delays; a branch, five nodes, budget 2 on a longer line, federation off, read protection, one-sided trust, one thread per node, two pages | `TruthfulAndFresh`, `LoopSafe`, `Complete`, `ReachableIsShown`, `TypeOK`; under fairness `WalksEnd` |
| `federation_dropped` | three nodes in a line, prompt, the far one silent | violated: the healthy node between is dropped with it |
| `dc_runtime` (216k) | two components, a page that imports two modules (one through Babel) and waits for a global, and a page the host pushes two texts into, streaming or not, told to the tracker or not; torn, broken, empty, cyclic and throwing templates, scripts without a class, with a missing global, and throwing | `ShownIsCurrent`, `PushWins`, `LifecycleBalanced`, `NoTornScript`, `StreamsNotAsked`, `TypeOK`; under fairness `ImportsSettle`, `GlobalsNoticed` |
| `dc_crash` | a host that pushes a throwing template into the root | violated: `PageStaysMounted` |
| `kits` (56k) | each of the four pages with two or three items | `ScreenSound`, `EffectsInStep`, `TypeOK`, `Browses` (the refinement of `Browsing`); under fairness `ToastsEnd` |

Bounds, and why they are enough.  Races between requests on one file need two
threads and, for a lost update, two names; a third thread adds no new kind of
overlap, since all shared state is two names and their inodes.  Two jobs and two
requests are the smallest instance in which one update can collide with another,
and the clock reaches past the staleness limit of the second; the proofs remove
these bounds.  A token can be confused with another peer's only from three nodes
on, which is why everything overlaps among three; supersession, removal and
re-pairing take two handshakes.  In the mesh every node is reached by two paths,
which is what deduplication, tags and cycles are about; the branch is the smallest
graph with a node beyond the budget, one behind it, and one not admitted.

In `dc_runtime`, `budget` bounds pushes: one replaces what a file or a module brings,
two are needed for a stream that ends or is overtaken.  `PollLimit` is two ticks, one
that misses and one that gives up; `Depth`, the length of the longest path, is one more
than there are components, since `Circular` has cut every cycle there.  In `kits`, `MaxChanged` is how many of a page's
independent settings differ from a fresh page's at a time (a dialog, a panel and a
text at once), `ToastTicks` two, so that a toast can be replaced halfway, `MaxAgo` and
`MaxSent` cap counters that nothing else depends on; every item, mode, dialog and
timer is reached.

`CHECK_DEADLOCK FALSE` is set where the system may really stop: the runs of
`Maintenance` stop requesting updates at `LastStart`, those of `Pairing` have a
finite supply of attempts, in `Federation` all nodes that read pages may hang, and a
page nobody touches and nothing is pushed into rests.

Fairness.  `DynamicRegistry`: a request that has its thread runs (weak fairness of
its steps).  `Maintenance`: time passes; workers and accepted requests run; systemd
does what it was configured to do; waiting for `flock` is strong fairness, since
the lock is released again and again and its waiters are served in turn; and some
client polls the jobs, without which a stale record stays active for ever (the
page's poller does).  `Pairing`: threads run and timeouts fire; whether a request
or an answer arrives is nobody's promise.  `Federation`: threads run, responses
that arrived are read, timeouts fire, time passes; a request waiting for a thread
gets one eventually (the pool's queue is first come, first served: strong
fairness), stated for the requests of each page.  A node that hangs does nothing and
has no fairness.  `DcRuntime`: React renders what was scheduled and runs its passive
effects, a module's or Babel's load ends one way or the other, and a poll ticks; the
host, sibling files, the page's own text and its scripts may never come.  Kits: a
toast's timer fires.

### Disagreements with the documentation

* `registry_lost_update` (registry.py:180).  Every registry operation is an
  unlocked load and save, reads included when something expired.
* `maintenance_restarted` (maintenance.py:431).  A record is final before its
  unit's `ExecStopPost` ran, so the next update can start in between and report
  the answer of a process it did not restart.
* `pairing_crossed` (app.py:2595).  Both handshakes report success and each node
  keeps the token of the one that ended last on it.
* `federation_dropped` (app.py:2145).  The module's docstring says peers are asked
  for their local view, so that nested timeouts cannot make an outer fetch time
  out; the production fetcher asks for the aggregated view, with one timeout for
  every hop.
* `dc_crash` (support.js:1103).  A component is its own error boundary, and its
  comment counts its own template among what it catches; a boundary does not catch
  what its own `render` throws, so a throwing template of the root unmounts the page.

More schedules follow from the same missing guards and have no run of their own; each
appears when a run's constants are relaxed.  Two saves that share `registry.json.tmp`
leave a torn file (`SettledFileReadable` when racing); two requests redeem one code
between its test and its mark (`RedeemedOnce` when `overlap = "sections"`); a handshake
writes a removed peer back (`RemovedStaysOut` likewise); the root's re-read of its own text replaces a push that came before it
(`PushWins` without its exemption); props set between the first commit and its
passive effects are not shown (`ShownIsCurrent` without its last condition).

## 4. Proofs

Eight proof modules prove, for every value of the constants that satisfies the
modules' assumptions, every safety property that a passing run checks, and the two
refinements (the registry's and the pages'):

| Theorems of | State |
|---|---|
| `MaintenanceProofs`: `TypeCorrect`, `OneUpgradeHolds`, `FinishedIsOverHolds`, `NoChangesClaimedHolds`, `SuccessIsInstalledHolds`, `TerminalIsFinalHolds` | the safety properties of `maintenance_safety`, for any number of jobs, requests and crashes |
| `RegistryProofs`: `TypeCorrect`, `NamesAreSound`, `CrashesKeepItReadable`, `AcknowledgedRegistrationsSurvive`, `RegistryImplements` | those of `registry`, the refinement of `ServiceRegistry` included, for any threads, names and times to live |
| `PairingProofs`: `TypeCorrect`, `OneRecordPerNameHolds`, `OwnTokenHolds`, `CodesWorkOnceHolds`, `RemovalsHoldAlways`, `PairedBothWaysHolds` | those of `pairing`, for any nodes, codes and attempts; the first three however handshakes overlap |
| `FederationProofs`: `TypeCorrect`, `LoopsAreCut`, `AnswersAreTruthfulAndFresh`, `ReachablePeersAreShown`, `PagesAreComplete` | those of `federation`, for any trust graph, hop budget, timeout and pool |
| `DcRuntimeProofs`: `TypeCorrect`, `StreamsAreNotAskedFor`, `PushesWin`, `TornScriptsStayOut`, `LifecycleIsBalanced`, `WhatIsShownIsCurrent` | those of `dc_runtime`, for any components, templates, scripts and modules |
| `KitsProofs`: `TypeCorrect`, `EffectsKeepInStep`, `PagesBrowse`; `KitsScreenProofs`, by `ElementsProofs`: `ScreensAreSound` | those of `kits`, the refinement of `Browsing` included, for any services, runs, sessions, texts and times |

Each rests on an inductive invariant (`IInv`, and what is named below), first
checked by TLC as an invariant of the component's run, with one lemma per action.

*Maintenance.*  `OneUpgrade` is not inductive: a second launch is impossible only
because the lock, the pointer and the clock agree.  `LockInv` and `OwnerInv` say
who holds the lock and who holds a job identifier; `QuietInv` that between the
decision to start and the launch nothing else can be on its way; `AliveInv` that a
living unit belongs to the latest job and that its record reads as active;
`DeadlineInv` that nothing alive is older than the deadlines allow.  The step that
matters is a reader who declares a job stale: `DeadlineInv` and `GraceAssumption`
give that no process of it can be alive, which is where the assumption is needed.
`VerdictInv` says that what was observed of a failed launch stays true until the
lock is taken; `SuccessInv` that a success in the making belongs to the package
that is present.

*Registry.*  `AllClean` says of every list, on disk, in the temporary file or in a
thread's hands, that it has no name twice and no static name: a save overwrites
the file with a list that was loaded long ago.  What holds only of requests that
come one at a time is `InOrder`: the registry file is a whole document and not the
temporary one (`WholeFile`), no heartbeat in it is later than the clock, and the list
a thread holds is what its operation makes of the file that is there now
(`Undisturbed`, `Derived`).  From that every step maps to a step of
`ServiceRegistry` or to a stutter; the step that changes the abstract registry is
the rename (`RenameImplements`), and for a prune the expiry it stands for.

*Pairing.*  `OneRecordPerName` and `OwnToken` are about the stored lists, but a
store is overwritten with lists that other threads loaded long ago: `ListInv` says
the same of every list in any thread's hands, `TokenInv` that a token belongs to
one attempt, `PhaseInv` when an attempt has one.  `CodesWorkOnce` needs `CodeInv`: a
code is known to one node, and while it is known its redemption is on record
there; and, for the thread between test and mark, `ExclusiveInv`.  `RemovalsHold`
needs `SectionInv`: where store sections do not overlap, a thread that is about to
save holds the list that is stored (`Current`), and a removal that ended is still
in force unless an attempt sent later wrote the peer back (`Settled`).
`PairedBothWays` is about handshakes that do not overlap at all (`SerialInv`): the
newest token that was answered is the one both nodes hold.

*Federation.*  The invariant is stated of one request at a time (`RequestOK`): its
headers count and name exactly the nodes of its path, which is `LoopSafe`; and its
lists are compared with the catalogues at the time its page was asked for and with
those of now, so that a catalogue that changes makes none of them wrong.  That
`Merged` keeps a key of every part is an induction over the order of the trust
store, done with its least counterexample.  `Complete` compares a page with the
recursive `Near`.  `NearIsWithin` shows, again by least counterexample, that `Near`
holds the ends of the walks within the hop budget, and `SimpleRoute` that a node is
then also at the end of one that passes no node twice, the only kind a request
takes.  `ReachInv` says of each request that its answer covers every such route
that goes on from it over nodes that are up (`Covers`), as long as its page is still
to be rendered and no fetch of its walk timed out (`Whole`): requests that outlive
their page promise nothing, and without that condition the invariant is false.

*Page runtime.*  `Typed` includes that the tree of instances is closed and that
references resolve to what the loader has.  `StreamsAreNotAskedFor` rests on
`ClaimInv`, whatever is streamed into counts as fetched, which only a push can put at
risk, and on a render asking only for what does not.  `PushInv`, `TornInv` and `LifeInv` add
to three properties what the tasks in between have seen; `TornScriptsStayOut`
is stated for files that are whole documents (`FilesAreWhole`), as those of the run
are: the property is about scripts torn by a stream that has not ended.
`ShownIsCurrent` is the hardest: a screen is up to date *when nothing is left to
do*, so the invariant speaks of every other state as well.  `Settles` says that an
instance that is not going to be redone shows what a render would show now (`Look`),
up to references that an outstanding poll will find (`Excused`); `Memo` that a class
that failed is not tried again before something it needs has changed.  Each task
then leaves what is shown as it was, redoes it, or moves only what is excused.

*Example pages.*  A page acts on what its screen offers, so that an opened item is
listed is a statement about the screen: `RegistryOffers` and `DirectoryOffers` walk
its tree of elements and say which deed can stand on an element, of which item and in
which mode.  With them each act is a step of the list (`Moved`): an item is opened or
closed, or one that may be removed goes and is not left open.  In the directory page
that holds of what is *shown* as open, since `selected` may keep the name of what was
removed.  A toast that is shown
has as much time left as it was not shown yet (`ToastKept`), and none has none; the
counter is right while it is mounted.  `KitsAssumption` asks that fields can be empty,
that a toast takes time, that a zoom of 100 exists and that a session has the name the
floating pill has in the code.

*Screens.*  `ScreenSound` compares every element of a screen with every other: an
item is offered by one element and not two, a click reaches the handlers of what is
around the element, up to one that stops it.  It is no invariant of the clicks but a
fact about each page as it is rendered, from a state of its type.  A proof that took a
screen apart into pairs of elements would need a case for each pair of components, so
`ElementsProofs` is a theory of *parts* of screens that can be put together, for any
elements at all:

- places are sequences of anything, and `Inside` says that one is around another; a
  part is `Sound` when of any two handlers around each other the inner one, or
  something between them, stops the click, which is what `CalmFiresOne` turns into
  "at most one handler";
- a part is `Plain` when it is sound and shows no item, and a `Catalogue` of some
  names when it is sound and shows an item of each of them, by exactly one element;
- parts below heads that differ (`CatalogueHeads`, `CataloguePlain`), or below the
  places of a family (`Gathered`, `RowsByName`, `Sections`), are a catalogue of all
  their names, if no name is in two of them, so a list needs no more than that each
  row is the catalogue of its own name;
- what a component offers (`Deeds`) does not depend on where its fields are, as long as
  nothing in it is around anything else that can be clicked (`Flat`, `Looks`,
  `DialogsAgree`, `SameDeedsBut`): the pages' dialogs have their fields at other places
  than the library's do, and are the only copies that are not equal to the originals.

`KitsScreenProofs` follows the tree of each page's components with these, one lemma per
component, to a lemma `...Screen` (`...ScreenParts` of the first two) that says of
which names the screen is the catalogue, from which the parts of `ScreenSound` follow.
It rests on `DataAssumption`, what the pages' `data.js` have in common: names are
unique, a service is of a node that is listed and has an address, a session is of a
device that is listed, and counts are not negative.  A service of a node that is *not*
listed would match the filter and be nowhere on the two pages of services, which group
their rows by node.

Only model-checked: liveness everywhere (`RequestsEnd`, `AttemptsEnd`, `WalksEnd`,
`ToastsEnd` and those of `maintenance_liveness`), which is out of reach of the prover,
as is `ENABLED`.

## 5. Not modelled

Identity, write tokens (`write_token.py`), health checks, the update check, the
scripts of the service's own page, live metadata of peers, the embed probe and view
proxy, launchd, `install`/`uninstall`/`status` of the service manager, configuration,
URLs, the CLI's read-only commands, doctor; of the design system the guidelines,
tokens, styles and cards, and the second compiled copy of the pages in the bundle
(from line 2703).  PROJECT.json gives the reason for each.

## 6. Plan

1. *(done)* Registry with its abstract specification; Maintenance; Pairing;
   Federation; the page runtime and its loader; the component library; the four
   example pages with what they promise.
2. *(done)* Proofs of every safety property of Maintenance, Registry, Pairing,
   Federation, the page runtime and the example pages, of the registry's refinement
   and of that each page refines `Browsing`.
3. `TokenFile` (write token and identity), a maintenance poller as a reader of
   `Maintenance`, `Federation` over a trust store that changes during a walk.
