-------------------------------- MODULE Kits --------------------------------
(***************************************************************************)
(* The four pages of ui_kits: a browser shows one of them at a time, and   *)
(* what each promises of its items, its timers and its list.               *)
(***************************************************************************)
EXTENDS Elements

CONSTANTS Service, Node, \* of the two pages that list services
          Run, Kept,     \* of the application shell
          Session, Device, Zoom,   \* of the session dashboard
          Text, Blank, Matches, MatchesOk, ToastTicks, MaxAgo, MaxSent,   \* as in the pages
          MaxChanged     \* bound on the settings that differ from those of a fresh page

VARIABLES kit,           \* the page that is open
          ui, seen, since, stored, applied   \* as in the modules of the pages

vars == <<kit, ui, seen, since, stored, applied>>

R == INSTANCE RegistryKit
D == INSTANCE DirectoryKit
A == INSTANCE AmplifierKit
M == INSTANCE MuxplexKit

(* A page starts with empty fields, and a toast is shown for some time; a  *)
(* zoom of 100 is a step of the slider, and the pill's session is listed.  *)
ASSUME KitsAssumption ==
  /\ "" \in Text
  /\ 100 \in Zoom
  /\ \E s \in Session : s.name = "deploy"
  /\ ToastTicks \in Nat \ {0} /\ MaxAgo \in Nat /\ MaxSent \in Nat

(* The data of the pages (data.js): what a name names, and where it is.    *)
ASSUME DataAssumption ==
  /\ IsFiniteSet(Service)
  /\ \A s \in Service :
       /\ s.origin \in Node /\ s.dynamic \in BOOLEAN /\ s.attention \in Nat
       /\ s.docs \in BOOLEAN /\ s.links # {} /\ s.health \in {"up", "down", "unknown"}
  /\ \A s, t \in Service : s.name = t.name => s = t
  /\ IsFiniteSet(Run)
  /\ \A r \in Run : r.attention \in Nat
  /\ \A r, s \in Run : r.name = s.name => r = s
  /\ \A s \in Session : s.device \in Device /\ s.bell \in Nat
  /\ \A s, t \in Session : s.name = t.name => s = t

(* The settings a page may have changed at the same time.                  *)
Fresh == [filter |-> "", token |-> "", draft |-> "", settings |-> FALSE, agent |-> FALSE,
          sort |-> 0, rail |-> TRUE, view |-> "Grid", tier |-> "all", zoom |-> 100,
          bellMode |-> "glow", tab |-> "output", auto |-> TRUE, collapsed |-> FALSE,
          register |-> FALSE, code |-> FALSE, theme |-> "Dark"]
Changed == {f \in DOMAIN ui \intersect DOMAIN Fresh : ui[f] # Fresh[f]}
Few == Cardinality(Changed') <= MaxChanged
-----------------------------------------------------------------------------
Init ==
  \/ kit = "registry" /\ R!Init /\ stored = "" /\ applied = ""
  \/ kit = "directory" /\ D!Init /\ seen = 0 /\ stored = "" /\ applied = ""
  \/ kit = "amplifier" /\ A!Init /\ since = 0
  \/ kit = "muxplex" /\ M!Init /\ since = 0 /\ stored = "" /\ applied = ""

Next ==
  /\ UNCHANGED kit
  /\ \/ kit = "registry" /\ R!Next /\ UNCHANGED <<stored, applied>>
     \/ kit = "directory" /\ D!Next /\ UNCHANGED <<seen, stored, applied>>
     \/ kit = "amplifier" /\ A!Next /\ UNCHANGED since
     \/ kit = "muxplex" /\ M!Next /\ UNCHANGED <<since, stored, applied>>
  /\ Few

(* Timers fire.                                                            *)
Fires ==
  \/ kit = "registry" /\ R!Tick /\ UNCHANGED <<kit, stored, applied>>
  \/ kit = "amplifier" /\ A!Tick /\ UNCHANGED <<kit, since>>
  \/ kit = "muxplex" /\ M!Tick /\ UNCHANGED <<kit, since, stored, applied>>

Spec == Init /\ [][Next]_vars
FairSpec == Spec /\ WF_vars(Fires)
-----------------------------------------------------------------------------
(* The fields of the page that is open stay in their ranges.               *)
TypeOK ==
  CASE kit = "registry" -> R!TypeOK
    [] kit = "directory" -> D!TypeOK
    [] kit = "amplifier" -> A!TypeOK
    [] kit = "muxplex" -> M!TypeOK

(* Every page shows each item that matches its filter once and offers what *)
(* the library's components would, and no click runs two handlers.         *)
ScreenSound ==
  CASE kit = "registry" -> R!ScreenSound
    [] kit = "directory" -> D!ScreenSound
    [] kit = "amplifier" -> A!ScreenSound
    [] kit = "muxplex" -> M!ScreenSound

(* Timers and effects keep up with the state, however the clicks that      *)
(* start, replace and unmount them follow each other: a toast has its      *)
(* whole time, the age of a reading is right, a chosen theme is applied.   *)
EffectsInStep ==
  CASE kit = "registry" -> R!EffectsInStep
    [] kit = "directory" -> D!EffectsInStep
    [] kit = "amplifier" -> A!EffectsInStep
    [] kit = "muxplex" -> M!EffectsInStep

(* No page is left naming an item as open that is gone from its list; only *)
(* services registered at run time and those that need somebody leave it,  *)
(* and nothing comes back.                                                 *)
Listed ==
  CASE kit \in {"registry", "directory"} -> {s.name : s \in ui.listed}
    [] kit = "amplifier" -> A!Names
    [] kit = "muxplex" -> M!Names
OpenNow ==
  CASE kit # "directory" -> ui.open
    [] kit = "directory" /\ D!Shown(ui) = {} -> None
    [] kit = "directory" /\ D!Shown(ui) # {} -> ui.selected
Removable == {s.name : s \in {t \in Service : t.dynamic \/ t.attention > 0}}
Page == INSTANCE Browsing WITH listed <- Listed, open <- OpenNow, Nothing <- None
Browses == Page!Spec

(* A toast goes, or gives way to another one, whatever is clicked.         *)
Toasts == IF "toast" \in DOMAIN ui THEN ui.toast ELSE <<>>
Said == {<<"Removed peer">>, <<"Sent">>}
        \union {<<"Deregistered", s.name>> : s \in Service}
        \union {<<"Promoted", r.name>> : r \in Run}
        \union {<<"Attached to", n>> : n \in M!Names}
ToastsEnd == \A t \in Said : Toasts = t ~> Toasts # t
=============================================================================
