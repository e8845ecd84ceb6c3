--------------------------- MODULE DynamicRegistry ---------------------------
(***************************************************************************)
(* registry.py as the web service runs it.  The endpoints of app.py are    *)
(* plain functions, so Starlette runs each request in a thread of its pool *)
(* and every interleaving of their file operations is possible: registry.py*)
(* takes no lock.  A request samples the clock, loads registry.json,       *)
(* samples the clock again, saves a pruned list if something had expired,  *)
(* and then saves the list its own operation produces.                     *)
(*                                                                         *)
(* A save opens the ONE temporary name registry.json.tmp (truncating it),  *)
(* writes the list when the file is closed, and renames the temporary name *)
(* over registry.json.  Names and contents are kept apart, as the file     *)
(* system does: two writers that open the temporary name before either     *)
(* renames it hold the same inode.                                         *)
(*                                                                         *)
(* `alone' is the load the service is under, fixed for the whole           *)
(* behaviour: FALSE when requests come as they please, TRUE when each one  *)
(* comes after the answer to the one before it.                            *)
(***************************************************************************)
EXTENDS RegistryEntries, FiniteSets

CONSTANTS Threads,       \* concurrent requests
          Writers,       \* the threads whose requests may be mutations
          Static,        \* names of services declared in services.yaml
          MaxCrashes     \* bound on the process deaths of a run

ASSUME RegistryAssumption == /\ IsFiniteSet(Threads)
                             /\ Writers \subseteq Threads
                             /\ Names # {}
                             /\ Static \subseteq Names
                             /\ MaxCrashes \in Nat

VARIABLES clock,         \* the wall clock of the node
          path,          \* inode that registry.json names, or NoFile
          tmp,           \* inode that registry.json.tmp names, or NoFile
          content,       \* what each inode holds
          pc,            \* where each request is
          call,          \* the request's arguments and time stamp
          list,          \* the entries the request works on
          phase,         \* which of its two saves a request is in
          fd,            \* inode a saving request holds open
          crashes,
          owed,          \* observer: acknowledged persistent registrations
          alone          \* do requests come one at a time?

disk == <<path, tmp, content>>
local == <<pc, call, list, phase, fd>>
vars == <<clock, disk, local, crashes, owed, alone>>
-----------------------------------------------------------------------------
Inodes == 1 .. Cardinality(Threads) + 2
NoFile == 0

(* A file just truncated, one that holds exactly one JSON list, and one    *)
(* whose text is not JSON any more.                                        *)
Content == [state : {"empty", "json", "torn"}, entries : SUBSET Entry]
EmptyFile == [state |-> "empty", entries |-> {}]
TornFile == [state |-> "torn", entries |-> {}]
JsonFile(entries) == [state |-> "json", entries |-> entries]

(* _load_raw: a missing, empty or undecodable file is an empty registry.   *)
Parsed(inode) == IF inode = NoFile THEN {} ELSE content[inode].entries

(* Writing from offset 0 into an inode another writer has filled since it  *)
(* was truncated: a text at least as long replaces it, a shorter one       *)
(* leaves the old tail behind, and json.load fails on the extra data.      *)
Overlaid(old, entries) ==
  IF old.state = "empty" THEN {JsonFile(entries)} ELSE {JsonFile(entries), TornFile}

NoCall == [op |-> "none", name |-> CHOOSE n \in Names : TRUE, ttl |-> NoTtl, at |-> 0]
Call == [op : {"none", "list", "register", "deregister", "heartbeat"},
         name : Names, ttl : Ttls \union {NoTtl}, at : Times]

(* Mutant: a registration is appended without filtering its name out.      *)
AppliedAppends(c, live) ==
  CASE c.op = "register"   -> live \union {Stamped(c.name, c.ttl, c.at)}
    [] c.op = "deregister" -> Without(live, c.name)
    [] c.op = "heartbeat"  -> Beaten(live, c.name, c.at)
    [] OTHER               -> live

(* What the operation makes of the live entries it loaded.                 *)
Applied(c, live) ==
  CASE c.op = "register"   -> Upserted(live, Stamped(c.name, c.ttl, c.at))
    [] c.op = "deregister" -> Without(live, c.name)
    [] c.op = "heartbeat"  -> Beaten(live, c.name, c.at)
    [] OTHER               -> live

(* deregister and heartbeat save only what they changed; a list saves      *)
(* nothing beyond the pruning.                                             *)
Stores(c, live) ==
  \/ c.op = "register"
  \/ c.op \in {"deregister", "heartbeat"} /\ c.name \in NamesOf(live)

(* Inodes nobody can reach any more are free, and read as empty.           *)
Swept(cont, p, m, f) ==
  [i \in Inodes |->
     IF i \in {p, m} \union {f[t] : t \in Threads} THEN cont[i] ELSE EmptyFile]

Free == Inodes \ ({path, tmp} \union {fd[t] : t \in Threads})
-----------------------------------------------------------------------------
Init == /\ clock = 0
        /\ path = NoFile
        /\ tmp = NoFile
        /\ content = [i \in Inodes |-> EmptyFile]
        /\ pc = [t \in Threads |-> "idle"]
        /\ call = [t \in Threads |-> NoCall]
        /\ list = [t \in Threads |-> {}]
        /\ phase = [t \in Threads |-> "prune"]
        /\ fd = [t \in Threads |-> NoFile]
        /\ crashes = 0
        /\ owed = {}
        /\ alone \in BOOLEAN

Tick == /\ clock < MaxTime
        /\ clock' = clock + 1
        /\ UNCHANGED <<disk, local, crashes, owed>>

(* A request enters registry.py; a static name was refused before.         *)
Begin(t, c) ==
  /\ pc[t] = "idle"
  /\ alone => \A u \in Threads : pc[u] = "idle"
  /\ pc' = [pc EXCEPT ![t] = "load"]
  /\ call' = [call EXCEPT ![t] = c]
  /\ UNCHANGED <<clock, disk, list, phase, fd, crashes>>

List(t) ==
  /\ Begin(t, [NoCall EXCEPT !.op = "list"])
  /\ UNCHANGED owed

(* register_service and heartbeat_service sample the clock before loading. *)
Register(t) ==
  /\ t \in Writers
  /\ \E name \in Names \ Static, ttl \in Ttls \union {NoTtl} :
       /\ Begin(t, [op |-> "register", name |-> name, ttl |-> ttl, at |-> clock])
       /\ owed' = owed \ {name}

Deregister(t) ==
  /\ t \in Writers
  /\ \E name \in Names \ Static :
       /\ Begin(t, [NoCall EXCEPT !.op = "deregister", !.name = name])
       /\ owed' = owed \ {name}

Heartbeat(t) ==
  /\ t \in Writers
  /\ \E name \in Names \ Static :
       /\ Begin(t, [NoCall EXCEPT !.op = "heartbeat", !.name = name, !.at = clock])
       /\ UNCHANGED owed

(* _load_raw: the list is the request's own from here on.                  *)
Load(t) ==
  /\ pc[t] = "load"
  /\ list' = [list EXCEPT ![t] = Parsed(path)]
  /\ pc' = [pc EXCEPT ![t] = "prune"]
  /\ UNCHANGED <<clock, disk, call, phase, fd, crashes, owed>>

(* The request answers: its thread goes back to the pool.                  *)
Done(t) ==
  /\ pc' = [pc EXCEPT ![t] = "idle"]
  /\ call' = [call EXCEPT ![t] = NoCall]
  /\ list' = [list EXCEPT ![t] = {}]
  /\ phase' = [phase EXCEPT ![t] = "prune"]

(* load_registry has returned `live': the operation proper.                *)
Proceed(t, live) ==
  IF Stores(call[t], live)
    THEN /\ list' = [list EXCEPT ![t] = Applied(call[t], live)]
         /\ phase' = [phase EXCEPT ![t] = "store"]
         /\ pc' = [pc EXCEPT ![t] = "open"]
         /\ UNCHANGED call
    ELSE Done(t)

(* load_registry: a second sample of the clock, taken after the read.      *)
PruneLoaded(t) ==
  /\ pc[t] = "prune"
  /\ LET live == Live(list[t], clock) IN
       IF live # list[t]
         THEN /\ list' = [list EXCEPT ![t] = live]
              /\ pc' = [pc EXCEPT ![t] = "open"]
              /\ UNCHANGED <<call, phase>>
         ELSE Proceed(t, live)
  /\ UNCHANGED <<clock, disk, fd, crashes, owed>>

(* Mutant: the registry is rewritten in place.                             *)
OpenInPlace(t) ==
  /\ pc[t] = "open"
  /\ \E i \in Inodes :
       /\ IF path = NoFile THEN i \in Free /\ \A j \in Free : i <= j ELSE i = path
       /\ path' = i
       /\ fd' = [fd EXCEPT ![t] = i]
       /\ content' = [content EXCEPT ![i] = EmptyFile]
  /\ pc' = [pc EXCEPT ![t] = "write"]
  /\ UNCHANGED <<clock, tmp, call, list, phase, crashes, owed>>

(* save_registry, open(tmp_path, "w"): creates the name or truncates the   *)
(* inode it already names.                                                 *)
OpenTmp(t) ==
  /\ pc[t] = "open"
  /\ \E i \in Inodes :
       /\ IF tmp = NoFile THEN i \in Free /\ \A j \in Free : i <= j ELSE i = tmp
       /\ tmp' = i
       /\ fd' = [fd EXCEPT ![t] = i]
       /\ content' = [content EXCEPT ![i] = EmptyFile]
  /\ pc' = [pc EXCEPT ![t] = "write"]
  /\ UNCHANGED <<clock, path, call, list, phase, crashes, owed>>

(* json.dump and the close that flushes it.                                *)
Write(t) ==
  /\ pc[t] = "write"
  /\ fd' = [fd EXCEPT ![t] = NoFile]
  /\ \E text \in Overlaid(content[fd[t]], list[t]) :
       content' = Swept([content EXCEPT ![fd[t]] = text], path, tmp, fd')
  /\ pc' = [pc EXCEPT ![t] = "rename"]
  /\ UNCHANGED <<clock, path, tmp, call, list, phase, crashes, owed>>

(* Is another request about to decide about this name?                     *)
Contested(t) ==
  \E u \in Threads \ {t} : /\ call[u].op \in {"register", "deregister"}
                           /\ call[u].name = call[t].name

(* os.chmod and os.replace: whatever inode the temporary name has now is   *)
(* the registry from here on.                                              *)
Rename(t) ==
  /\ pc[t] = "rename"
  /\ tmp # NoFile
  /\ path' = tmp
  /\ tmp' = NoFile
  /\ content' = Swept(content, tmp, NoFile, fd)
  /\ IF phase[t] = "prune" THEN Proceed(t, list[t]) ELSE Done(t)
  /\ owed' = IF /\ phase[t] = "store"
                /\ call[t].op = "register"
                /\ call[t].ttl = NoTtl
                /\ ~Contested(t)
               THEN owed \union {call[t].name} ELSE owed
  /\ UNCHANGED <<clock, fd, crashes>>

(* Mutant: the request waits for the temporary file to come back.          *)
RenameWaits(t) ==
  /\ pc[t] = "rename"
  /\ tmp = NoFile
  /\ UNCHANGED vars

(* Another writer has renamed the temporary name away: FileNotFoundError,  *)
(* and the request fails with a 500.                                       *)
RenameFails(t) ==
  /\ pc[t] = "rename"
  /\ tmp = NoFile
  /\ Done(t)
  /\ UNCHANGED <<clock, disk, fd, crashes, owed>>

(* The process dies and is restarted; the names and the inodes they name   *)
(* survive, the requests do not.                                           *)
Crash ==
  /\ crashes < MaxCrashes
  /\ crashes' = crashes + 1
  /\ pc' = [t \in Threads |-> "idle"]
  /\ call' = [t \in Threads |-> NoCall]
  /\ list' = [t \in Threads |-> {}]
  /\ phase' = [t \in Threads |-> "prune"]
  /\ fd' = [t \in Threads |-> NoFile]
  /\ content' = Swept(content, path, tmp, fd')
  /\ UNCHANGED <<clock, path, tmp, owed>>

Request(t) == List(t) \/ Register(t) \/ Deregister(t) \/ Heartbeat(t)

Step(t) == \/ Load(t) \/ PruneLoaded(t) \/ OpenTmp(t) \/ Write(t)
           \/ Rename(t) \/ RenameFails(t)

Next == /\ \/ Tick
           \/ Crash
           \/ \E t \in Threads : Request(t) \/ Step(t)
        /\ UNCHANGED alone

Spec == Init /\ [][Next]_vars

(* Every request the pool has accepted runs to its answer.                 *)
FairSpec == Spec /\ \A t \in Threads : WF_vars(Step(t) /\ UNCHANGED alone)
-----------------------------------------------------------------------------
(* Every variable holds a value of its kind.                               *)
TypeOK ==
  /\ clock \in Times
  /\ path \in Inodes \union {NoFile}
  /\ tmp \in Inodes \union {NoFile}
  /\ content \in [Inodes -> Content]
  /\ pc \in [Threads -> {"idle", "load", "prune", "open", "write", "rename"}]
  /\ call \in [Threads -> Call]
  /\ list \in [Threads -> SUBSET Entry]
  /\ phase \in [Threads -> {"prune", "store"}]
  /\ fd \in [Threads -> Inodes \union {NoFile}]
  /\ crashes \in 0 .. MaxCrashes
  /\ owed \subseteq Names
  /\ alone \in BOOLEAN

(* No file, and no list in a request's hands, ever holds two entries of    *)
(* one name, however requests interleave: register_service filters the     *)
(* name it upserts out of the list it saves (registry.py, 180-183).        *)
NamesStayUnique ==
  /\ \A i \in Inodes : UniqueNames(content[i].entries)
  /\ \A t \in Threads : UniqueNames(list[t])

(* A static name never gets into the dynamic registry (app.py, 2240-2245). *)
NoShadowing ==
  \A i \in Inodes : NamesOf(content[i].entries) \intersect Static = {}

(* However requests race, no list holds a name twice or shadows a static   *)
(* service (registry.py: register_service; app.py: api_register_service).  *)
NamesSound == NamesStayUnique /\ NoShadowing

(* An acknowledged persistent registration "survives forever until an      *)
(* explicit DELETE" (registry.py, 12-13): once the POST of a persistent    *)
(* service has been answered, and no request to change that name began     *)
(* since, the file holds it.                                               *)
AcknowledgedSurvives == owed \subseteq NamesOf(Parsed(path))

(* Without races an acknowledged persistent registration survives until it *)
(* is removed, through expiry, prunes and a crash at any step              *)
(* (registry.py, 12-13).                                                   *)
RegistrationsSurvive == alone => AcknowledgedSurvives

(* "atomic write" (registry.py, 5): when no save is in progress            *)
(* registry.json is absent or one complete JSON list.                      *)
SettledFileReadable ==
  (\A t \in Threads : pc[t] \notin {"write", "rename"}) =>
     (path = NoFile \/ content[path].state = "json")

(* Without races a crash never leaves a registry.json that is not whole    *)
(* (registry.py: save_registry).                                           *)
CrashesLeaveItReadable == alone => SettledFileReadable

(* Without races the file is the atomic registry of ServiceRegistry; a     *)
(* race hides it.                                                          *)
Kept == INSTANCE ServiceRegistry WITH entries <- IF alone THEN Parsed(path) ELSE {}
ImplementsAlone == Kept!Spec

(* A request in progress is answered: saves race, fail or win, but no      *)
(* request waits for another.                                              *)
RequestsEnd == \A t \in Threads : pc[t] # "idle" ~> pc[t] = "idle"
=============================================================================
