---------------------------- MODULE RegistryProofs ----------------------------
(***************************************************************************)
(* Proofs about DynamicRegistry, for every set of threads, names and times *)
(* to live.                                                                *)
(***************************************************************************)
EXTENDS DynamicRegistry, FiniteSetTheorems, TLAPS

Stages == {"idle", "load", "prune", "open", "write", "rename"}

(* A list without two entries of a name, and without static names.         *)
Clean(entries) == /\ UniqueNames(entries)
                  /\ NamesOf(entries) \intersect Static = {}

(* Every list, on disk or in a request's hands, is clean; and so is what a *)
(* registration is about to add.                                           *)
AllClean ==
  /\ \A i \in Inodes : Clean(content[i].entries)
  /\ \A t \in Threads : Clean(list[t])
  /\ \A t \in Threads : call[t].op = "register" => call[t].name \notin Static

(* The list a saving request holds is what its prune, or its operation,    *)
(* makes of the list in the file.                                          *)
Derived(t) ==
  /\ phase[t] = "prune" =>
       \E at \in 0 .. clock : /\ list[t] = Live(Parsed(path), at)
                              /\ \E e \in Parsed(path) : IsExpired(e, at)
  /\ phase[t] = "store" => /\ list[t] = Applied(call[t], Parsed(path))
                           /\ Stores(call[t], Parsed(path))

(* What the code may rely on at each of its steps when requests come one   *)
(* at a time.                                                              *)
Undisturbed(t) ==
  /\ fd[t] = IF pc[t] = "write" THEN tmp ELSE NoFile
  /\ pc[t] = "idle" => phase[t] = "prune" /\ list[t] = {}
  /\ pc[t] = "load" => phase[t] = "prune"
  /\ pc[t] = "prune" => phase[t] = "prune" /\ list[t] = Parsed(path)
  /\ pc[t] \in {"open", "write", "rename"} => Derived(t)
  /\ pc[t] = "write" => tmp # NoFile /\ content[tmp] = EmptyFile
  /\ pc[t] = "rename" => tmp # NoFile /\ content[tmp] = JsonFile(list[t])
  /\ pc[t] # "idle" =>
       /\ call[t].at <= clock
       /\ call[t].op = "heartbeat" => \A e \in Parsed(path) : e.beat <= call[t].at
       /\ call[t].op \in {"register", "deregister"} => call[t].name \notin owed

WholeFile == path # NoFile => path # tmp /\ content[path].state = "json"

PastBeats == \A e \in Parsed(path) : e.beat <= clock

OwedPersists == \A n \in owed : \E e \in Parsed(path) : e.name = n /\ e.ttl = NoTtl

OneAtATime == \A t, u \in Threads : pc[t] # "idle" /\ pc[u] # "idle" => t = u

InOrder == /\ OneAtATime
           /\ WholeFile
           /\ PastBeats
           /\ OwedPersists
           /\ \A t \in Threads : Undisturbed(t)

IInv == TypeOK /\ AllClean /\ (alone => InOrder)
-----------------------------------------------------------------------------
(* The operators on lists of entries.                                      *)

LEMMA Constants ==
  /\ MaxTime \in Nat /\ MaxCrashes \in Nat
  /\ Cardinality(Threads) \in Nat
  /\ Inodes \subseteq Nat /\ NoFile \notin Inodes
  /\ NoTtl \notin Int /\ Ttls \subseteq Int
  /\ NoCall \in Call /\ NoCall.op = "none" /\ NoCall.at = 0
<1>1. Cardinality(Threads) \in Nat
  BY FS_CardinalityType, RegistryAssumption
<1>2. (CHOOSE n \in Names : TRUE) \in Names
  BY RegistryAssumption
<1>3. NoCall \in Call
  BY <1>2, EntryAssumption DEF NoCall, Call, Times
<1> QED BY <1>1, <1>3, RegistryAssumption, EntryAssumption DEF Inodes, NoFile, NoCall

LEMMA EntryTypes ==
  ASSUME NEW l \in SUBSET Entry, NEW now
  PROVE  /\ Live(l, now) \in SUBSET Entry
         /\ \A n \in Names : Without(l, n) \in SUBSET Entry
         /\ \A n \in Names, at \in Times : Beaten(l, n, at) \in SUBSET Entry
         /\ \A n \in Names, ttl \in Ttls \union {NoTtl}, at \in Times :
              Upserted(l, Stamped(n, ttl, at)) \in SUBSET Entry
BY DEF Live, Without, Beaten, Upserted, Stamped, Named, Entry

LEMMA AppliedType ==
  ASSUME NEW c \in Call, NEW l \in SUBSET Entry
  PROVE  Applied(c, l) \in SUBSET Entry
<1>1. c.name \in Names /\ c.ttl \in Ttls \union {NoTtl} /\ c.at \in Times
  BY DEF Call
<1>2. /\ Upserted(l, Stamped(c.name, c.ttl, c.at)) \in SUBSET Entry
      /\ Without(l, c.name) \in SUBSET Entry
      /\ Beaten(l, c.name, c.at) \in SUBSET Entry
  BY ONLY <1>1, l \in SUBSET Entry, EntryTypes
<1> QED BY <1>2 DEF Applied

LEMMA ContentTypes ==
  /\ EmptyFile \in Content
  /\ \A l \in SUBSET Entry : Overlaid(EmptyFile, l) \subseteq Content
  /\ \A c \in Content, l \in SUBSET Entry : Overlaid(c, l) \subseteq Content
BY DEF EmptyFile, Content, Overlaid, JsonFile, TornFile

LEMMA SweptType ==
  ASSUME NEW c \in [Inodes -> Content], NEW p, NEW m, NEW f
  PROVE  Swept(c, p, m, f) \in [Inodes -> Content]
BY ContentTypes DEF Swept

LEMMA ParsedType == ASSUME TypeOK PROVE Parsed(path) \in SUBSET Entry
BY DEF TypeOK, Parsed, Content

LEMMA CleanEmpty == Clean({})
BY DEF Clean, UniqueNames, NamesOf

LEMMA CleanPart ==
  ASSUME NEW l, NEW k \in SUBSET l, Clean(l)
  PROVE  Clean(k)
BY DEF Clean, UniqueNames, NamesOf

LEMMA CleanUpserted ==
  ASSUME NEW l, NEW n, NEW ttl, NEW at, Clean(l), n \notin Static
  PROVE  Clean(Upserted(l, Stamped(n, ttl, at)))
BY DEF Clean, UniqueNames, NamesOf, Upserted, Without, Named, Stamped

(* A heartbeat changes no name, and two entries of its name were one.      *)
LEMMA CleanBeaten ==
  ASSUME NEW l \in SUBSET Entry, NEW n, NEW at, Clean(l)
  PROVE  Clean(Beaten(l, n, at))
<1> DEFINE b(e) == [e EXCEPT !.beat = at]
<1>1. \A e \in l : b(e).name = e.name
  BY DEF Entry
<1>2. \A x \in Beaten(l, n, at) :
        \/ x \in l /\ x.name # n
        \/ \E e \in l : e.name = n /\ x = b(e)
  BY DEF Beaten, Without, Named
<1> HIDE DEF b
<1>3. UniqueNames(Beaten(l, n, at))
  BY <1>1, <1>2 DEF Clean, UniqueNames
<1>4. \A x \in Beaten(l, n, at) : \E e \in l : x.name = e.name
  BY <1>1, <1>2
<1> QED BY <1>3, <1>4 DEF Clean, NamesOf

LEMMA CleanApplied ==
  ASSUME NEW c \in Call, NEW l \in SUBSET Entry, Clean(l),
         c.op = "register" => c.name \notin Static
  PROVE  Clean(Applied(c, l))
BY CleanUpserted, CleanBeaten, CleanPart DEF Applied, Call, Without
-----------------------------------------------------------------------------
(* Types.                                                                  *)

LEMMA TypeInit == Init => TypeOK
BY Constants, ContentTypes DEF Init, TypeOK, Times, NoFile

LEMMA DoneType ==
  ASSUME TypeOK, NEW t \in Threads, Done(t)
  PROVE  /\ pc' \in [Threads -> Stages]
         /\ call' \in [Threads -> Call]
         /\ list' \in [Threads -> SUBSET Entry]
         /\ phase' \in [Threads -> {"prune", "store"}]
BY Constants DEF TypeOK, Done, Stages

LEMMA ProceedType ==
  ASSUME TypeOK, NEW t \in Threads, NEW l \in SUBSET Entry, Proceed(t, l)
  PROVE  /\ pc' \in [Threads -> Stages]
         /\ call' \in [Threads -> Call]
         /\ list' \in [Threads -> SUBSET Entry]
         /\ phase' \in [Threads -> {"prune", "store"}]
<1>1. CASE Stores(call[t], l)
  <2>1. Applied(call[t], l) \in SUBSET Entry
    BY AppliedType DEF TypeOK
  <2> QED BY <1>1, <2>1 DEF Proceed, TypeOK, Stages
<1>2. CASE ~Stores(call[t], l)
  BY <1>2, DoneType DEF Proceed
<1> QED BY <1>1, <1>2

(* What every request is when it enters registry.py.                       *)
Entering(t, c) ==
  /\ Begin(t, c)
  /\ c.at <= clock
  /\ c.op = "register" => c.name \notin Static
  /\ c.op = "heartbeat" => c.at = clock
  /\ owed' = IF c.op \in {"register", "deregister"} THEN owed \ {c.name} ELSE owed

LEMMA RequestEnters ==
  ASSUME TypeOK, NEW t \in Threads, Request(t)
  PROVE  \E c \in Call : Entering(t, c)
<1>0. clock \in Times /\ clock \in Nat /\ NoCall \in Call /\ NoCall.at = 0
  BY Constants DEF TypeOK, Times
<1>1. CASE List(t)
  <2> DEFINE c == [NoCall EXCEPT !.op = "list"]
  <2>1. c \in Call /\ c.op = "list" /\ c.at = 0
    BY <1>0 DEF Call
  <2>2. Begin(t, c) /\ owed' = owed
    BY <1>1 DEF List
  <2> HIDE DEF c
  <2>3. Entering(t, c)
    BY <2>1, <2>2, <1>0 DEF Entering
  <2> QED BY <2>1, <2>3
<1>2. CASE Register(t)
  <2>1. PICK name \in Names \ Static, ttl \in Ttls \union {NoTtl} :
          /\ Begin(t, [op |-> "register", name |-> name, ttl |-> ttl, at |-> clock])
          /\ owed' = owed \ {name}
    BY <1>2 DEF Register
  <2> DEFINE c == [op |-> "register", name |-> name, ttl |-> ttl, at |-> clock]
  <2>2. c \in Call /\ c.op = "register" /\ c.at = clock /\ c.name = name
    BY <1>0 DEF Call
  <2>3. Begin(t, c)
    BY <2>1
  <2> HIDE DEF c
  <2>4. Entering(t, c)
    BY <2>1, <2>2, <2>3, <1>0 DEF Entering
  <2> QED BY <2>2, <2>4
<1>3. CASE Deregister(t)
  <2>1. PICK name \in Names \ Static :
          /\ Begin(t, [NoCall EXCEPT !.op = "deregister", !.name = name])
          /\ owed' = owed \ {name}
    BY <1>3 DEF Deregister
  <2> DEFINE c == [NoCall EXCEPT !.op = "deregister", !.name = name]
  <2>2. c \in Call /\ c.op = "deregister" /\ c.at = 0 /\ c.name = name
    BY <1>0 DEF Call
  <2>3. Begin(t, c)
    BY <2>1
  <2> HIDE DEF c
  <2>4. Entering(t, c)
    BY <2>1, <2>2, <2>3, <1>0 DEF Entering
  <2> QED BY <2>2, <2>4
<1>4. CASE Heartbeat(t)
  <2>1. PICK name \in Names \ Static :
          Begin(t, [NoCall EXCEPT !.op = "heartbeat", !.name = name, !.at = clock])
    BY <1>4 DEF Heartbeat
  <2> DEFINE c == [NoCall EXCEPT !.op = "heartbeat", !.name = name, !.at = clock]
  <2>2. c \in Call /\ c.op = "heartbeat" /\ c.at = clock /\ owed' = owed
    BY <1>0, <1>4 DEF Call, Heartbeat
  <2>3. Begin(t, c)
    BY <2>1
  <2> HIDE DEF c
  <2>4. Entering(t, c)
    BY <2>2, <2>3, <1>0 DEF Entering
  <2> QED BY <2>2, <2>4
<1> QED BY <1>1, <1>2, <1>3, <1>4 DEF Request

LEMMA TypeNext == TypeOK /\ [Next]_vars => TypeOK'
<1> SUFFICES ASSUME TypeOK, [Next]_vars PROVE TypeOK'
  OBVIOUS
<1> USE DEF Stages
<1>0. /\ Inodes \subseteq Nat /\ NoFile \notin Inodes /\ MaxTime \in Nat /\ MaxCrashes \in Nat
      /\ alone' \in BOOLEAN
  BY Constants DEF Next, vars, TypeOK
<1>1. CASE Tick
  BY <1>0, <1>1 DEF Tick, TypeOK, Times, disk, local
<1>2. CASE Crash
  <2>1. content' \in [Inodes -> Content]
    BY <1>2, SweptType DEF Crash, TypeOK
  <2> QED BY <1>0, <1>2, <2>1, Constants DEF Crash, TypeOK
<1>3. ASSUME NEW t \in Threads, Request(t) PROVE TypeOK'
  <2>1. PICK c \in Call : Entering(t, c)
    BY <1>3, RequestEnters
  <2> QED BY <1>0, <2>1 DEF Entering, Begin, TypeOK, disk
<1>4. ASSUME NEW t \in Threads, Load(t) PROVE TypeOK'
  BY <1>0, <1>4, ParsedType DEF Load, TypeOK, disk
<1>5. ASSUME NEW t \in Threads, PruneLoaded(t) PROVE TypeOK'
  <2> DEFINE live == Live(list[t], clock)
  <2>1. live \in SUBSET Entry
    BY EntryTypes DEF TypeOK
  <2>2. CASE live # list[t]
    BY <1>0, <1>5, <2>1, <2>2 DEF PruneLoaded, TypeOK, disk
  <2>3. CASE live = list[t]
    <3>1. Proceed(t, live)
      BY <1>5, <2>3 DEF PruneLoaded
    <3> HIDE DEF live
    <3> QED BY <1>0, <1>5, <2>1, <3>1, ProceedType DEF PruneLoaded, TypeOK, disk
  <2> QED BY <2>2, <2>3
<1>6. ASSUME NEW t \in Threads, OpenTmp(t) PROVE TypeOK'
  BY <1>0, <1>6, ContentTypes DEF OpenTmp, TypeOK
<1>7. ASSUME NEW t \in Threads, Write(t) PROVE TypeOK'
  <2>1. PICK text \in Overlaid(content[fd[t]], list[t]) :
          content' = Swept([content EXCEPT ![fd[t]] = text], path, tmp, fd')
    BY <1>7 DEF Write
  <2>2. [content EXCEPT ![fd[t]] = text] \in [Inodes -> Content]
    BY ContentTypes DEF TypeOK
  <2>3. content' \in [Inodes -> Content]
    BY <2>1, <2>2, SweptType
  <2> QED BY <1>0, <1>7, <2>3 DEF Write, TypeOK
<1>8. ASSUME NEW t \in Threads, Rename(t) PROVE TypeOK'
  <2>1. content' \in [Inodes -> Content]
    BY <1>8, SweptType DEF Rename, TypeOK
  <2>2. owed' \subseteq Names
    BY <1>8 DEF Rename, TypeOK, Call
  <2>3. /\ pc' \in [Threads -> Stages]
        /\ call' \in [Threads -> Call]
        /\ list' \in [Threads -> SUBSET Entry]
        /\ phase' \in [Threads -> {"prune", "store"}]
    BY <1>8, DoneType, ProceedType DEF Rename, TypeOK
  <2> QED BY <1>0, <1>8, <2>1, <2>2, <2>3 DEF Rename, TypeOK
<1>9. ASSUME NEW t \in Threads, RenameFails(t) PROVE TypeOK'
  BY <1>0, <1>9, DoneType DEF RenameFails, TypeOK, disk
<1>10. CASE UNCHANGED vars
  BY <1>10 DEF vars, disk, local, TypeOK
<1> QED BY <1>1, <1>2, <1>3, <1>4, <1>5, <1>6, <1>7, <1>8, <1>9, <1>10 DEF Next, Step

(* Every variable keeps holding a value of its kind.                       *)
THEOREM TypeCorrect == Spec => []TypeOK
BY TypeInit, TypeNext, PTL DEF Spec
-----------------------------------------------------------------------------
(* No list holds a name twice, or a static name, however requests race.    *)

LEMMA CleanInit == Init => AllClean
<1> SUFFICES ASSUME Init PROVE AllClean
  OBVIOUS
<1>1. \A i \in Inodes : content[i].entries = {}
  BY DEF Init, EmptyFile
<1>2. \A t \in Threads : list[t] = {} /\ call[t].op = "none"
  BY Constants DEF Init
<1> QED BY <1>1, <1>2, CleanEmpty DEF AllClean

LEMMA ParsedClean ==
  ASSUME TypeOK, AllClean
  PROVE  Clean(Parsed(path))
BY CleanEmpty DEF AllClean, TypeOK, Parsed

LEMMA SweptClean ==
  ASSUME NEW c, \A i \in Inodes : Clean(c[i].entries), NEW p, NEW m, NEW f
  PROVE  \A i \in Inodes : Clean(Swept(c, p, m, f)[i].entries)
<1> SUFFICES ASSUME NEW i \in Inodes PROVE Clean(Swept(c, p, m, f)[i].entries)
  OBVIOUS
<1>1. Swept(c, p, m, f)[i] \in {c[i], EmptyFile}
  BY DEF Swept
<1>2. EmptyFile.entries = {}
  BY DEF EmptyFile
<1> QED BY <1>1, <1>2, CleanEmpty

LEMMA OverlaidClean ==
  ASSUME NEW old, NEW l, Clean(l), NEW text \in Overlaid(old, l)
  PROVE  Clean(text.entries)
BY CleanEmpty DEF Overlaid, JsonFile, TornFile

(* What a request holds, and wants, stays clean.                           *)
HandsClean == \A t \in Threads : /\ Clean(list[t])
                                 /\ call[t].op = "register" => call[t].name \notin Static

LEMMA DoneClean ==
  ASSUME TypeOK, AllClean, NEW t \in Threads, Done(t)
  PROVE  HandsClean'
BY CleanEmpty, Constants DEF Done, TypeOK, AllClean, HandsClean

LEMMA ProceedClean ==
  ASSUME TypeOK, AllClean, NEW t \in Threads,
         NEW l \in SUBSET Entry, Clean(l), Proceed(t, l)
  PROVE  HandsClean'
<1>1. CASE Stores(call[t], l)
  <2>1. Clean(Applied(call[t], l))
    BY CleanApplied DEF TypeOK, AllClean
  <2> QED BY <1>1, <2>1 DEF Proceed, TypeOK, AllClean, HandsClean
<1>2. CASE ~Stores(call[t], l)
  BY <1>2, DoneClean DEF Proceed
<1> QED BY <1>1, <1>2

LEMMA CleanNext == TypeOK /\ AllClean /\ [Next]_vars => AllClean'
<1> SUFFICES ASSUME TypeOK, AllClean, [Next]_vars PROVE AllClean'
  OBVIOUS
<1>0. /\ UNCHANGED content => \A i \in Inodes : Clean(content'[i].entries)
      /\ HandsClean
      /\ HandsClean' /\ (\A i \in Inodes : Clean(content'[i].entries)) => AllClean'
  BY DEF AllClean, HandsClean
<1>1. CASE UNCHANGED <<content, list, call>>
  BY <1>1 DEF AllClean
<1>2. CASE Crash
  <2>1. \A i \in Inodes : Clean(content'[i].entries)
    BY <1>2, SweptClean DEF Crash, AllClean
  <2>2. HandsClean'
    BY <1>2, CleanEmpty, Constants DEF Crash, HandsClean
  <2> QED BY <1>0, <2>1, <2>2
<1>3. ASSUME NEW t \in Threads, Request(t) PROVE AllClean'
  <2>1. PICK c \in Call : Entering(t, c)
    BY <1>3, RequestEnters
  <2>2. HandsClean' /\ UNCHANGED content
    BY <1>0, <2>1 DEF Entering, Begin, HandsClean, TypeOK, disk
  <2> QED BY <1>0, <2>2
<1>4. ASSUME NEW t \in Threads, Load(t) PROVE AllClean'
  <2>1. HandsClean' /\ UNCHANGED content
    BY <1>0, <1>4, ParsedClean DEF Load, HandsClean, TypeOK, disk
  <2> QED BY <1>0, <2>1
<1>5. ASSUME NEW t \in Threads, PruneLoaded(t) PROVE AllClean'
  <2> DEFINE live == Live(list[t], clock)
  <2>1. live \in SUBSET Entry
    BY EntryTypes DEF TypeOK
  <2>2. Clean(live)
    BY CleanPart DEF AllClean, Live
  <2>3. CASE live # list[t]
    <3>1. HandsClean'
      BY <1>0, <1>5, <2>2, <2>3 DEF PruneLoaded, TypeOK, HandsClean
    <3> QED BY <1>0, <1>5, <3>1 DEF PruneLoaded, disk
  <2>4. CASE live = list[t]
    <3>1. Proceed(t, live) /\ UNCHANGED content
      BY <1>5, <2>4 DEF PruneLoaded, disk
    <3> HIDE DEF live
    <3> QED BY <1>0, <2>1, <2>2, <3>1, ProceedClean
  <2> QED BY <2>3, <2>4
<1>6. ASSUME NEW t \in Threads, OpenTmp(t) PROVE AllClean'
  BY <1>6, CleanEmpty DEF OpenTmp, AllClean, TypeOK, EmptyFile
<1>7. ASSUME NEW t \in Threads, Write(t) PROVE AllClean'
  <2>1. PICK text \in Overlaid(content[fd[t]], list[t]) :
          content' = Swept([content EXCEPT ![fd[t]] = text], path, tmp, fd')
    BY <1>7 DEF Write
  <2>2. Clean(text.entries)
    BY OverlaidClean DEF AllClean
  <2>3. \A i \in Inodes : Clean([content EXCEPT ![fd[t]] = text][i].entries)
    BY <2>2 DEF AllClean, TypeOK
  <2>4. \A i \in Inodes : Clean(content'[i].entries)
    BY <2>1, <2>3, SweptClean
  <2> QED BY <1>7, <2>4 DEF Write, AllClean
<1>8. ASSUME NEW t \in Threads, Rename(t) PROVE AllClean'
  <2>1. \A i \in Inodes : Clean(content'[i].entries)
    BY <1>8, SweptClean DEF Rename, AllClean
  <2>2. list[t] \in SUBSET Entry /\ Clean(list[t])
    BY DEF TypeOK, AllClean
  <2>3. HandsClean'
    BY <1>8, <2>2, DoneClean, ProceedClean DEF Rename
  <2> QED BY <1>0, <2>1, <2>3
<1>9. ASSUME NEW t \in Threads, RenameFails(t) PROVE AllClean'
  BY <1>0, <1>9, DoneClean DEF RenameFails, disk
<1>10. CASE Tick \/ UNCHANGED vars
  BY <1>1, <1>10 DEF Tick, vars, disk, local
<1> QED BY <1>2, <1>3, <1>4, <1>5, <1>6, <1>7, <1>8, <1>9, <1>10 DEF Next, Step

(* However requests race, no list holds a name twice or shadows a static   *)
(* service.                                                                *)
THEOREM NamesAreSound == Spec => []NamesSound
<1>1. AllClean => NamesSound
  BY DEF AllClean, Clean, NamesSound, NamesStayUnique, NoShadowing
<1> QED BY <1>1, TypeInit, TypeNext, CleanInit, CleanNext, PTL DEF Spec
-----------------------------------------------------------------------------
(* Requests that come one at a time: each step keeps the order.            *)

LEMMA OrderInit == Init => InOrder
BY Constants DEF Init, InOrder, OneAtATime, WholeFile, PastBeats, OwedPersists, Undisturbed,
                 Parsed, NoFile

LEMMA AppliedBeats ==
  ASSUME NEW c \in Call, NEW l \in SUBSET Entry, NEW now \in Times,
         \A e \in l : e.beat <= now, c.at <= now
  PROVE  \A e \in Applied(c, l) : e.beat <= now
<1>1. \A e \in Upserted(l, Stamped(c.name, c.ttl, c.at)) : e.beat <= now
  BY DEF Upserted, Stamped, Without, Named
<1>2. \A e \in Without(l, c.name) : e.beat <= now
  BY DEF Without, Named
<1>3. \A e \in Beaten(l, c.name, c.at) : e.beat <= now
  BY DEF Beaten, Without, Named, Entry
<1> QED BY <1>1, <1>2, <1>3 DEF Applied

LEMMA AppliedKeeps ==
  ASSUME NEW c \in Call, NEW l \in SUBSET Entry, NEW e \in l,
         c.op \in {"register", "deregister"} => c.name # e.name
  PROVE  \E f \in Applied(c, l) : f.name = e.name /\ f.ttl = e.ttl
<1>1. CASE c.op \in {"register", "deregister"} \/ c.name # e.name
  <2>1. c.name # e.name \/ Applied(c, l) = l
    BY <1>1 DEF Applied
  <2>2. e \in Applied(c, l)
    BY <2>1 DEF Applied, Upserted, Stamped, Beaten, Without, Named
  <2> QED BY <2>2
<1>2. CASE c.op = "heartbeat" /\ c.name = e.name
  <2>1. [e EXCEPT !.beat = c.at] \in Beaten(l, c.name, c.at)
    BY <1>2 DEF Beaten, Named
  <2>2. Applied(c, l) = Beaten(l, c.name, c.at)
    BY <1>2 DEF Applied
  <2>3. [e EXCEPT !.beat = c.at].name = e.name /\ [e EXCEPT !.beat = c.at].ttl = e.ttl
    BY DEF Entry
  <2> QED BY <2>1, <2>2, <2>3
<1>3. CASE c.op \notin {"register", "deregister", "heartbeat"}
  BY <1>3 DEF Applied
<1> QED BY <1>1, <1>2, <1>3

LEMMA LiveKeeps ==
  ASSUME NEW l, NEW now
  PROVE  Live(l, now) \subseteq l /\ \A e \in l : e.ttl = NoTtl => e \in Live(l, now)
BY DEF Live, IsExpired

(* Everybody but the one request under way.                                *)
Others(t) == \A u \in Threads \ {t} :
               pc[u] = "idle" /\ fd[u] = NoFile /\ phase[u] = "prune" /\ list[u] = {}

LEMMA OthersIdle ==
  ASSUME TypeOK, InOrder, NEW t \in Threads,
         pc[t] # "idle" \/ \A u \in Threads : pc[u] = "idle"
  PROVE  Others(t)
<1> SUFFICES ASSUME NEW u \in Threads \ {t}
             PROVE  pc[u] = "idle" /\ fd[u] = NoFile /\ phase[u] = "prune" /\ list[u] = {}
  BY DEF Others
<1>1. pc[u] = "idle"
  BY DEF InOrder, OneAtATime
<1> QED BY <1>1 DEF InOrder, Undisturbed

LEMMA Ordered ==
  ASSUME NEW t \in Threads, Others(t)', Undisturbed(t)', WholeFile', PastBeats', OwedPersists'
  PROVE  InOrder'
<1>1. \A u \in Threads \ {t} : Undisturbed(u)'
  BY DEF Others, Undisturbed
<1>2. OneAtATime'
  BY DEF Others, OneAtATime
<1> QED BY <1>1, <1>2 DEF InOrder

(* A step that leaves the registry file alone.                             *)
FileKept == /\ path' = path
            /\ path # NoFile => content'[path] = content[path] /\ path # tmp'
            /\ owed' \subseteq owed
            /\ clock' \in {clock, clock + 1}

LEMMA FileKeptKeeps ==
  ASSUME TypeOK, InOrder, FileKept
  PROVE  /\ WholeFile' /\ PastBeats' /\ OwedPersists'
         /\ Parsed(path)' = Parsed(path)
<1>1. Parsed(path)' = Parsed(path)
  BY DEF FileKept, Parsed
<1>2. WholeFile'
  BY DEF InOrder, WholeFile, FileKept
<1>3. OwedPersists'
  BY <1>1 DEF InOrder, OwedPersists, FileKept
<1>4. \A e \in Parsed(path) : e.beat \in Int
  BY ParsedType DEF Entry, Times
<1>5. clock \in Int
  BY Constants DEF TypeOK, Times
<1>6. PastBeats'
  BY <1>1, <1>4, <1>5 DEF InOrder, PastBeats, FileKept
<1> QED BY <1>1, <1>2, <1>3, <1>6

LEMMA ProceedOrdered ==
  ASSUME TypeOK, NEW t \in Threads, NEW l \in SUBSET Entry, Proceed(t, l),
         Parsed(path)' = l, fd'[t] = NoFile, clock' = clock,
         call[t].at <= clock,
         call[t].op = "heartbeat" => \A e \in l : e.beat <= call[t].at,
         call[t].op \in {"register", "deregister"} => call[t].name \notin owed'
  PROVE  Undisturbed(t)'
<1>1. CASE Stores(call[t], l)
  <2>1. /\ pc'[t] = "open" /\ phase'[t] = "store"
        /\ call' = call /\ list'[t] = Applied(call[t], l)
    BY <1>1 DEF Proceed, TypeOK
  <2>2. Derived(t)'
    BY <1>1, <2>1 DEF Derived
  <2> QED BY <2>1, <2>2 DEF Undisturbed
<1>2. CASE ~Stores(call[t], l)
  <2>1. pc'[t] = "idle" /\ list'[t] = {} /\ phase'[t] = "prune"
    BY <1>2 DEF Proceed, Done, TypeOK
  <2> QED BY <2>1 DEF Undisturbed
<1> QED BY <1>1, <1>2
(* What the renamed list leaves true of the file.                          *)
LEMMA RenameOrdered ==
  ASSUME TypeOK, TypeOK', InOrder, alone, NEW t \in Threads, Rename(t)
  PROVE  InOrder' /\ Parsed(path)' = list[t] /\ Derived(t)
<1> DEFINE stored == Parsed(path)
<1>1. /\ pc[t] = "rename" /\ Others(t) /\ Undisturbed(t) /\ Derived(t)
      /\ fd[t] = NoFile /\ tmp # NoFile /\ content[tmp] = JsonFile(list[t])
      /\ call[t].at <= clock
      /\ call[t].op = "heartbeat" => \A e \in stored : e.beat <= call[t].at
      /\ call[t].op \in {"register", "deregister"} => call[t].name \notin owed
  BY OthersIdle DEF Rename, InOrder, Undisturbed
<1>2. stored \in SUBSET Entry /\ list[t] \in SUBSET Entry /\ call[t] \in Call /\ clock \in Times
  BY ParsedType DEF TypeOK
<1>3. path' = tmp /\ tmp' = NoFile /\ content'[tmp] = content[tmp] /\ clock' = clock /\ fd' = fd
  BY DEF Rename, Swept, TypeOK
<1>4. Parsed(path)' = list[t]
  BY <1>1, <1>3 DEF Parsed, JsonFile
<1>5. WholeFile'
  BY <1>1, <1>3 DEF WholeFile, JsonFile
<1>6. \/ \E at \in 0 .. clock : list[t] = Live(stored, at)
      \/ phase[t] = "store" /\ list[t] = Applied(call[t], stored)
  BY <1>1 DEF Derived, TypeOK
<1> HIDE DEF stored
<1>7. \A e \in stored : e.beat <= clock
  BY DEF InOrder, PastBeats, stored
<1>8. \A e \in list[t] : e.beat <= clock
  BY <1>1, <1>2, <1>6, <1>7, LiveKeeps, AppliedBeats
<1>9. PastBeats'
  BY <1>3, <1>4, <1>8 DEF PastBeats
<1>10. \A n \in owed : \E e \in list[t] : e.name = n /\ e.ttl = NoTtl
  <2> SUFFICES ASSUME NEW n \in owed PROVE \E e \in list[t] : e.name = n /\ e.ttl = NoTtl
    OBVIOUS
  <2>1. PICK e \in stored : e.name = n /\ e.ttl = NoTtl
    BY DEF InOrder, OwedPersists, stored
  <2> QED BY <1>1, <1>2, <1>6, <2>1, LiveKeeps, AppliedKeeps
<1>11. /\ owed' \subseteq owed \union {call[t].name}
       /\ owed' # owed => phase[t] = "store" /\ call[t].op = "register" /\ call[t].ttl = NoTtl
  BY DEF Rename
<1>12. OwedPersists'
  <2>1. CASE owed' = owed
    BY <1>4, <1>10, <2>1 DEF OwedPersists
  <2>2. CASE owed' # owed
    <3>1. list[t] = Applied(call[t], stored)
      BY <1>1, <1>11, <2>2 DEF Derived, stored
    <3>2. Stamped(call[t].name, NoTtl, call[t].at) \in list[t]
      BY <1>11, <2>2, <3>1 DEF Applied, Upserted
    <3> QED BY <1>4, <1>10, <1>11, <3>2 DEF OwedPersists, Stamped
  <2> QED BY <2>1, <2>2
<1>13. /\ \A u \in Threads \ {t} : /\ pc'[u] = pc[u] /\ phase'[u] = phase[u]
                                   /\ list'[u] = list[u] /\ fd'[u] = fd[u]
  BY <1>3 DEF Rename, Proceed, Done, TypeOK
<1>14. Others(t)'
  BY <1>1, <1>13 DEF Others
<1>15. Undisturbed(t)'
  <2>1. CASE phase[t] = "prune"
    <3>1. Proceed(t, list[t]) /\ owed' = owed
      BY <1>11, <2>1 DEF Rename
    <3>2. list[t] \subseteq stored
      BY <1>1, <2>1, LiveKeeps DEF Derived, stored
    <3> QED BY <1>1, <1>2, <1>3, <1>4, <3>1, <3>2, ProceedOrdered
  <2>2. CASE phase[t] = "store"
    <3>1. Done(t)
      BY <2>2 DEF Rename
    <3>2. pc'[t] = "idle" /\ list'[t] = {} /\ phase'[t] = "prune"
      BY <3>1 DEF Done, TypeOK
    <3> QED BY <1>1, <1>3, <3>2 DEF Undisturbed
  <2> QED BY <2>1, <2>2 DEF TypeOK
<1> QED BY <1>1, <1>4, <1>5, <1>9, <1>12, <1>14, <1>15, Ordered

(* Any other step leaves the list in the file as it is.                    *)
LEMMA OrderNext ==
  ASSUME TypeOK, TypeOK', InOrder, alone, [Next]_vars
  PROVE  /\ InOrder'
         /\ \/ Parsed(path)' = Parsed(path) /\ (UNCHANGED clock \/ Tick)
            \/ \E t \in Threads : Rename(t) /\ Derived(t) /\ Parsed(path)' = list[t]
<1>0. clock \in Nat /\ Inodes \subseteq Nat /\ NoFile \notin Inodes
  BY Constants DEF TypeOK, Times
<1> DEFINE Goal == /\ InOrder'
                   /\ Parsed(path)' = Parsed(path) /\ (UNCHANGED clock \/ Tick)
<1>1. CASE Tick
  <2>1. FileKept
    BY <1>1 DEF Tick, FileKept, disk, InOrder, WholeFile
  <2>2. UNCHANGED <<disk, local, owed>> /\ clock' = clock + 1
    BY <1>1 DEF Tick
  <2>3. \A t \in Threads : Undisturbed(t)'
    <3> SUFFICES ASSUME NEW t \in Threads PROVE Undisturbed(t)'
      OBVIOUS
    <3>1. Parsed(path)' = Parsed(path) /\ \A at \in 0 .. clock : at \in 0 .. clock'
      BY <1>0, <2>1, <2>2, FileKeptKeeps
    <3>2. Derived(t) => Derived(t)'
      BY <2>2, <3>1 DEF Derived, local
    <3>3. Undisturbed(t) /\ call[t].at \in Int
      BY DEF InOrder, TypeOK, Call, Times
    <3> QED BY <1>0, <2>2, <3>1, <3>2, <3>3 DEF Undisturbed, local, disk
  <2>4. OneAtATime'
    BY <2>2 DEF InOrder, OneAtATime, local
  <2> QED BY <1>1, <2>1, <2>3, <2>4, FileKeptKeeps DEF InOrder
<1>2. CASE Crash
  <2>1. FileKept
    BY <1>2 DEF Crash, FileKept, Swept, InOrder, WholeFile, TypeOK
  <2>2. (\A t \in Threads : Undisturbed(t)') /\ OneAtATime'
    BY <1>2 DEF Crash, Undisturbed, OneAtATime
  <2> QED BY <1>2, <2>1, <2>2, FileKeptKeeps DEF InOrder, Crash
<1>3. ASSUME NEW t \in Threads, Request(t) PROVE Goal
  <2>1. PICK c \in Call : Entering(t, c)
    BY <1>3, RequestEnters
  <2>2. FileKept
    BY <2>1 DEF Entering, Begin, FileKept, disk, InOrder, WholeFile
  <2>3. Others(t) /\ fd[t] = NoFile /\ phase[t] = "prune" /\ pc[t] = "idle"
    BY <2>1, OthersIdle DEF Entering, Begin, InOrder, Undisturbed
  <2>4. Others(t)'
    BY <2>1, <2>3 DEF Entering, Begin, Others, TypeOK
  <2>5. pc'[t] = "load" /\ call'[t] = c /\ UNCHANGED <<fd, phase, clock>>
    BY <2>1 DEF Entering, Begin, TypeOK
  <2>6. Parsed(path)' = Parsed(path)
    BY <2>2, FileKeptKeeps
  <2>7. /\ c.op = "heartbeat" => \A e \in Parsed(path) : e.beat <= c.at
        /\ c.op \in {"register", "deregister"} => c.name \notin owed'
        /\ c.at <= clock
    BY <2>1 DEF Entering, InOrder, PastBeats
  <2>8. Undisturbed(t)'
    BY <2>3, <2>5, <2>6, <2>7 DEF Undisturbed
  <2> QED BY <2>2, <2>4, <2>5, <2>6, <2>8, FileKeptKeeps, Ordered
<1>4. ASSUME NEW t \in Threads, Load(t) PROVE Goal
  <2>1. FileKept /\ UNCHANGED <<clock, disk, fd, phase, call, owed>>
    BY <1>4 DEF Load, FileKept, disk, InOrder, WholeFile
  <2>2. Others(t) /\ Undisturbed(t)
    BY <1>4, OthersIdle DEF Load, InOrder
  <2>3. Others(t)'
    BY <1>4, <2>2 DEF Load, Others, TypeOK
  <2>4. pc[t] = "load" /\ pc'[t] = "prune" /\ list'[t] = Parsed(path)
    BY <1>4 DEF Load, TypeOK
  <2>5. Parsed(path)' = Parsed(path)
    BY <2>1, FileKeptKeeps
  <2>6. Undisturbed(t)'
    BY <2>1, <2>2, <2>4, <2>5 DEF Undisturbed
  <2> QED BY <2>1, <2>3, <2>5, <2>6, FileKeptKeeps, Ordered
<1>5. ASSUME NEW t \in Threads, PruneLoaded(t) PROVE Goal
  <2> DEFINE live == Live(list[t], clock)
  <2>1. FileKept /\ UNCHANGED <<clock, disk, fd, owed>> /\ pc[t] = "prune"
    BY <1>5 DEF PruneLoaded, FileKept, disk, InOrder, WholeFile
  <2>2. Others(t) /\ Undisturbed(t)
    BY <2>1, OthersIdle DEF InOrder
  <2>3. Others(t)'
    BY <1>5, <2>2 DEF PruneLoaded, Proceed, Done, Others, TypeOK
  <2>4. Parsed(path)' = Parsed(path)
    BY <2>1, FileKeptKeeps
  <2>5. /\ list[t] = Parsed(path) /\ phase[t] = "prune" /\ fd[t] = NoFile
        /\ call[t].at <= clock
        /\ call[t].op = "heartbeat" => \A e \in Parsed(path) : e.beat <= call[t].at
        /\ call[t].op \in {"register", "deregister"} => call[t].name \notin owed
    BY <2>1, <2>2 DEF Undisturbed
  <2>6. CASE live # list[t]
    <3>1. /\ pc'[t] = "open" /\ list'[t] = live /\ UNCHANGED <<call, phase>>
      BY <1>5, <2>6 DEF PruneLoaded, TypeOK
    <3>2. \E e \in Parsed(path) : IsExpired(e, clock)
      BY <2>5, <2>6 DEF Live
    <3>3. Derived(t)'
      BY <1>0, <2>1, <2>4, <2>5, <3>1, <3>2 DEF Derived
    <3>4. Undisturbed(t)'
      BY <2>1, <2>2, <2>4, <2>5, <3>1, <3>3 DEF Undisturbed
    <3> QED BY <2>1, <2>3, <2>4, <3>4, FileKeptKeeps, Ordered
  <2>7. CASE live = list[t]
    <3>1. Proceed(t, live) /\ live \in SUBSET Entry
      BY <1>5, <2>7 DEF PruneLoaded, TypeOK
    <3> HIDE DEF live
    <3>2. Undisturbed(t)'
      BY <2>1, <2>4, <2>5, <2>7, <3>1, ProceedOrdered
    <3> QED BY <2>1, <2>3, <2>4, <3>2, FileKeptKeeps, Ordered
  <2> QED BY <2>6, <2>7
<1>6. ASSUME NEW t \in Threads, OpenTmp(t) PROVE Goal
  <2>1. PICK i \in Inodes : /\ i # path \/ path = NoFile
                            /\ tmp' = i
                            /\ fd' = [fd EXCEPT ![t] = i]
                            /\ content' = [content EXCEPT ![i] = EmptyFile]
    BY <1>0, <1>6 DEF OpenTmp, Free, InOrder, WholeFile
  <2>2. /\ UNCHANGED <<clock, path, call, list, phase, owed>>
        /\ pc[t] = "open" /\ pc'[t] = "write" /\ fd'[t] = i /\ content'[i] = EmptyFile
    BY <1>6, <2>1 DEF OpenTmp, TypeOK
  <2>3. FileKept
    BY <2>1, <2>2 DEF FileKept, TypeOK
  <2>4. Others(t) /\ Undisturbed(t)
    BY <2>2, OthersIdle DEF InOrder
  <2>5. Others(t)'
    BY <1>6, <2>1, <2>4 DEF OpenTmp, Others, TypeOK
  <2>6. Parsed(path)' = Parsed(path)
    BY <2>3, FileKeptKeeps
  <2>7. Derived(t)'
    BY <2>2, <2>4, <2>6 DEF Derived, Undisturbed
  <2>8. Undisturbed(t)'
    BY <1>0, <2>1, <2>2, <2>4, <2>6, <2>7 DEF Undisturbed
  <2> QED BY <2>2, <2>3, <2>5, <2>6, <2>8, FileKeptKeeps, Ordered
<1>7. ASSUME NEW t \in Threads, Write(t) PROVE Goal
  <2>1. pc[t] = "write" /\ Others(t) /\ Undisturbed(t)
    BY <1>7, OthersIdle DEF Write, InOrder
  <2>2. fd[t] = tmp /\ tmp # NoFile /\ content[tmp] = EmptyFile /\ tmp # path
    BY <2>1 DEF Undisturbed, InOrder, WholeFile
  <2>3. Overlaid(content[fd[t]], list[t]) = {JsonFile(list[t])}
    BY <2>2 DEF Overlaid, EmptyFile
  <2>4. content' = Swept([content EXCEPT ![tmp] = JsonFile(list[t])], path, tmp, fd')
    BY <1>7, <2>2, <2>3 DEF Write
  <2>5. content'[tmp] = JsonFile(list[t]) /\ (path # NoFile => content'[path] = content[path])
    BY <2>2, <2>4 DEF Swept, TypeOK
  <2>6. /\ UNCHANGED <<clock, path, tmp, call, list, phase, owed>>
        /\ pc'[t] = "rename" /\ fd'[t] = NoFile
    BY <1>7 DEF Write, TypeOK
  <2>7. FileKept
    BY <2>2, <2>5, <2>6 DEF FileKept
  <2>8. Others(t)'
    BY <1>7, <2>1 DEF Write, Others, TypeOK
  <2>9. Parsed(path)' = Parsed(path)
    BY <2>7, FileKeptKeeps
  <2>10. Derived(t)'
    BY <2>1, <2>6, <2>9 DEF Derived, Undisturbed
  <2>11. Undisturbed(t)'
    BY <2>1, <2>2, <2>5, <2>6, <2>9, <2>10 DEF Undisturbed
  <2> QED BY <2>6, <2>7, <2>8, <2>9, <2>11, FileKeptKeeps, Ordered
<1>8. ASSUME NEW t \in Threads, Rename(t)
      PROVE  InOrder' /\ Derived(t) /\ Parsed(path)' = list[t]
  BY <1>8, RenameOrdered
<1>9. ASSUME NEW t \in Threads, RenameFails(t) PROVE FALSE
  BY <1>9 DEF RenameFails, InOrder, Undisturbed
<1>10. CASE UNCHANGED vars
  <2>1. UNCHANGED <<clock, path, tmp, content, pc, call, list, phase, fd, owed>>
    BY <1>10 DEF vars, disk, local
  <2> QED BY <2>1 DEF InOrder, OneAtATime, WholeFile, PastBeats, OwedPersists, Undisturbed,
                      Derived, Parsed
<1> QED BY <1>1, <1>2, <1>3, <1>4, <1>5, <1>6, <1>7, <1>8, <1>9, <1>10 DEF Next, Step
-----------------------------------------------------------------------------
(* The theorems about requests that come one at a time.                    *)

LEMMA IInvInit == Init => IInv
BY TypeInit, CleanInit, OrderInit DEF IInv

LEMMA IInvNext == IInv /\ [Next]_vars => IInv'
<1> SUFFICES ASSUME IInv, [Next]_vars PROVE IInv'
  OBVIOUS
<1>1. TypeOK' /\ AllClean'
  BY TypeNext, CleanNext DEF IInv
<1>2. alone' = alone
  BY DEF Next, vars
<1> QED BY <1>1, <1>2, OrderNext DEF IInv

(* Without races an acknowledged persistent registration is in the file    *)
(* until a request to change its name begins, through expiry, prunes and a *)
(* crash at any step.                                                      *)
THEOREM AcknowledgedRegistrationsSurvive == Spec => []RegistrationsSurvive
<1>1. IInv => RegistrationsSurvive
  BY DEF IInv, InOrder, OwedPersists, RegistrationsSurvive, AcknowledgedSurvives, NamesOf
<1> QED BY <1>1, IInvInit, IInvNext, PTL DEF Spec

(* Without races registry.json is absent or one whole JSON list whenever   *)
(* no save is in progress, in particular after a crash at any step.        *)
THEOREM CrashesKeepItReadable == Spec => []CrashesLeaveItReadable
<1>1. IInv => CrashesLeaveItReadable
  BY DEF IInv, InOrder, WholeFile, CrashesLeaveItReadable, SettledFileReadable
<1> QED BY <1>1, IInvInit, IInvNext, PTL DEF Spec

(* A rename puts one operation of the abstract registry into effect.       *)
LEMMA RenameImplements ==
  ASSUME TypeOK, InOrder, alone, NEW t \in Threads, Rename(t), Derived(t),
         Parsed(path)' = list[t], alone' = alone
  PROVE  Kept!Next
<1> DEFINE old == Parsed(path)
<1>1. /\ UNCHANGED clock /\ clock \in Nat /\ call[t] \in Call /\ call[t].at \in 0 .. clock
      /\ call[t].op = "heartbeat" => \A e \in old : e.beat <= call[t].at
  BY Constants DEF Rename, InOrder, Undisturbed, TypeOK, Times, Call
<1>2. CASE phase[t] = "prune"
  <2>1. PICK at \in 0 .. clock : list[t] = Live(old, at) /\ \E e \in old : IsExpired(e, at)
    BY <1>2 DEF Derived
  <2>2. Kept!Prune(at)
    BY <1>1, <2>1 DEF Kept!Prune, Kept!IsExpired, Kept!Live, Live, IsExpired
  <2> QED BY <2>1, <2>2 DEF Kept!Next
<1>3. CASE phase[t] = "store"
  <2>1. list[t] = Applied(call[t], old) /\ Stores(call[t], old)
    BY <1>3 DEF Derived
  <2> HIDE DEF old
  <2>2. call[t].name \in Names /\ call[t].ttl \in Ttls \union {NoTtl}
    BY <1>1 DEF Call
  <2>3. CASE call[t].op = "register"
    <3>1. list[t] = Upserted(old, Stamped(call[t].name, call[t].ttl, call[t].at))
      BY <2>1, <2>3 DEF Applied
    <3>2. Kept!Register(call[t].name, call[t].ttl, call[t].at)
      BY <1>1, <3>1 DEF Kept!Register, Kept!Upserted, Kept!Stamped, Kept!Without, Kept!Named,
                        Upserted, Stamped, Without, Named, old
    <3> QED BY <1>1, <2>2, <3>2 DEF Kept!Next
  <2>4. CASE call[t].op = "deregister"
    <3>1. list[t] = Without(old, call[t].name) /\ call[t].name \in NamesOf(old)
      BY <2>1, <2>4 DEF Applied, Stores
    <3>2. Kept!Deregister(call[t].name)
      BY <1>1, <3>1 DEF Kept!Deregister, Kept!NamesOf, Kept!Without, Kept!Named,
                        NamesOf, Without, Named, old
    <3> QED BY <2>2, <3>2 DEF Kept!Next
  <2>5. CASE call[t].op = "heartbeat"
    <3>1. /\ list[t] = Beaten(old, call[t].name, call[t].at)
          /\ call[t].name \in NamesOf(old)
          /\ \A e \in old : e.beat <= call[t].at
      BY <1>1, <2>1, <2>5 DEF Applied, Stores
    <3>2. Kept!Heartbeat(call[t].name, call[t].at)
      BY <1>1, <3>1 DEF Kept!Heartbeat, Kept!NamesOf, Kept!Beaten, Kept!Without, Kept!Named,
                        NamesOf, Beaten, Without, Named, old
    <3> QED BY <1>1, <2>2, <3>2 DEF Kept!Next
  <2> QED BY <2>1, <2>3, <2>4, <2>5 DEF Stores
<1> QED BY <1>2, <1>3 DEF TypeOK

LEMMA StepImplements == IInv /\ [Next]_vars => [Kept!Next]_Kept!avars
<1> SUFFICES ASSUME IInv, [Next]_vars PROVE [Kept!Next]_Kept!avars
  OBVIOUS
<1>1. IInv' /\ alone' = alone /\ TypeOK /\ TypeOK' /\ alone \in BOOLEAN
  BY IInvNext DEF IInv, Next, vars, TypeOK
<1>2. CASE Parsed(path)' = Parsed(path) \/ ~alone
  <2>1. UNCHANGED (IF alone THEN Parsed(path) ELSE {})
    BY <1>1, <1>2
  <2>2. CASE Tick
    BY <2>1, <2>2 DEF Tick, Kept!Next, Kept!Tick
  <2>3. CASE ~Tick
    <3>1. UNCHANGED clock
      BY <2>3 DEF Next, Crash, Request, List, Register, Deregister, Heartbeat, Begin, Step,
                  Load, PruneLoaded, OpenTmp, Write, Rename, RenameFails, vars
    <3> QED BY <2>1, <3>1 DEF Kept!avars
  <2> QED BY <2>2, <2>3
<1>3. CASE alone /\ Parsed(path)' # Parsed(path)
  <2>1. PICK t \in Threads : Rename(t) /\ Derived(t) /\ Parsed(path)' = list[t]
    BY <1>1, <1>3, OrderNext DEF IInv
  <2> QED BY <1>1, <1>3, <2>1, RenameImplements DEF IInv
<1> QED BY <1>1, <1>2, <1>3

(* Without races the file is the abstract registry: every rename is one of *)
(* its operations, every other step leaves it as it is, and a crash at any *)
(* step happens between two operations.                                    *)
THEOREM RegistryImplements == Spec => ImplementsAlone
<1>1. Init => Kept!Init
  BY DEF Init, Kept!Init, Parsed
<1> QED BY <1>1, IInvInit, IInvNext, StepImplements, PTL DEF Spec, ImplementsAlone, Kept!Spec
=============================================================================
