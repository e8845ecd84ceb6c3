----------------------------- MODULE Federation -----------------------------
(***************************************************************************)
(* The pull aggregation of a page (federation.py and _aggregation_result   *)
(* of app.py) over a graph of trusted peers.                               *)
(*                                                                         *)
(* A request for /api/services is handled by a pool thread of its node:    *)
(* it answers from its own catalogue, or asks every trusted peer that is   *)
(* not among the nodes already visited, at the same time and each with its *)
(* own timeout, waits for all of them, and merges what came.  The request  *)
(* a peer receives is of the same kind, with a visited set and a hop       *)
(* budget in its headers, so one page is a tree of requests.  A request is *)
(* named by its path: the nodes from the one that was asked for the page   *)
(* to the one that handles the request.  A node that stopped waiting has   *)
(* no way to stop the request it sent.                                     *)
(***************************************************************************)
EXTENDS Naturals, FiniteSets, Sequences, SequencesExt

CONSTANTS Node,          \* a node, also its local_name
          Root,          \* the nodes whose page is asked for
          Trust,         \* the names in peers.json of each node, in order
          Federating,    \* nodes with federation.enabled
          Guarded,       \* nodes with federation.require_read_token
          Offers,        \* the service names of each node's catalogue
          MaxHops,       \* DEFAULT_MAX_HOPS
          PeerTimeout,   \* DEFAULT_PEER_TIMEOUT_SECONDS, in ticks
          Pool,          \* threads that handle requests, on each node
          Untagged,      \* no origin yet
          Prompt,        \* time passes only when no node has work to do
          Faults,        \* what a node that fails becomes: "down", "silent"
          MaxRev,        \* bound on the changes of each catalogue
          MaxFaults      \* bound on the nodes that fail

ASSUME FederationAssumption ==
  /\ Root \subseteq Node
  /\ Federating \subseteq Node
  /\ Guarded \subseteq Node
  /\ Trust \in [Node -> Seq(Node)]
  /\ \A n \in Node : IsInjective(Trust[n])
  /\ DOMAIN Offers = Node
  /\ Untagged \notin Node
  /\ MaxHops \in Nat
  /\ PeerTimeout \in Nat \ {0}
  /\ Pool \in [Node -> Nat \ {0}]
  /\ Prompt \in BOOLEAN
  /\ Faults \subseteq {"down", "silent"}
  /\ MaxRev \in Nat
  /\ MaxFaults \in Nat

VARIABLES health,        \* "up", "down" (refuses) or "silent" (never answers)
          rev,           \* revision of the catalogue of each node
          request,       \* the requests there are, by path
          since,         \* observer: rev when each page was asked for
          late           \* observer: roots a fetch of whose walk timed out

vars == <<health, rev, request, since, late>>
-----------------------------------------------------------------------------
Services == UNION {Offers[n] : n \in Node}
Entry == [name : Services, owner : Node, rev : Nat, origin : Node \union {Untagged}]
Fetch == [st : {"waiting", "answered", "failed"}, left : 0..PeerTimeout, list : SUBSET Entry]
Waiting == [st |-> "waiting", left |-> PeerTimeout, list |-> {}]

(* Headers of a request and what its handler knows; own and got, the fetch *)
(* of each peer it asks, are filled when the handler starts, list when it  *)
(* answers.                                                                *)
Sent(visited, ttl) == [visited |-> visited, ttl |-> ttl, st |-> "sent", own |-> {},
                       got |-> [m \in {} |-> Waiting], list |-> {}]

Paths == DOMAIN request
Asker(p) == Front(p)
Top(p) == Len(p) = 1
Up(p) == health[Last(p)] = "up"
Served(n) == {p \in Paths : Last(p) = n /\ request[p].st = "running"}

(* The sender of p still waits for it.                                     *)
Awaited(p) == /\ ~Top(p)
              /\ Asker(p) \in Paths
              /\ request[Asker(p)].st = "running"
              /\ request[Asker(p)].got[Last(p)].st = "waiting"

Key(e) == <<e.origin, e.name>>

(* Mutant: the catalogue is read once, when the application is built.      *)
FirstCatalogue(n) ==
  {[name |-> s, owner |-> n, rev |-> 0, origin |-> Untagged] : s \in Offers[n]}

(* _all_local_services_json: static and dynamic services, read afresh.     *)
Catalogue(n) ==
  {[name |-> s, owner |-> n, rev |-> rev[n], origin |-> Untagged] : s \in Offers[n]}

(* _tag_origin: an origin an entry already has is kept.                    *)
Tagged(list, origin) ==
  {IF e.origin = Untagged THEN [e EXCEPT !.origin = origin] ELSE e : e \in list}

(* _local_only_services *)
LocalOnly(n) == {[e EXCEPT !.origin = n] : e \in Catalogue(n)}

(* The lists a handler merges, in order: its own, then those of the peers  *)
(* that answered, as its trust store lists them.                           *)
Part(c, me, i) ==
  IF i = 0 THEN Tagged(c.own, me)
  ELSE LET m == Trust[me][i]
       IN  IF m \in DOMAIN c.got THEN Tagged(c.got[m].list, m) ELSE {}

(* aggregate_services and dedupe_services: of the entries with one key the *)
(* first in the order of the parts is kept.                                *)
Merged(c, me) ==
  UNION {{e \in Part(c, me, i) : \A j \in 0..(i - 1) : \A f \in Part(c, me, j) :
             Key(f) # Key(e)} : i \in 0..Len(Trust[me])}

(* Mutants: the sender forgets to add itself to the visited set; the hop   *)
(* budget runs out one hop early.                                          *)
VisitedBefore(n, c) == c.visited
StopsEarly(n, c) == n \notin Federating \/ n \in c.visited \/ c.ttl <= 1

(* Mutant: the hop budget is decremented and sent, and never looked at.    *)
StopsAtCycle(n, c) == n \notin Federating \/ n \in c.visited

(* What goes into the headers of the requests n sends for c.               *)
Visited(n, c) == c.visited \union {n}

(* The conditions under which n answers with its own catalogue only.       *)
Stops(n, c) == n \notin Federating \/ n \in c.visited \/ c.ttl <= 0

(* The peers n asks for c.                                                 *)
Asked(n, c) == ToSet(Trust[n]) \ Visited(n, c)

(* require_read_access of a request that m sends to n: the token m has for *)
(* n is one n knows when each trusts the other.                            *)
Admitted(p) == ~Top(p) /\ Last(p) \in Guarded => Last(Asker(p)) \in ToSet(Trust[Last(p)])

Without(p) == [q \in Paths \ {p} |-> request[q]]
-----------------------------------------------------------------------------
Init == /\ health = [n \in Node |-> "up"]
        /\ rev = [n \in Node |-> 0]
        /\ request = [p \in {} |-> Sent({}, MaxHops)]
        /\ since = [r \in Root |-> [n \in Node |-> 0]]
        /\ late = {}

(* A browser asks r for its page.  The bound: not before the requests of   *)
(* its previous page are gone.                                             *)
Ask(r) == /\ health[r] = "up"
          /\ \A p \in Paths : Head(p) # r
          /\ request' = [q \in Paths \union {<<r>>} |->
                           IF q = <<r>> THEN Sent({}, MaxHops) ELSE request[q]]
          /\ since' = [since EXCEPT ![r] = rev]
          /\ UNCHANGED <<health, rev, late>>

(* The handler of p has a thread and passes require_read_access.           *)
Starts(p) == /\ request[p].st = "sent"
             /\ Up(p)
             /\ Admitted(p)
             /\ Cardinality(Served(Last(p))) < Pool[Last(p)]

AnswerLocally(p) ==
  /\ Starts(p)
  /\ Stops(Last(p), request[p])
  /\ request' = [request EXCEPT ![p].st = "answered", ![p].list = LocalOnly(Last(p))]
  /\ UNCHANGED <<health, rev, since, late>>

(* load_peers, the own catalogue, and one fetch per peer in its thread.    *)
FanOut(p) ==
  LET n == Last(p)
      peers == Asked(n, request[p])
      children == {Append(p, m) : m \in peers}
      asking == [request EXCEPT ![p].st = "running", ![p].own = Catalogue(n),
                                ![p].got = [m \in peers |-> Waiting]]
  IN  /\ Starts(p)
      /\ ~Stops(n, request[p])
      /\ request' = [q \in Paths \union children |->
                       IF q \in children THEN Sent(Visited(n, request[p]), request[p].ttl - 1)
                       ELSE asking[q]]
      /\ UNCHANGED <<health, rev, since, late>>

(* Nobody listens, the process dies under the handler, or the token is not *)
(* accepted: the sender gets an error.                                     *)
Refuse(p) ==
  /\ \/ request[p].st \in {"sent", "running"} /\ health[Last(p)] = "down"
     \/ request[p].st = "sent" /\ Up(p) /\ ~Admitted(p)
  /\ request' = [request EXCEPT ![p].st = "refused"]
  /\ UNCHANGED <<health, rev, since, late>>

(* Every fetch has ended: the result is merged and returned.               *)
Answer(p) ==
  /\ request[p].st = "running"
  /\ Up(p)
  /\ \A m \in DOMAIN request[p].got : request[p].got[m].st # "waiting"
  /\ request' = [request EXCEPT ![p].st = "answered",
                                ![p].list = Merged(request[p], Last(p))]
  /\ UNCHANGED <<health, rev, since, late>>

(* The end of the fetch of p by its sender: an answer, an error, or the    *)
(* timeout, which leaves p where it is (_fetch_one).                       *)
Ended(p, st, list) ==
  [request EXCEPT ![Asker(p)].got[Last(p)] = [st |-> st, left |-> 0, list |-> list]]

Receive(p) ==
  /\ Awaited(p) /\ Up(Asker(p))
  /\ request[p].st = "answered"
  /\ request' = [q \in Paths \ {p} |-> Ended(p, "answered", request[p].list)[q]]
  /\ UNCHANGED <<health, rev, since, late>>

Fail(p) ==
  /\ Awaited(p) /\ Up(Asker(p))
  /\ request[p].st = "refused"
  /\ request' = [q \in Paths \ {p} |-> Ended(p, "failed", {})[q]]
  /\ UNCHANGED <<health, rev, since, late>>

Expired(p) == request[Asker(p)].got[Last(p)].left = 0

(* Mutants: the timeout is that of the connection, not of the answer; a    *)
(* peer that timed out counts as one that answered with nothing.           *)
TimeOutUnlessRunning(p) ==
  /\ Awaited(p) /\ Up(Asker(p))
  /\ Expired(p)
  /\ request[p].st = "sent"
  /\ request' = Ended(p, "failed", {})
  /\ late' = late \union {Head(p)}
  /\ UNCHANGED <<health, rev, since>>

TimeOutEmpty(p) ==
  /\ Awaited(p) /\ Up(Asker(p))
  /\ Expired(p)
  /\ request' = Ended(p, "answered", {})
  /\ late' = late \union {Head(p)}
  /\ UNCHANGED <<health, rev, since>>

TimeOut(p) ==
  /\ Awaited(p) /\ Up(Asker(p))
  /\ Expired(p)
  /\ request' = Ended(p, "failed", {})
  /\ late' = late \union {Head(p)}
  /\ UNCHANGED <<health, rev, since>>

(* The outcome of a request nobody waits for is dropped.                   *)
Drop(p) ==
  /\ ~Top(p) /\ ~Awaited(p)
  /\ request[p].st \in {"answered", "refused"}
  /\ request' = Without(p)
  /\ UNCHANGED <<health, rev, since, late>>

(* The browser renders the page, or an error.                              *)
Render(p) ==
  /\ Top(p)
  /\ request[p].st \in {"answered", "refused"}
  /\ request' = Without(p)
  /\ since' = [since EXCEPT ![Head(p)] = [n \in Node |-> 0]]
  /\ late' = late \ {Head(p)}
  /\ UNCHANGED <<health, rev>>

(* A service of n is registered anew, or its file edited and reloaded.     *)
Change(n) ==
  /\ health[n] = "up"
  /\ rev[n] < MaxRev
  /\ rev' = [rev EXCEPT ![n] = @ + 1]
  /\ UNCHANGED <<health, request, since, late>>

Break(n) ==
  /\ health[n] = "up"
  /\ Cardinality({m \in Node : health[m] # "up"}) < MaxFaults
  /\ \E h \in Faults : health' = [health EXCEPT ![n] = h]
  /\ UNCHANGED <<rev, request, since, late>>

(* Something a node can do about p now, without waiting.                   *)
Busy(p) == \/ Starts(p)
           \/ request[p].st = "sent" /\ Up(p) /\ ~Admitted(p)
           \/ request[p].st \in {"sent", "running"} /\ health[Last(p)] = "down"
           \/ /\ request[p].st = "running" /\ Up(p)
              /\ \A m \in DOMAIN request[p].got : request[p].got[m].st # "waiting"
           \/ /\ request[p].st \in {"answered", "refused"}
              /\ Awaited(p) /\ Up(Asker(p))

Timed == {p \in Paths : Awaited(p) /\ Up(Asker(p))}

(* The fetch of m by the handler of p, one tick later.                     *)
Older(p, m) ==
  LET fetch == request[p].got[m]
  IN  IF Append(p, m) \in Timed THEN [fetch EXCEPT !.left = @ - 1] ELSE fetch

(* Timeouts are prompt: time does not pass one by.                         *)
Tick ==
  /\ Timed # {}
  /\ \A p \in Timed : ~Expired(p)
  /\ Prompt => \A p \in Paths : ~Busy(p)
  /\ request' = [q \in Paths |->
                   [request[q] EXCEPT !.got = [m \in DOMAIN @ |-> Older(q, m)]]]
  /\ UNCHANGED <<health, rev, since, late>>

Handle(p) == AnswerLocally(p) \/ FanOut(p) \/ Refuse(p) \/ Answer(p)
EndFetch(p) == Receive(p) \/ Fail(p) \/ TimeOut(p) \/ Drop(p)

Next == \/ \E r \in Root : Ask(r)
        \/ \E p \in Paths : Handle(p) \/ EndFetch(p) \/ Render(p)
        \/ \E n \in Node : Change(n) \/ Break(n)
        \/ Tick

Spec == Init /\ [][Next]_vars

(* Fairness, for each page: the pool serves a waiting request eventually   *)
(* (its queue is first come, first served, so a thread that is free again  *)
(* and again is enough), threads run, responses that are there are read,   *)
(* timeouts fire.                                                          *)
Walk(r) == {p \in Paths : Head(p) = r}

Ends(p) == Answer(p) \/ EndFetch(p) \/ Refuse(p) \/ Render(p)
Begins(p) == AnswerLocally(p) \/ FanOut(p)

Fairness == /\ WF_vars(Tick)
            /\ \A r \in Root : /\ WF_vars(\E p \in Walk(r) : Ends(p))
                               /\ SF_vars(\E p \in Walk(r) : Begins(p))

FairSpec == Spec /\ Fairness
-----------------------------------------------------------------------------
(* State and headers have the shape the handlers expect: every request     *)
(* carries a budget that is left and has one fetch per peer it asked.      *)
TypeOK ==
  /\ health \in [Node -> {"up", "down", "silent"}]
  /\ rev \in [Node -> 0..MaxRev]
  /\ since \in [Root -> [Node -> 0..MaxRev]]
  /\ late \subseteq Root
  /\ request = [p \in Paths |-> request[p]]
  /\ \A p \in Paths :
       LET c == request[p]
       IN  /\ p \in Seq(Node) /\ p # <<>> /\ Head(p) \in Root
           /\ c \in [visited : SUBSET Node, ttl : 0..MaxHops,
                     st : {"sent", "running", "answered", "refused"},
                     own : SUBSET Entry, got : {c.got}, list : SUBSET Entry]
           /\ DOMAIN c.got \subseteq Node
           /\ c.got \in [DOMAIN c.got -> Fetch]

Answered == {p \in Paths : request[p].st = "answered"}
Pages == {p \in Answered : Top(p)}

(* Every answer, relayed or not, credits each service to the node that     *)
(* owns it, and lists it once, by however many paths it came               *)
(* (_tag_origin and dedupe_services).                                      *)
Truthful ==
  \A p \in Answered :
    /\ \A e \in request[p].list : e.origin = e.owner
    /\ \A e, f \in request[p].list : Key(e) = Key(f) => e = f

(* A page is not older than its request: what it says of a service is what *)
(* the owner's catalogue said at that time or later, although the page is  *)
(* put together by several nodes (no copy of a catalogue is kept).         *)
Fresh ==
  \A p \in Pages : \A e \in request[p].list :
    since[Head(p)][e.owner] <= e.rev /\ e.rev <= rev[e.owner]

(* Both, while catalogues change during a walk (aggregate_services).       *)
TruthfulAndFresh == Truthful /\ Fresh

(* No chain of requests comes back to a node it passed, and none is longer *)
(* than the hop budget, however the nodes trust each other.                *)
LoopSafe == \A p \in Paths : IsInjective(p) /\ Len(p) <= MaxHops + 1

(* Reference: the nodes whose services belong on the page of r when the    *)
(* nodes that can be asked are those of S.                                 *)
Near(r, S) ==
  LET Admits(n, m) == m \in Guarded => n \in ToSet(Trust[m])
      near[h \in 0..MaxHops] ==
        IF h = 0 THEN {r}
        ELSE LET nearer == near[h - 1]
             IN  nearer \union {m \in S : \E n \in nearer \cap Federating :
                                            m \in ToSet(Trust[n]) /\ Admits(n, m)}
  IN  near[MaxHops]

InReach == [r \in Root |-> Near(r, Node)]
Keys(N) == UNION {{<<n, s>> : s \in Offers[n]} : n \in N}

(* A node that is up always renders its page, with its own services and    *)
(* those of nodes within the hop budget only, and the page lacks a node    *)
(* only because of that node or of a timeout: if none expired, the         *)
(* services of every node that is up, and to which nodes that are up lead, *)
(* are there (aggregate_services, _aggregation_result).                    *)
UpNodes == {n \in Node : health[n] = "up"}
Complete ==
  /\ \A p \in Paths : Top(p) /\ request[p].st = "refused" => health[Head(p)] = "down"
  /\ \A p \in Pages :
       LET page == {Key(e) : e \in request[p].list}
       IN  /\ Keys({Head(p)}) \subseteq page
           /\ page \subseteq Keys(InReach[Head(p)])
           /\ Head(p) \notin late => Keys(Near(Head(p), UpNodes)) \subseteq page

(* Where pages federate, a peer reported reachable (not among              *)
(* unreachable_peers of the same aggregation, federation_nodes and         *)
(* api_list_peers) is on the page with all its services.                   *)
Reported(p) == {m \in ToSet(Trust[Head(p)]) \ {Head(p)} :
                  ~(m \in DOMAIN request[p].got /\ request[p].got[m].st = "failed")}

ReachableIsShown ==
  \A p \in Pages :
    Head(p) \in Federating /\ MaxHops > 0
    => Keys(Reported(p)) \subseteq {Key(e) : e \in request[p].list}

(* A failing peer is omitted, and only that peer: nodes that need no time  *)
(* (Prompt) are on the page however long the others take.                  *)
HealthyIsShown ==
  \A p \in Pages :
    Keys(Near(Head(p), UpNodes)) \subseteq {Key(e) : e \in request[p].list}

(* A page that was asked for is rendered, whatever nodes fail and however  *)
(* the handlers of several pages wait for one another's threads; unless    *)
(* its own node hangs.                                                     *)
WalksEnd ==
  \A r \in Root : <<r>> \in Paths ~> (<<r>> \notin Paths \/ health[r] = "silent")
=============================================================================
