------------------------------- MODULE Pairing -------------------------------
(***************************************************************************)
(* The pairing handshake (pairing.py, the /api/federation/pair* handlers   *)
(* of app.py, cmd_pair of cli.py) and the trust stores it fills            *)
(* (trust_store.py), on several nodes.                                     *)
(*                                                                         *)
(* An attempt is one `pair` command or click: its client part runs on the  *)
(* node that presents the code, its server part in a pool thread of the    *)
(* node that issued it.  The client gives up after its timeout while the   *)
(* server goes on; the web process of a node may die, which loses its      *)
(* codes (they live in memory) and whatever its threads were doing, but    *)
(* not peers.json.  Neither PairingCodeStore nor trust_store.py takes a    *)
(* lock: redeem is a check followed by a mark, and an update of peers.json *)
(* is a load followed by a save.                                           *)
(*                                                                         *)
(* `overlap' is the load the nodes are under, fixed for the whole          *)
(* behaviour: "sections" when the store sections of a node may overlap, as *)
(* the code allows, "attempts" when only whole attempts do, "none" when    *)
(* one attempt is under way at a time.                                     *)
(***************************************************************************)
EXTENDS Naturals

CONSTANTS Node,          \* a node, also the name it gives in a handshake
          Code,          \* pairing codes
          Attempt,       \* uses of the pair command
          CodeTtl,       \* DEFAULT_PAIRING_TTL_SECONDS
          MaxTime,       \* bound on the clock
          MaxRestarts,   \* bound on the web process deaths of a run
          MaxRemovals    \* bound on the `peers remove` of a run

ASSUME PairingAssumption == /\ Node # {}
                            /\ Code # {}
                            /\ CodeTtl \in Nat
                            /\ MaxTime \in Nat
                            /\ MaxRestarts \in Nat
                            /\ MaxRemovals \in Nat

VARIABLES clock,         \* time.monotonic, the same on every node
          issued,        \* codes ever minted
          codes,         \* PairingCodeStore._codes of each node
          peers,         \* peers.json of each node
          attempt,       \* the arguments and the token of each attempt
          client,        \* where the client part of each attempt is
          server,        \* where the server part of each attempt is
          seen,          \* what each part loaded from its peers.json
          removal,       \* the `peers remove` under way on each node
          minted,        \* how many tokens were minted
          restarts,
          removals,
          removed,       \* observer: <<node, token>> of acknowledged removals
          overlap        \* what may happen at the same time

parts == <<attempt, client, server, seen>>
counts == <<restarts, removals>>
vars == <<clock, issued, codes, peers, parts, removal, minted, counts, removed, overlap>>
-----------------------------------------------------------------------------
NoToken == 0
Overlaps == {"none", "attempts", "sections"}
Tokens == Nat \ {NoToken}
PeerRecord == [name : Node, token : Tokens]
CodeEntry == [expires : Nat, used : BOOLEAN]
NoAttempt == [from |-> CHOOSE n \in Node : TRUE, to |-> CHOOSE n \in Node : TRUE,
              code |-> CHOOSE c \in Code : TRUE, token |-> NoToken]
NoRemoval == [busy |-> FALSE, name |-> CHOOSE n \in Node : TRUE, list |-> {}]

(* Mutant: a peer that is already known keeps its old record.              *)
UpsertedOnce(list, record) ==
  IF record.name \in {p.name : p \in list} THEN list ELSE list \union {record}

(* Mutant: the record is appended whatever was there.                      *)
UpsertedAppends(list, record) == list \union {record}

(* upsert_peer: the record replaces whatever had its name.                 *)
Upserted(list, record) == {p \in list : p.name # record.name} \union {record}

(* remove_peer.                                                            *)
Without(list, name) == {p \in list : p.name # name}

(* The parts that are between the load and the save of a peers.json, the   *)
(* redemption that precedes them included.                                 *)
ServingAt(n) == {a \in Attempt : /\ attempt[a].to = n
                                 /\ server[a] \in {"checked", "accepted", "loaded"}}
StoringAt(n) == {a \in Attempt : attempt[a].from = n /\ client[a] = "loaded"}
Busy(n) == \/ ServingAt(n) # {}
           \/ StoringAt(n) # {}
           \/ removal[n].busy
MayEnter(n) == overlap # "sections" => ~Busy(n)

(* The list a section saves, and those of the sections of a node that are  *)
(* about to.                                                               *)
ServerList(a) == Upserted(seen[a].server, [name |-> attempt[a].from, token |-> attempt[a].token])
ClientList(a) == Upserted(seen[a].client, [name |-> attempt[a].to, token |-> attempt[a].token])
RemovalList(n) == Without(removal[n].list, removal[n].name)
Pending(n) == {ServerList(a) : a \in {b \in ServingAt(n) : server[b] = "loaded"}}
                \union {ClientList(a) : a \in StoringAt(n)}
                \union {RemovalList(m) : m \in {k \in {n} : removal[k].busy}}

(* Two saves of one peers.json share peers.json.tmp (see DynamicRegistry): *)
(* one that overlaps another section may put the list of either in place,  *)
(* or a file that no longer parses, which load_peers takes for empty.  One *)
(* that finds the temporary file renamed away fails, but what it wrote may *)
(* have gone into the file that is now peers.json.  What a section that    *)
(* has ended left in the temporary file is taken to be gone.               *)
SaveOutcomes(n, list, alone) == IF alone THEN {list} ELSE {{}} \union Pending(n)
SaveFails(n, list, alone) ==
  /\ ~alone
  /\ \E left \in {peers[n], list, {}} : peers' = [peers EXCEPT ![n] = left]
AloneServing(a) == /\ ServingAt(attempt[a].to) = {a}
                   /\ StoringAt(attempt[a].to) = {}
                   /\ ~removal[attempt[a].to].busy
AloneStoring(a) == /\ ServingAt(attempt[a].from) = {}
                   /\ StoringAt(attempt[a].from) = {a}
                   /\ ~removal[attempt[a].from].busy
AloneRemoving(n) == ServingAt(n) = {} /\ StoringAt(n) = {}

Live(a) == \/ client[a] \in {"waiting", "received", "loaded"}
           \/ server[a] \in {"sent", "checked", "accepted", "loaded"}
-----------------------------------------------------------------------------
Init == /\ clock = 0
        /\ issued = {}
        /\ codes = [n \in Node |-> [c \in {} |-> c]]
        /\ peers = [n \in Node |-> {}]
        /\ attempt = [a \in Attempt |-> NoAttempt]
        /\ client = [a \in Attempt |-> "idle"]
        /\ server = [a \in Attempt |-> "idle"]
        /\ seen = [a \in Attempt |-> [client |-> {}, server |-> {}]]
        /\ removal = [n \in Node |-> NoRemoval]
        /\ minted = 0
        /\ restarts = 0
        /\ removals = 0
        /\ removed = {}
        /\ overlap \in Overlaps

Tick == /\ clock < MaxTime
        /\ clock' = clock + 1
        /\ UNCHANGED <<issued, codes, peers, parts, removal, minted, counts, removed>>

(* PairingCodeStore.issue, behind either of its two endpoints.             *)
Issue(n, c) ==
  /\ c \notin issued
  /\ issued' = issued \union {c}
  /\ codes' = [codes EXCEPT ![n] =
       [d \in DOMAIN @ \union {c} |->
          IF d = c THEN [expires |-> clock + CodeTtl, used |-> FALSE] ELSE @[d]]]
  /\ UNCHANGED <<clock, peers, parts, removal, minted, counts, removed>>

(* The client posts its identity and the code to the peer.                 *)
Send(a, n, m, c) ==
  /\ client[a] = "idle"
  /\ n # m
  /\ overlap = "none" => \A b \in Attempt : ~Live(b)
  /\ attempt' = [attempt EXCEPT ![a] = [from |-> n, to |-> m, code |-> c, token |-> NoToken]]
  /\ client' = [client EXCEPT ![a] = "waiting"]
  /\ server' = [server EXCEPT ![a] = "sent"]
  /\ UNCHANGED <<clock, issued, codes, peers, seen, removal, minted, counts, removed>>

(* A connection that is refused, or a request that gets lost.              *)
RequestLost(a) ==
  /\ server[a] = "sent"
  /\ server' = [server EXCEPT ![a] = "dead"]
  /\ UNCHANGED <<clock, issued, codes, peers, attempt, client, seen, removal,
                 minted, counts, removed>>

(* Mutant: a code that was used is still valid.                            *)
ValidAgain(n, c) == /\ c \in DOMAIN codes[n]
                    /\ clock < codes[n][c].expires

Valid(n, c) == /\ c \in DOMAIN codes[n]
               /\ ~codes[n][c].used
               /\ clock < codes[n][c].expires

(* redeem, up to its last test ...                                         *)
RedeemCheck(a) ==
  LET m == attempt[a].to IN
  /\ server[a] = "sent"
  /\ MayEnter(m)
  /\ server' = [server EXCEPT ![a] =
                  IF Valid(m, attempt[a].code) THEN "checked" ELSE "rejected"]
  /\ UNCHANGED <<clock, issued, codes, peers, attempt, client, seen, removal,
                 minted, counts, removed>>

(* Mutant: one token per node instead of one per pairing.                  *)
RedeemMarkShared(a) ==
  LET m == attempt[a].to
      c == attempt[a].code
      known == {attempt[b].token : b \in {d \in Attempt : attempt[d].to = m}} \ {NoToken}
  IN /\ server[a] = "checked"
     /\ codes' = [codes EXCEPT ![m][c].used = TRUE]
     /\ minted' = minted + 1
     /\ attempt' = [attempt EXCEPT ![a].token =
                      IF known = {} THEN minted + 1 ELSE CHOOSE t \in known : TRUE]
     /\ server' = [server EXCEPT ![a] = "accepted"]
     /\ UNCHANGED <<clock, issued, peers, client, seen, removal, counts, removed>>

(* Mutant: the token of a pairing is empty for the first one.              *)
RedeemMarkEmpty(a) ==
  LET m == attempt[a].to
      c == attempt[a].code
  IN /\ server[a] = "checked"
     /\ codes' = [codes EXCEPT ![m][c].used = TRUE]
     /\ minted' = minted + 1
     /\ attempt' = [attempt EXCEPT ![a].token = minted]
     /\ server' = [server EXCEPT ![a] = "accepted"]
     /\ UNCHANGED <<clock, issued, peers, client, seen, removal, counts, removed>>

(* ... and its mark; the pair handler then mints a token of its own for    *)
(* this caller.                                                            *)
RedeemMark(a) ==
  LET m == attempt[a].to
      c == attempt[a].code
  IN /\ server[a] = "checked"
     /\ codes' = [codes EXCEPT ![m][c].used = TRUE]
     /\ minted' = minted + 1
     /\ attempt' = [attempt EXCEPT ![a].token = minted + 1]
     /\ server' = [server EXCEPT ![a] = "accepted"]
     /\ UNCHANGED <<clock, issued, peers, client, seen, removal, counts, removed>>

ServerLoad(a) ==
  /\ server[a] = "accepted"
  /\ seen' = [seen EXCEPT ![a].server = peers[attempt[a].to]]
  /\ server' = [server EXCEPT ![a] = "loaded"]
  /\ UNCHANGED <<clock, issued, codes, peers, attempt, client, removal, minted,
                 counts, removed>>

(* The caller is recorded, and only then is the answer sent.               *)
ServerSave(a) ==
  LET m == attempt[a].to
  IN /\ server[a] = "loaded"
     /\ \E list \in SaveOutcomes(m, ServerList(a), AloneServing(a)) :
          peers' = [peers EXCEPT ![m] = list]
     /\ server' = [server EXCEPT ![a] = "answered"]
     /\ seen' = [seen EXCEPT ![a].server = {}]
     /\ UNCHANGED <<clock, issued, codes, attempt, client, removal, minted, counts, removed>>

(* Another save renamed the shared temporary file away: answered 500.      *)
ServerSaveFails(a) ==
  /\ server[a] = "loaded"
  /\ SaveFails(attempt[a].to, ServerList(a), AloneServing(a))
  /\ server' = [server EXCEPT ![a] = "rejected"]
  /\ seen' = [seen EXCEPT ![a].server = {}]
  /\ UNCHANGED <<clock, issued, codes, attempt, client, removal, minted, counts, removed>>

ClientReceives(a) ==
  /\ client[a] = "waiting"
  /\ server[a] = "answered"
  /\ client' = [client EXCEPT ![a] = "received"]
  /\ UNCHANGED <<clock, issued, codes, peers, attempt, server, seen, removal,
                 minted, counts, removed>>

(* The peer refused the code or failed: the attempt is answered 502.       *)
ClientRefused(a) ==
  /\ client[a] = "waiting"
  /\ server[a] = "rejected"
  /\ client' = [client EXCEPT ![a] = "failed"]
  /\ UNCHANGED <<clock, issued, codes, peers, attempt, server, seen, removal,
                 minted, counts, removed>>

(* Mutant: the call has no timeout.                                        *)
ClientWaits(a) == FALSE

(* The timeout of 5 s (cli.py) or 10 s (app.py), wherever the server is.   *)
ClientTimesOut(a) ==
  /\ client[a] = "waiting"
  /\ client' = [client EXCEPT ![a] = "failed"]
  /\ UNCHANGED <<clock, issued, codes, peers, attempt, server, seen, removal,
                 minted, counts, removed>>

ClientLoad(a) ==
  LET n == attempt[a].from IN
  /\ client[a] = "received"
  /\ MayEnter(n)
  /\ seen' = [seen EXCEPT ![a].client = peers[n]]
  /\ client' = [client EXCEPT ![a] = "loaded"]
  /\ UNCHANGED <<clock, issued, codes, peers, attempt, server, removal, minted,
                 counts, removed>>

ClientSave(a) ==
  LET n == attempt[a].from
  IN /\ client[a] = "loaded"
     /\ \E list \in SaveOutcomes(n, ClientList(a), AloneStoring(a)) :
          peers' = [peers EXCEPT ![n] = list]
     /\ client' = [client EXCEPT ![a] = "paired"]
     /\ seen' = [seen EXCEPT ![a].client = {}]
     /\ UNCHANGED <<clock, issued, codes, attempt, server, removal, minted, counts, removed>>

ClientSaveFails(a) ==
  /\ client[a] = "loaded"
  /\ SaveFails(attempt[a].from, ClientList(a), AloneStoring(a))
  /\ client' = [client EXCEPT ![a] = "failed"]
  /\ seen' = [seen EXCEPT ![a].client = {}]
  /\ UNCHANGED <<clock, issued, codes, attempt, server, removal, minted, counts, removed>>

(* remove_peer, from the command line or the API.  A bound: a node has one *)
(* removal under way at a time, though nothing keeps a second from running *)
(* beside it.                                                              *)
RemoveLoad(n, name) ==
  /\ ~removal[n].busy
  /\ MayEnter(n)
  /\ removals < MaxRemovals
  /\ name \in {p.name : p \in peers[n]}
  /\ removal' = [removal EXCEPT ![n] = [busy |-> TRUE, name |-> name, list |-> peers[n]]]
  /\ removals' = removals + 1
  /\ UNCHANGED <<clock, issued, codes, peers, parts, minted, restarts, removed>>

(* Mutant: an empty list is not saved.                                     *)
RemoveSaveKeepsLast(n) ==
  LET r == removal[n] IN
  /\ r.busy
  /\ peers' = IF Without(r.list, r.name) = {} THEN peers
              ELSE [peers EXCEPT ![n] = Without(r.list, r.name)]
  /\ removal' = [removal EXCEPT ![n] = NoRemoval]
  /\ removed' = removed \union {<<n, p.token>> : p \in {q \in r.list : q.name = r.name}}
  /\ UNCHANGED <<clock, issued, codes, parts, minted, counts>>

RemoveSave(n) ==
  LET r == removal[n] IN
  /\ r.busy
  /\ \E list \in SaveOutcomes(n, RemovalList(n), AloneRemoving(n)) :
       peers' = [peers EXCEPT ![n] = list]
  /\ removal' = [removal EXCEPT ![n] = NoRemoval]
  /\ removed' = removed \union {<<n, p.token>> : p \in {q \in r.list : q.name = r.name}}
  /\ UNCHANGED <<clock, issued, codes, parts, minted, counts>>

RemoveFails(n) ==
  /\ removal[n].busy
  /\ SaveFails(n, RemovalList(n), AloneRemoving(n))
  /\ removal' = [removal EXCEPT ![n] = NoRemoval]
  /\ UNCHANGED <<clock, issued, codes, parts, minted, counts, removed>>

(* The web process of n dies and is started again: its codes and threads   *)
(* are gone.  The attempts in gone were API calls of n and die with it;    *)
(* the others were commands of their own process.                          *)
Restart(n) ==
  /\ restarts < MaxRestarts
  /\ restarts' = restarts + 1
  /\ codes' = [codes EXCEPT ![n] = [c \in {} |-> c]]
  /\ \E gone \in SUBSET {a \in Attempt : /\ attempt[a].from = n
                                         /\ client[a] \in {"waiting", "received", "loaded"}} :
       /\ client' = [a \in Attempt |-> IF a \in gone THEN "failed" ELSE client[a]]
       /\ server' = [a \in Attempt |->
            IF attempt[a].to = n /\ server[a] \in {"sent", "checked", "accepted", "loaded"}
            THEN "dead" ELSE server[a]]
       /\ seen' = [a \in Attempt |->
            [client |-> IF a \in gone THEN {} ELSE seen[a].client,
             server |-> IF attempt[a].to = n THEN {} ELSE seen[a].server]]
  /\ \/ UNCHANGED removal
     \/ removal' = [removal EXCEPT ![n] = NoRemoval]
  /\ UNCHANGED <<clock, issued, peers, attempt, minted, removals, removed>>

Next == /\ \/ Tick
           \/ \E n \in Node : \/ \E c \in Code : Issue(n, c)
                              \/ \E m \in Node : RemoveLoad(n, m)
                              \/ RemoveSave(n)
                              \/ RemoveFails(n)
                              \/ Restart(n)
           \/ \E a \in Attempt : \/ \E n, m \in Node, c \in Code : Send(a, n, m, c)
                                 \/ RequestLost(a)
                                 \/ RedeemCheck(a)
                                 \/ RedeemMark(a)
                                 \/ ServerLoad(a)
                                 \/ ServerSave(a)
                                 \/ ServerSaveFails(a)
                                 \/ ClientReceives(a)
                                 \/ ClientRefused(a)
                                 \/ ClientTimesOut(a)
                                 \/ ClientLoad(a)
                                 \/ ClientSave(a)
                                 \/ ClientSaveFails(a)
        /\ UNCHANGED overlap

Spec == Init /\ [][Next]_vars

(* A thread that can run is scheduled, and a timeout expires.  Whether a   *)
(* request arrives, or a process dies, is nobody's promise.                *)
Fairness ==
  /\ \A a \in Attempt : /\ WF_vars(RedeemMark(a) /\ UNCHANGED overlap)
                        /\ WF_vars(ServerLoad(a) /\ UNCHANGED overlap)
                        /\ WF_vars(ServerSave(a) /\ UNCHANGED overlap)
                        /\ WF_vars(ClientTimesOut(a) /\ UNCHANGED overlap)
                        /\ WF_vars(ClientLoad(a) /\ UNCHANGED overlap)
                        /\ WF_vars(ClientSave(a) /\ UNCHANGED overlap)
  /\ \A n \in Node : WF_vars(RemoveSave(n) /\ UNCHANGED overlap)

FairSpec == Spec /\ Fairness
-----------------------------------------------------------------------------
ClientStates == {"idle", "waiting", "received", "loaded", "paired", "failed"}
ServerStates == {"idle", "sent", "checked", "accepted", "loaded", "answered",
                 "rejected", "dead"}

CodesOK ==
  /\ DOMAIN codes = Node
  /\ \A n \in Node : /\ DOMAIN codes[n] \subseteq issued
                     /\ codes[n] \in [DOMAIN codes[n] -> CodeEntry]

(* Type invariant; a stored record always carries a token (NoToken is the  *)
(* empty string, which find_peer_by_token never accepts).                  *)
TypeOK ==
  /\ clock \in 0 .. MaxTime
  /\ issued \subseteq Code
  /\ CodesOK
  /\ peers \in [Node -> SUBSET PeerRecord]
  /\ attempt \in [Attempt -> [from : Node, to : Node, code : Code, token : Nat]]
  /\ client \in [Attempt -> ClientStates]
  /\ server \in [Attempt -> ServerStates]
  /\ seen \in [Attempt -> [client : SUBSET PeerRecord, server : SUBSET PeerRecord]]
  /\ removal \in [Node -> [busy : BOOLEAN, name : Node, list : SUBSET PeerRecord]]
  /\ minted \in Nat
  /\ restarts \in 0 .. MaxRestarts
  /\ removals \in 0 .. MaxRemovals
  /\ removed \subseteq Node \X Tokens
  /\ overlap \in Overlaps

(* A trust store never holds two records of one name, however its updates  *)
(* interleave (upsert_peer filters the list it loaded, not the one it      *)
(* replaces).                                                              *)
OneRecordPerName ==
  \A n \in Node : \A p, q \in peers[n] : p.name = q.name => p = q

(* Each trusted peer has its own token: one that a node accepts was minted *)
(* in a handshake of exactly that node with exactly that peer, and names   *)
(* no other peer (trust_store.py: find_peer_by_token; app.py: pair).       *)
OwnToken ==
  \A n \in Node : \A p \in peers[n] :
     /\ \A q \in peers[n] : p.token = q.token => p.name = q.name
     /\ \E a \in Attempt : /\ attempt[a].token = p.token
                           /\ {attempt[a].from, attempt[a].to} = {n, p.name}

(* redeem returns True at most once for a code, whoever presents it and    *)
(* whatever restarts.                                                      *)
RedeemedOnce ==
  \A a, b \in Attempt :
     /\ attempt[a].token # NoToken
     /\ attempt[b].token # NoToken
     /\ attempt[a].code = attempt[b].code
     => a = b

(* Without overlapping store sections a code is redeemed once, through     *)
(* expiry and a restart (pairing.py: redeem).                              *)
CodesWorkOnce == overlap # "sections" => RedeemedOnce

(* After a handshake that reported success, both nodes hold its token for  *)
(* each other, until one of them removes it or a later handshake of the    *)
(* two replaces it (app.py: pair, "using the same per-peer secret").       *)
Superseded(a) ==
  \E b \in Attempt : /\ attempt[b].token > attempt[a].token
                     /\ {attempt[b].from, attempt[b].to} = {attempt[a].from, attempt[a].to}
Holds(n, m, t) == \/ [name |-> m, token |-> t] \in peers[n]
                  \/ <<n, t>> \in removed
MutualTrust ==
  \A a \in Attempt :
     client[a] = "paired" /\ ~Superseded(a)
     => /\ Holds(attempt[a].from, attempt[a].to, attempt[a].token)
        /\ Holds(attempt[a].to, attempt[a].from, attempt[a].token)

(* One handshake at a time leaves both nodes with the one token, whatever  *)
(* is lost on the way (app.py: pair, api_pair_with_peer).                  *)
PairedBothWays == overlap = "none" => MutualTrust

(* What `peers remove` acknowledged stays removed: the token it named is   *)
(* in no later trust store of that node (trust_store.py: load_peers).      *)
RemovedStaysOut ==
  \A n \in Node : \A p \in peers[n] : <<n, p.token>> \notin removed

(* Without overlapping store sections an acknowledged removal is not       *)
(* undone by a later update of the trust store (trust_store.py:            *)
(* remove_peer).                                                           *)
RemovalsHold == overlap # "sections" => RemovedStaysOut

(* Every attempt is answered, and its handler leaves the server, whatever  *)
(* is lost.                                                                *)
AttemptsEnd ==
  \A a \in Attempt :
     /\ client[a] = "waiting" ~> client[a] \in {"paired", "failed"}
     /\ server[a] = "checked" ~> server[a] \in {"answered", "rejected", "dead"}
-----------------------------------------------------------------------------
(* The inductive invariant behind the safety properties.  Every list of    *)
(* records a part holds, not only the stored one, is sound: it names each  *)
(* peer once, with a token minted for it.                                  *)
Minted(all, n, p) == \E a \in Attempt : /\ all[a].token = p.token
                                        /\ {all[a].from, all[a].to} = {n, p.name}
Sound(all, n, list) == /\ \A p, q \in list : p.name = q.name => p = q
                       /\ \A p \in list : Minted(all, n, p)

ListInv ==
  /\ \A n \in Node : /\ Sound(attempt, n, peers[n])
                     /\ removal[n].busy => Sound(attempt, n, removal[n].list)
  /\ \A a \in Attempt :
       /\ server[a] = "loaded" => Sound(attempt, attempt[a].to, seen[a].server)
       /\ client[a] = "loaded" => Sound(attempt, attempt[a].from, seen[a].client)

(* A token is minted once, by the part that redeemed the code.             *)
TokenInv ==
  /\ \A a \in Attempt : attempt[a].token <= minted
  /\ \A a, b \in Attempt :
       attempt[a].token # NoToken /\ attempt[a].token = attempt[b].token => a = b

PhaseInv ==
  \A a \in Attempt :
     /\ client[a] = "idle" => server[a] = "idle"
     /\ server[a] \in {"idle", "sent", "checked"} => attempt[a].token = NoToken
     /\ server[a] \in {"accepted", "loaded", "answered"} => attempt[a].token # NoToken
     /\ client[a] \in {"received", "loaded", "paired"} => attempt[a].token # NoToken

(* A code is known to one node; the redemption of it is on record there as *)
(* long as the code is.                                                    *)
CodeInv ==
  /\ \A n, m \in Node : \A c \in Code : c \in DOMAIN codes[n] /\ c \in DOMAIN codes[m] => n = m
  /\ \A a \in Attempt :
       /\ server[a] = "checked" => attempt[a].code \in DOMAIN codes[attempt[a].to]
       /\ attempt[a].token # NoToken
          => /\ attempt[a].code \in issued
             /\ \A n \in Node : attempt[a].code \in DOMAIN codes[n]
                               => codes[n][attempt[a].code].used

ExclusiveInv ==
  overlap # "sections" =>
    /\ \A a, b \in Attempt :
         /\ attempt[a].to = attempt[b].to
         /\ server[a] \in {"checked", "accepted", "loaded"}
         /\ server[b] \in {"checked", "accepted", "loaded"}
         => a = b
    /\ \A a \in Attempt : server[a] = "checked"
                          => ~codes[attempt[a].to][attempt[a].code].used
    /\ RedeemedOnce

(* Where store sections do not overlap, the list in a section is the one   *)
(* in the file, ...                                                        *)
Serves(a, n) == attempt[a].to = n /\ server[a] \in {"checked", "accepted", "loaded"}
Stores(a, n) == attempt[a].from = n /\ client[a] = "loaded"

OneSection ==
  \A n \in Node :
    /\ \A a, b \in Attempt : Serves(a, n) /\ Serves(b, n) => a = b
    /\ \A a, b \in Attempt : Stores(a, n) /\ Stores(b, n) => a = b
    /\ \A a, b \in Attempt : ~(Serves(a, n) /\ Stores(b, n))
    /\ removal[n].busy => \A a \in Attempt : ~Serves(a, n) /\ ~Stores(a, n)

Current ==
  /\ \A a \in Attempt : /\ server[a] = "loaded" => seen[a].server = peers[attempt[a].to]
                        /\ client[a] = "loaded" => seen[a].client = peers[attempt[a].from]
  /\ \A n \in Node : removal[n].busy => removal[n].list = peers[n]

(* ... and the part that stores a token at a node has done so before the   *)
(* token is in its file, or is removed from it.                            *)
Settled(n, t) ==
  \E a \in Attempt :
    /\ attempt[a].token = t
    /\ attempt[a].from # attempt[a].to
    /\ \/ attempt[a].to = n /\ server[a] \in {"answered", "rejected", "dead"}
       \/ attempt[a].from = n /\ client[a] \in {"paired", "failed"}

RemovedInv ==
  /\ \A a \in Attempt : client[a] # "idle" => attempt[a].from # attempt[a].to
  /\ \A n \in Node : \A p \in peers[n] : Settled(n, p.token)
  /\ \A r \in removed : Settled(r[1], r[2])
  /\ RemovedStaysOut

SectionInv == overlap # "sections" => OneSection /\ Current /\ RemovedInv

(* With one attempt at a time, the attempt under way has the newest token, *)
(* and each half of a handshake is stored when its part says so.           *)
TrustInv ==
  /\ \A a, b \in Attempt : Live(a) /\ Live(b) => a = b
  /\ \A a \in Attempt : Live(a) /\ attempt[a].token # NoToken => attempt[a].token = minted
  /\ \A a \in Attempt :
       /\ client[a] \in {"received", "loaded", "paired"} => server[a] = "answered"
       /\ ~Superseded(a) =>
            /\ server[a] = "answered" => Holds(attempt[a].to, attempt[a].from, attempt[a].token)
            /\ client[a] = "paired" => Holds(attempt[a].from, attempt[a].to, attempt[a].token)

SerialInv == overlap = "none" => TrustInv

IInv == /\ TypeOK
        /\ TokenInv
        /\ PhaseInv
        /\ ListInv
        /\ CodeInv
        /\ ExclusiveInv
        /\ SectionInv
        /\ SerialInv
=============================================================================
