---------------------------- MODULE PairingProofs ----------------------------
(***************************************************************************)
(* Proofs about Pairing, for any nodes, codes, attempts, restarts and      *)
(* removals, and every interleaving of the parts.                          *)
(***************************************************************************)
EXTENDS Pairing, TLAPS

LEMMA Inhabited ==
  /\ (CHOOSE n \in Node : TRUE) \in Node
  /\ (CHOOSE c \in Code : TRUE) \in Code
BY PairingAssumption

LEMMA Bounds ==
  /\ MaxTime \in Nat /\ CodeTtl \in Nat /\ MaxRestarts \in Nat /\ MaxRemovals \in Nat
BY PairingAssumption

(* The step of one attempt, or of none.                                    *)
Attempting(a) == \/ \E n, m \in Node, c \in Code : Send(a, n, m, c)
                 \/ RequestLost(a)
                 \/ RedeemCheck(a)
                 \/ RedeemMark(a)
                 \/ ServerLoad(a)
                 \/ ServerSave(a)
                 \/ ServerSaveFails(a)
                 \/ ClientReceives(a)
                 \/ ClientRefused(a)
                 \/ ClientTimesOut(a)
                 \/ ClientLoad(a)
                 \/ ClientSave(a)
                 \/ ClientSaveFails(a)
-----------------------------------------------------------------------------
(* What the updates of a list of records keep.                             *)

LEMMA UpdateTypes ==
  ASSUME NEW list \in SUBSET PeerRecord, NEW record \in PeerRecord, NEW name
  PROVE  /\ Upserted(list, record) \in SUBSET PeerRecord
         /\ Without(list, name) \in SUBSET PeerRecord
BY DEF Upserted, Without

(* A sound list stays sound while the tokens it holds keep their attempt.  *)
LEMMA SoundKept ==
  ASSUME NEW all, NEW now, NEW n, NEW list \in SUBSET PeerRecord,
         Sound(all, n, list),
         \A a \in Attempt : all[a].token # NoToken
            => /\ now[a].token = all[a].token
               /\ now[a].from = all[a].from
               /\ now[a].to = all[a].to
  PROVE  Sound(now, n, list)
<1>1. ASSUME NEW p \in list PROVE Minted(now, n, p)
  <2>1. PICK a \in Attempt : /\ all[a].token = p.token
                             /\ {all[a].from, all[a].to} = {n, p.name}
    BY DEF Sound, Minted
  <2>2. p.token # NoToken
    BY DEF PeerRecord, Tokens
  <2> QED BY <2>1, <2>2 DEF Minted
<1> QED BY <1>1 DEF Sound

LEMMA SoundEmpty == ASSUME NEW all, NEW n PROVE Sound(all, n, {})
BY DEF Sound

LEMMA SoundUpserted ==
  ASSUME NEW all, NEW n, NEW list, NEW x, NEW a \in Attempt,
         Sound(all, n, list), {all[a].from, all[a].to} = {n, x}
  PROVE  Sound(all, n, Upserted(list, [name |-> x, token |-> all[a].token]))
<1> DEFINE r == [name |-> x, token |-> all[a].token]
<1>1. r.name = x /\ r.token = all[a].token
  OBVIOUS
<1> HIDE DEF r
<1>2. Minted(all, n, r)
  BY <1>1 DEF Minted
<1>3. Sound(all, n, Upserted(list, r))
  BY <1>2 DEF Sound, Upserted
<1> QED BY <1>3 DEF r

LEMMA SoundWithout ==
  ASSUME NEW all, NEW n, NEW list, NEW x, Sound(all, n, list)
  PROVE  Sound(all, n, Without(list, x))
BY DEF Sound, Without

(* The list a section is about to save is sound for the node it is of, and *)
(* so is whatever a save, complete or not, may then leave there.           *)
LEMMA ListsSound ==
  ASSUME ListInv
  PROVE  /\ \A a \in Attempt : server[a] = "loaded" => Sound(attempt, attempt[a].to, ServerList(a))
         /\ \A a \in Attempt : client[a] = "loaded" => Sound(attempt, attempt[a].from, ClientList(a))
         /\ \A n \in Node : removal[n].busy => Sound(attempt, n, RemovalList(n))
<1>1. ASSUME NEW a \in Attempt, server[a] = "loaded"
      PROVE  Sound(attempt, attempt[a].to, ServerList(a))
  <2> DEFINE m == attempt[a].to
             x == attempt[a].from
  <2>1. Sound(attempt, m, seen[a].server)
    BY <1>1 DEF ListInv
  <2>2. {attempt[a].from, attempt[a].to} = {m, x}
    OBVIOUS
  <2> HIDE DEF m, x
  <2>3. Sound(attempt, m, Upserted(seen[a].server, [name |-> x, token |-> attempt[a].token]))
    BY <2>1, <2>2, SoundUpserted
  <2> QED BY <2>3 DEF ServerList, m, x
<1>2. ASSUME NEW a \in Attempt, client[a] = "loaded"
      PROVE  Sound(attempt, attempt[a].from, ClientList(a))
  <2> DEFINE m == attempt[a].from
             x == attempt[a].to
  <2>1. Sound(attempt, m, seen[a].client)
    BY <1>2 DEF ListInv
  <2>2. {attempt[a].from, attempt[a].to} = {m, x}
    OBVIOUS
  <2> HIDE DEF m, x
  <2>3. Sound(attempt, m, Upserted(seen[a].client, [name |-> x, token |-> attempt[a].token]))
    BY <2>1, <2>2, SoundUpserted
  <2> QED BY <2>3 DEF ClientList, m, x
<1>3. ASSUME NEW n \in Node, removal[n].busy PROVE Sound(attempt, n, RemovalList(n))
  <2>1. Sound(attempt, n, removal[n].list)
    BY <1>3 DEF ListInv
  <2> QED BY <2>1, SoundWithout DEF RemovalList
<1> QED BY <1>1, <1>2, <1>3

LEMMA OutcomeSound ==
  ASSUME ListInv, NEW n \in Node, NEW list, Sound(attempt, n, list), NEW alone,
         NEW out \in SaveOutcomes(n, list, alone)
  PROVE  Sound(attempt, n, out)
<1>1. ASSUME out \in Pending(n) PROVE Sound(attempt, n, out)
  BY <1>1, ListsSound DEF Pending, ServingAt, StoringAt
<1> QED BY <1>1, SoundEmpty DEF SaveOutcomes

(* A save that fails leaves a sound list, too.                             *)
LEMMA FailSound ==
  ASSUME ListInv, peers \in [Node -> SUBSET PeerRecord], NEW n \in Node,
         NEW list, Sound(attempt, n, list), NEW alone, SaveFails(n, list, alone)
  PROVE  Sound(attempt, n, peers'[n]) /\ \A m \in Node \ {n} : peers'[m] = peers[m]
<1>1. PICK left \in {peers[n], list, {}} : peers' = [peers EXCEPT ![n] = left]
  BY DEF SaveFails
<1>2. Sound(attempt, n, left)
  BY SoundEmpty DEF ListInv
<1> QED BY <1>1, <1>2
-----------------------------------------------------------------------------
(* Types.                                                                  *)

LEMMA TypeInit == Init => TypeOK
<1> SUFFICES ASSUME Init PROVE TypeOK
  OBVIOUS
<1>1. NoAttempt \in [from : Node, to : Node, code : Code, token : Nat]
  BY Inhabited DEF NoAttempt, NoToken
<1>2. NoRemoval \in [busy : BOOLEAN, name : Node, list : SUBSET PeerRecord]
  BY Inhabited DEF NoRemoval
<1>3. CodesOK
  BY DEF Init, CodesOK
<1> QED BY <1>1, <1>2, <1>3, Bounds DEF Init, TypeOK, ClientStates, ServerStates

LEMMA CodesKept == CodesOK /\ UNCHANGED <<issued, codes>> => CodesOK'
BY DEF CodesOK

LEMMA CodesNext == TypeOK /\ [Next]_vars => CodesOK'
<1> SUFFICES ASSUME TypeOK, [Next]_vars PROVE CodesOK'
  OBVIOUS
<1>1. ASSUME NEW n \in Node, NEW c \in Code, Issue(n, c) PROVE CodesOK'
  <2>1. codes'[n] \in [DOMAIN codes[n] \union {c} -> CodeEntry]
    BY <1>1, Bounds DEF Issue, CodeEntry, TypeOK, CodesOK
  <2>2. \A m \in Node : m # n => codes'[m] = codes[m]
    BY <1>1 DEF Issue, TypeOK, CodesOK
  <2>3. DOMAIN codes' = Node
    BY <1>1 DEF Issue, TypeOK, CodesOK
  <2>4. issued' = issued \union {c}
    BY <1>1 DEF Issue
  <2>5. DOMAIN codes'[n] = DOMAIN codes[n] \union {c}
    BY <2>1
  <2>6. ASSUME NEW m \in Node
        PROVE  DOMAIN codes'[m] \subseteq issued' /\ codes'[m] \in [DOMAIN codes'[m] -> CodeEntry]
    <3>1. CASE m = n
      BY <3>1, <2>1, <2>4, <2>5 DEF TypeOK, CodesOK
    <3>2. CASE m # n
      BY <3>2, <2>2, <2>4 DEF TypeOK, CodesOK
    <3> QED BY <3>1, <3>2
  <2> QED BY <2>3, <2>6 DEF CodesOK
<1>2. ASSUME NEW a \in Attempt, RedeemMark(a) PROVE CodesOK'
  <2> DEFINE m == attempt[a].to
             c == attempt[a].code
             new == [codes[m] EXCEPT ![c].used = TRUE]
  <2>1. m \in Node /\ codes' = [codes EXCEPT ![m] = new] /\ issued' = issued
    BY <1>2 DEF RedeemMark, TypeOK
  <2>2. codes[m] \in [DOMAIN codes[m] -> CodeEntry] /\ DOMAIN codes[m] \subseteq issued
    BY <2>1 DEF TypeOK, CodesOK
  <2>3. new \in [DOMAIN codes[m] -> CodeEntry] /\ DOMAIN new = DOMAIN codes[m]
    BY <2>2 DEF CodeEntry
  <2> HIDE DEF new
  <2> QED BY <2>1, <2>2, <2>3 DEF TypeOK, CodesOK
<1>3. ASSUME NEW n \in Node, Restart(n) PROVE CodesOK'
  <2>1. /\ DOMAIN codes' = Node
        /\ codes'[n] = [c \in {} |-> c]
        /\ \A m \in Node : m # n => codes'[m] = codes[m]
    BY <1>3 DEF Restart, TypeOK, CodesOK
  <2>2. codes'[n] \in [{} -> CodeEntry] /\ DOMAIN codes'[n] = {}
    BY <2>1
  <2> QED BY <1>3, <2>1, <2>2 DEF Restart, TypeOK, CodesOK
<1>4. CASE UNCHANGED <<issued, codes>>
  BY <1>4, CodesKept DEF TypeOK
<1> QED
  BY <1>1, <1>2, <1>3, <1>4
  DEF Next, vars, Tick, RemoveLoad, RemoveSave, RemoveFails, Send, RequestLost, RedeemCheck,
      ServerLoad, ServerSave, ServerSaveFails, ClientReceives, ClientRefused, ClientTimesOut,
      ClientLoad, ClientSave, ClientSaveFails

(* The rest of TypeOK.                                                     *)
RestOK ==
  /\ clock \in 0 .. MaxTime
  /\ issued \subseteq Code
  /\ peers \in [Node -> SUBSET PeerRecord]
  /\ attempt \in [Attempt -> [from : Node, to : Node, code : Code, token : Nat]]
  /\ client \in [Attempt -> ClientStates]
  /\ server \in [Attempt -> ServerStates]
  /\ seen \in [Attempt -> [client : SUBSET PeerRecord, server : SUBSET PeerRecord]]
  /\ removal \in [Node -> [busy : BOOLEAN, name : Node, list : SUBSET PeerRecord]]
  /\ minted \in Nat
  /\ restarts \in 0 .. MaxRestarts
  /\ removals \in 0 .. MaxRemovals
  /\ removed \subseteq Node \X Tokens

(* What a save may leave in peers.json is a list of records.               *)
LEMMA ListTypes ==
  ASSUME RestOK, PhaseInv
  PROVE  /\ \A a \in Attempt : server[a] = "loaded" => ServerList(a) \in SUBSET PeerRecord
         /\ \A a \in Attempt : client[a] = "loaded" => ClientList(a) \in SUBSET PeerRecord
         /\ \A n \in Node : RemovalList(n) \in SUBSET PeerRecord
<1>1. ASSUME NEW a \in Attempt, server[a] = "loaded" \/ client[a] = "loaded", NEW x \in Node
      PROVE  [name |-> x, token |-> attempt[a].token] \in PeerRecord
  BY <1>1 DEF RestOK, PeerRecord, Tokens, PhaseInv
<1>2. \A a \in Attempt : /\ attempt[a].from \in Node /\ attempt[a].to \in Node
                         /\ seen[a].server \in SUBSET PeerRecord
                         /\ seen[a].client \in SUBSET PeerRecord
  BY DEF RestOK
<1>3. \A n \in Node : removal[n].list \in SUBSET PeerRecord
  BY DEF RestOK
<1>4. ASSUME NEW a \in Attempt, server[a] = "loaded" PROVE ServerList(a) \in SUBSET PeerRecord
  <2>1. [name |-> attempt[a].from, token |-> attempt[a].token] \in PeerRecord
    BY <1>1, <1>2, <1>4
  <2> QED BY <1>2, <2>1, UpdateTypes DEF ServerList
<1>5. ASSUME NEW a \in Attempt, client[a] = "loaded" PROVE ClientList(a) \in SUBSET PeerRecord
  <2>1. [name |-> attempt[a].to, token |-> attempt[a].token] \in PeerRecord
    BY <1>1, <1>2, <1>5
  <2> QED BY <1>2, <2>1, UpdateTypes DEF ClientList
<1>6. \A n \in Node : RemovalList(n) \in SUBSET PeerRecord
  BY <1>3 DEF RemovalList, Without
<1> QED BY <1>4, <1>5, <1>6

LEMMA OutcomeTypes ==
  ASSUME RestOK, PhaseInv, NEW n \in Node, NEW list \in SUBSET PeerRecord, NEW alone,
         NEW out \in SaveOutcomes(n, list, alone)
  PROVE  out \in SUBSET PeerRecord
<1>1. ASSUME out \in Pending(n) PROVE out \in SUBSET PeerRecord
  BY <1>1, ListTypes DEF Pending, ServingAt, StoringAt
<1> QED BY <1>1 DEF SaveOutcomes

LEMMA FailTypes ==
  ASSUME RestOK, NEW n \in Node, NEW list \in SUBSET PeerRecord, NEW alone,
         SaveFails(n, list, alone)
  PROVE  peers' \in [Node -> SUBSET PeerRecord]
BY DEF SaveFails, RestOK

LEMMA TypeAttempt ==
  ASSUME RestOK, NEW a \in Attempt, Attempting(a), PhaseInv
  PROVE  RestOK'
<1> USE DEF RestOK, ClientStates, ServerStates
<1>1. ASSUME NEW n \in Node, NEW m \in Node, NEW c \in Code, Send(a, n, m, c) PROVE RestOK'
  <2>1. [from |-> n, to |-> m, code |-> c, token |-> NoToken]
          \in [from : Node, to : Node, code : Code, token : Nat]
    BY DEF NoToken
  <2> QED BY <1>1, <2>1 DEF Send, counts
<1>2. CASE RequestLost(a)
  BY <1>2 DEF RequestLost, counts
<1>3. CASE RedeemCheck(a)
  BY <1>3 DEF RedeemCheck, counts
<1>4. CASE RedeemMark(a)
  BY <1>4 DEF RedeemMark, counts
<1>5. CASE ServerLoad(a)
  BY <1>5 DEF ServerLoad, counts
<1>6. CASE ServerSave(a)
  <2>1. PICK list \in SaveOutcomes(attempt[a].to, ServerList(a), AloneServing(a)) :
          peers' = [peers EXCEPT ![attempt[a].to] = list]
    BY <1>6 DEF ServerSave
  <2>2. ServerList(a) \in SUBSET PeerRecord /\ attempt[a].to \in Node
    BY <1>6, ListTypes DEF ServerSave
  <2>3. list \in SUBSET PeerRecord
    BY <2>2, OutcomeTypes
  <2>4. peers' \in [Node -> SUBSET PeerRecord]
    BY <2>1, <2>3
  <2> QED BY <1>6, <2>4 DEF ServerSave, counts
<1>7. CASE ServerSaveFails(a)
  <2>1. ServerList(a) \in SUBSET PeerRecord /\ attempt[a].to \in Node
    BY <1>7, ListTypes DEF ServerSaveFails
  <2>2. peers' \in [Node -> SUBSET PeerRecord]
    BY <1>7, <2>1, FailTypes DEF ServerSaveFails
  <2> QED BY <1>7, <2>2 DEF ServerSaveFails, counts
<1>8. CASE ClientReceives(a)
  BY <1>8 DEF ClientReceives, counts
<1>9. CASE ClientRefused(a)
  BY <1>9 DEF ClientRefused, counts
<1>10. CASE ClientTimesOut(a)
  BY <1>10 DEF ClientTimesOut, counts
<1>11. CASE ClientLoad(a)
  BY <1>11 DEF ClientLoad, counts
<1>12. CASE ClientSave(a)
  <2>1. PICK list \in SaveOutcomes(attempt[a].from, ClientList(a), AloneStoring(a)) :
          peers' = [peers EXCEPT ![attempt[a].from] = list]
    BY <1>12 DEF ClientSave
  <2>2. ClientList(a) \in SUBSET PeerRecord /\ attempt[a].from \in Node
    BY <1>12, ListTypes DEF ClientSave
  <2>3. list \in SUBSET PeerRecord
    BY <2>2, OutcomeTypes
  <2>4. peers' \in [Node -> SUBSET PeerRecord]
    BY <2>1, <2>3
  <2> QED BY <1>12, <2>4 DEF ClientSave, counts
<1>13. CASE ClientSaveFails(a)
  <2>1. ClientList(a) \in SUBSET PeerRecord /\ attempt[a].from \in Node
    BY <1>13, ListTypes DEF ClientSaveFails
  <2>2. peers' \in [Node -> SUBSET PeerRecord]
    BY <1>13, <2>1, FailTypes DEF ClientSaveFails
  <2> QED BY <1>13, <2>2 DEF ClientSaveFails, counts
<1> QED BY <1>1, <1>2, <1>3, <1>4, <1>5, <1>6, <1>7, <1>8, <1>9, <1>10, <1>11, <1>12, <1>13
        DEF Attempting

LEMMA TypeNext == TypeOK /\ PhaseInv /\ [Next]_vars => TypeOK'
<1> SUFFICES ASSUME TypeOK, PhaseInv, [Next]_vars PROVE TypeOK'
  OBVIOUS
<1>0. NoRemoval \in [busy : BOOLEAN, name : Node, list : SUBSET PeerRecord]
  BY Inhabited DEF NoRemoval
<1>r. RestOK
  BY DEF TypeOK, RestOK
<1>q. overlap' \in Overlaps
  BY DEF Next, vars, TypeOK
<1>s. SUFFICES RestOK'
  BY <1>q, CodesNext DEF TypeOK, RestOK
<1> USE DEF RestOK, ClientStates, ServerStates
<1>1. CASE Tick
  BY <1>r, <1>1, Bounds DEF Tick, parts, counts
<1>2. ASSUME NEW n \in Node, NEW c \in Code, Issue(n, c) PROVE RestOK'
  BY <1>r, <1>2 DEF Issue, parts, counts
<1>3. ASSUME NEW n \in Node, NEW m \in Node, RemoveLoad(n, m) PROVE RestOK'
  BY <1>r, <1>3, Bounds DEF RemoveLoad, parts, counts
<1>4. ASSUME NEW n \in Node, RemoveSave(n) PROVE RestOK'
  <2>1. removal[n].list \in SUBSET PeerRecord
    BY <1>r
  <2>2. peers' \in [Node -> SUBSET PeerRecord]
    <3>1. PICK list \in SaveOutcomes(n, RemovalList(n), AloneRemoving(n)) :
            peers' = [peers EXCEPT ![n] = list]
      BY <1>4 DEF RemoveSave
    <3>2. list \in SUBSET PeerRecord
      BY <1>r, ListTypes, OutcomeTypes
    <3> QED BY <1>r, <3>1, <3>2
  <2>3. \A p \in removal[n].list : p.token \in Tokens
    BY <2>1 DEF PeerRecord
  <2>4. removed' \subseteq Node \X Tokens
    BY <1>r, <1>4, <2>3 DEF RemoveSave
  <2> QED BY <1>r, <1>4, <1>0, <2>2, <2>4 DEF RemoveSave, parts, counts
<1>5. ASSUME NEW n \in Node, RemoveFails(n) PROVE RestOK'
  <2>1. peers' \in [Node -> SUBSET PeerRecord]
    BY <1>r, <1>5, ListTypes, FailTypes DEF RemoveFails
  <2> QED BY <1>r, <1>5, <1>0, <2>1 DEF RemoveFails, parts, counts
<1>6. ASSUME NEW n \in Node, Restart(n) PROVE RestOK'
  <2>1. /\ client' \in [Attempt -> ClientStates]
        /\ server' \in [Attempt -> ServerStates]
        /\ seen' \in [Attempt -> [client : SUBSET PeerRecord, server : SUBSET PeerRecord]]
    BY <1>r, <1>6 DEF Restart
  <2>2. removal' \in [Node -> [busy : BOOLEAN, name : Node, list : SUBSET PeerRecord]]
    BY <1>r, <1>6, <1>0 DEF Restart
  <2>3. restarts' \in 0 .. MaxRestarts
    BY <1>r, <1>6, Bounds DEF Restart
  <2>4. /\ clock' \in 0 .. MaxTime /\ issued' \subseteq Code
        /\ peers' \in [Node -> SUBSET PeerRecord]
        /\ attempt' \in [Attempt -> [from : Node, to : Node, code : Code, token : Nat]]
        /\ minted' \in Nat /\ removals' \in 0 .. MaxRemovals
        /\ removed' \subseteq Node \X Tokens
    BY <1>r, <1>6 DEF Restart
  <2> QED BY <2>1, <2>2, <2>3, <2>4
<1>7. ASSUME NEW a \in Attempt, Attempting(a) PROVE RestOK'
  BY <1>r, <1>7, TypeAttempt
<1>8. CASE UNCHANGED vars
  BY <1>r, <1>8 DEF vars, parts, counts
<1> QED BY <1>1, <1>2, <1>3, <1>4, <1>5, <1>6, <1>7, <1>8 DEF Next, Attempting
-----------------------------------------------------------------------------
(* Which steps touch what.                                                 *)

LEMMA AttemptFrame ==
  [Next]_vars =>
    \/ \E a \in Attempt, n, m \in Node, c \in Code : Send(a, n, m, c)
    \/ \E a \in Attempt : RedeemMark(a)
    \/ UNCHANGED <<attempt, minted>>
BY DEF Next, vars, parts, Tick, Issue, RemoveLoad, RemoveSave, RemoveFails, Restart, RequestLost,
       RedeemCheck, ServerLoad, ServerSave, ServerSaveFails, ClientReceives, ClientRefused,
       ClientTimesOut, ClientLoad, ClientSave, ClientSaveFails

LEMMA CodesFrame ==
  [Next]_vars =>
    \/ \E n \in Node, c \in Code : Issue(n, c)
    \/ \E n \in Node : Restart(n)
    \/ \E a \in Attempt : RedeemMark(a)
    \/ UNCHANGED <<issued, codes>>
BY DEF Next, vars, Tick, RemoveLoad, RemoveSave, RemoveFails, Send, RequestLost, RedeemCheck,
       ServerLoad, ServerSave, ServerSaveFails, ClientReceives, ClientRefused, ClientTimesOut,
       ClientLoad, ClientSave, ClientSaveFails

LEMMA TokenNext == TypeOK /\ TokenInv /\ [Next]_vars => TokenInv'
<1> SUFFICES ASSUME TypeOK, TokenInv, [Next]_vars PROVE TokenInv'
  OBVIOUS
<1>1. ASSUME NEW a \in Attempt, NEW n \in Node, NEW m \in Node, NEW c \in Code, Send(a, n, m, c)
      PROVE  TokenInv'
  <2>1. /\ attempt'[a].token = NoToken
        /\ \A b \in Attempt \ {a} : attempt'[b].token = attempt[b].token
        /\ minted' = minted
    BY <1>1 DEF Send, TypeOK
  <2>2. minted \in Nat /\ \A b \in Attempt : attempt[b].token \in Nat
    BY DEF TypeOK
  <2>3. \A b \in Attempt : attempt'[b].token <= minted'
    BY <2>1, <2>2 DEF TokenInv, NoToken
  <2>4. ASSUME NEW b \in Attempt, NEW d \in Attempt, attempt'[b].token # NoToken,
               attempt'[b].token = attempt'[d].token
        PROVE  b = d
    BY <2>1, <2>4 DEF TokenInv
  <2> QED BY <2>3, <2>4 DEF TokenInv
<1>2. ASSUME NEW a \in Attempt, RedeemMark(a) PROVE TokenInv'
  <2>1. /\ attempt'[a].token = minted + 1
        /\ \A b \in Attempt \ {a} : attempt'[b].token = attempt[b].token
        /\ minted' = minted + 1
    BY <1>2 DEF RedeemMark, TypeOK
  <2>2. \A b \in Attempt : attempt[b].token \in Nat /\ attempt[b].token <= minted
    BY DEF TypeOK, TokenInv
  <2>3. \A b \in Attempt : attempt'[b].token <= minted'
    BY <2>1, <2>2 DEF TypeOK
  <2>4. ASSUME NEW b \in Attempt, NEW d \in Attempt, attempt'[b].token # NoToken,
               attempt'[b].token = attempt'[d].token
        PROVE  b = d
    <3>1. \A e \in Attempt \ {a} : attempt'[e].token # attempt'[a].token
      BY <2>1, <2>2 DEF TypeOK
    <3> QED BY <2>1, <2>4, <3>1 DEF TokenInv
  <2> QED BY <2>3, <2>4 DEF TokenInv
<1>3. CASE UNCHANGED <<attempt, minted>>
  BY <1>3 DEF TokenInv
<1> QED BY <1>1, <1>2, <1>3, AttemptFrame

LEMMA PhaseNext == TypeOK /\ PhaseInv /\ [Next]_vars => PhaseInv'
<1> SUFFICES ASSUME TypeOK, PhaseInv, [Next]_vars PROVE PhaseInv'
  OBVIOUS
<1>1. ASSUME NEW a \in Attempt, NEW n \in Node, NEW m \in Node, NEW c \in Code, Send(a, n, m, c)
      PROVE  PhaseInv'
  <2>1. /\ attempt'[a].token = NoToken /\ client'[a] = "waiting" /\ server'[a] = "sent"
        /\ \A b \in Attempt \ {a} : /\ attempt'[b] = attempt[b]
                                    /\ client'[b] = client[b]
                                    /\ server'[b] = server[b]
    BY <1>1 DEF Send, TypeOK
  <2> QED BY <2>1 DEF PhaseInv
<1>2. ASSUME NEW a \in Attempt, RedeemMark(a) PROVE PhaseInv'
  <2>1. /\ attempt'[a].token = minted + 1 /\ server[a] = "checked" /\ server'[a] = "accepted"
        /\ client' = client
        /\ \A b \in Attempt \ {a} : attempt'[b] = attempt[b] /\ server'[b] = server[b]
    BY <1>2 DEF RedeemMark, TypeOK
  <2>2. minted + 1 # NoToken
    BY DEF TypeOK, NoToken
  <2> QED BY <2>1, <2>2 DEF PhaseInv
<1>3. ASSUME NEW a \in Attempt, Attempting(a), UNCHANGED attempt PROVE PhaseInv'
  <2>1. \A b \in Attempt \ {a} : client'[b] = client[b] /\ server'[b] = server[b]
    BY <1>3 DEF Attempting, Send, RequestLost, RedeemCheck, RedeemMark, ServerLoad, ServerSave,
       ServerSaveFails, ClientReceives, ClientRefused, ClientTimesOut, ClientLoad, ClientSave,
       ClientSaveFails, TypeOK
  <2>2. CASE \E n, m \in Node, c \in Code : Send(a, n, m, c)
    BY <2>2, <1>1
  <2>3. CASE RedeemMark(a)
    BY <2>3, <1>2
  <2>4. CASE RequestLost(a) \/ RedeemCheck(a) \/ ServerLoad(a) \/ ServerSave(a) \/ ServerSaveFails(a)
    BY <1>3, <2>1, <2>4
    DEF RequestLost, RedeemCheck, ServerLoad, ServerSave, ServerSaveFails, PhaseInv, TypeOK
  <2>5. CASE \/ ClientReceives(a) \/ ClientRefused(a) \/ ClientTimesOut(a)
             \/ ClientLoad(a) \/ ClientSave(a) \/ ClientSaveFails(a)
    BY <1>3, <2>1, <2>5
    DEF ClientReceives, ClientRefused, ClientTimesOut, ClientLoad, ClientSave, ClientSaveFails,
        PhaseInv, TypeOK
  <2> QED BY <1>3, <2>2, <2>3, <2>4, <2>5 DEF Attempting
<1>4. ASSUME NEW n \in Node, Restart(n) PROVE PhaseInv'
  <2>1. ASSUME NEW b \in Attempt
        PROVE  /\ client'[b] = client[b] \/ (client'[b] = "failed" /\ client[b] # "idle")
               /\ server'[b] = server[b] \/ (server'[b] = "dead" /\ server[b] # "idle")
               /\ attempt'[b].token = attempt[b].token
    BY <1>4 DEF Restart, TypeOK
  <2>2. ASSUME NEW b \in Attempt
        PROVE  /\ client'[b] = "idle" => server'[b] = "idle"
               /\ server'[b] \in {"idle", "sent", "checked"} => attempt'[b].token = NoToken
               /\ server'[b] \in {"accepted", "loaded", "answered"} => attempt'[b].token # NoToken
               /\ client'[b] \in {"received", "loaded", "paired"} => attempt'[b].token # NoToken
    <3>2. client'[b] = "idle" => server'[b] = "idle"
      BY <2>1 DEF PhaseInv
    <3>3. /\ server'[b] \in {"idle", "sent", "checked"} => attempt'[b].token = NoToken
          /\ server'[b] \in {"accepted", "loaded", "answered"} => attempt'[b].token # NoToken
      BY <2>1 DEF PhaseInv
    <3>4. client'[b] \in {"received", "loaded", "paired"} => attempt'[b].token # NoToken
      BY <2>1 DEF PhaseInv
    <3> QED BY <3>2, <3>3, <3>4
  <2> QED BY <2>2 DEF PhaseInv
<1>5. CASE UNCHANGED <<attempt, client, server>>
  BY <1>5 DEF PhaseInv
<1> QED
  BY <1>1, <1>2, <1>3, <1>4, <1>5
  DEF Next, vars, parts, Attempting, Tick, Issue, RemoveLoad, RemoveSave, RemoveFails, RequestLost,
      RedeemCheck, ServerLoad, ServerSave, ServerSaveFails, ClientReceives, ClientRefused,
      ClientTimesOut, ClientLoad, ClientSave, ClientSaveFails

(* A step keeps the attempt of every minted token.                         *)
LEMMA MintedKept ==
  ASSUME TypeOK, PhaseInv, [Next]_vars, NEW a \in Attempt, attempt[a].token # NoToken
  PROVE  /\ attempt'[a].token = attempt[a].token
         /\ attempt'[a].from = attempt[a].from
         /\ attempt'[a].to = attempt[a].to
         /\ attempt'[a].code = attempt[a].code
<1>1. ASSUME NEW b \in Attempt, NEW n \in Node, NEW m \in Node, NEW c \in Code, Send(b, n, m, c)
      PROVE  attempt'[a] = attempt[a]
  BY <1>1 DEF Send, PhaseInv, TypeOK
<1>2. ASSUME NEW b \in Attempt, RedeemMark(b) PROVE attempt'[a] = attempt[a]
  BY <1>2 DEF RedeemMark, PhaseInv, TypeOK
<1> QED BY <1>1, <1>2, AttemptFrame

LEMMA ListNext == TypeOK /\ PhaseInv /\ ListInv /\ [Next]_vars => ListInv'
<1> SUFFICES ASSUME TypeOK, PhaseInv, ListInv, [Next]_vars PROVE ListInv'
  OBVIOUS
<1>1. ASSUME NEW n \in Node, NEW list \in SUBSET PeerRecord, Sound(attempt, n, list)
      PROVE  Sound(attempt', n, list)
  BY <1>1, MintedKept, SoundKept
<1>2. /\ \A n \in Node : /\ peers[n] \in SUBSET PeerRecord
                         /\ removal[n].list \in SUBSET PeerRecord
                         /\ Sound(attempt', n, peers[n])
                         /\ removal[n].busy => Sound(attempt', n, removal[n].list)
      /\ \A a \in Attempt :
           /\ attempt[a].from \in Node /\ attempt[a].to \in Node
           /\ server[a] = "loaded" => Sound(attempt', attempt[a].to, seen[a].server)
           /\ client[a] = "loaded" => Sound(attempt', attempt[a].from, seen[a].client)
  <2>1. \A n \in Node : peers[n] \in SUBSET PeerRecord /\ removal[n].list \in SUBSET PeerRecord
    BY DEF TypeOK
  <2>2. \A a \in Attempt : /\ attempt[a].from \in Node /\ attempt[a].to \in Node
                           /\ seen[a].server \in SUBSET PeerRecord
                           /\ seen[a].client \in SUBSET PeerRecord
    BY DEF TypeOK
  <2> QED BY <1>1, <2>1, <2>2 DEF ListInv
<1>3. ASSUME UNCHANGED <<peers, removal, seen>>,
             \A a \in Attempt :
               /\ server'[a] = "loaded" => server[a] = "loaded" /\ attempt'[a].to = attempt[a].to
               /\ client'[a] = "loaded" => client[a] = "loaded" /\ attempt'[a].from = attempt[a].from
      PROVE  ListInv'
  BY <1>2, <1>3 DEF ListInv
<1>4. ASSUME NEW a \in Attempt, NEW n \in Node, NEW m \in Node, NEW c \in Code, Send(a, n, m, c)
      PROVE  ListInv'
  <2>1. /\ UNCHANGED <<peers, removal, seen>>
        /\ client'[a] = "waiting" /\ server'[a] = "sent"
        /\ \A b \in Attempt \ {a} : /\ attempt'[b] = attempt[b]
                                    /\ client'[b] = client[b]
                                    /\ server'[b] = server[b]
    BY <1>4 DEF Send, TypeOK
  <2> QED BY <1>3, <2>1
<1>5. ASSUME NEW a \in Attempt, RedeemMark(a) PROVE ListInv'
  <2>1. /\ UNCHANGED <<peers, removal, seen, client>>
        /\ server'[a] = "accepted"
        /\ \A b \in Attempt : /\ attempt'[b].from = attempt[b].from
                              /\ attempt'[b].to = attempt[b].to
        /\ \A b \in Attempt \ {a} : server'[b] = server[b]
    BY <1>5 DEF RedeemMark, TypeOK
  <2> QED BY <1>3, <2>1
<1>6. ASSUME NEW a \in Attempt, UNCHANGED <<attempt, peers, removal, seen>>,
             \/ RequestLost(a) \/ RedeemCheck(a) \/ ClientReceives(a) \/ ClientRefused(a)
             \/ ClientTimesOut(a)
      PROVE  ListInv'
  <2>1. \A b \in Attempt :
          /\ server'[b] = "loaded" => server[b] = "loaded" /\ attempt'[b].to = attempt[b].to
          /\ client'[b] = "loaded" => client[b] = "loaded" /\ attempt'[b].from = attempt[b].from
    BY <1>6 DEF RequestLost, RedeemCheck, ClientReceives, ClientRefused, ClientTimesOut, TypeOK
  <2>2. UNCHANGED <<peers, removal, seen>>
    BY <1>6
  <2> QED BY <1>3, <2>1, <2>2
<1>7. ASSUME NEW a \in Attempt, ServerLoad(a) PROVE ListInv'
  <2>1. /\ UNCHANGED <<peers, removal, attempt, client>>
        /\ seen'[a].server = peers[attempt[a].to] /\ seen'[a].client = seen[a].client
        /\ \A b \in Attempt \ {a} : seen'[b] = seen[b] /\ server'[b] = server[b]
    BY <1>7 DEF ServerLoad, TypeOK
  <2> QED BY <1>2, <2>1 DEF ListInv
<1>8. ASSUME NEW a \in Attempt, ClientLoad(a) PROVE ListInv'
  <2>1. /\ UNCHANGED <<peers, removal, attempt, server>>
        /\ seen'[a].client = peers[attempt[a].from] /\ seen'[a].server = seen[a].server
        /\ \A b \in Attempt \ {a} : seen'[b] = seen[b] /\ client'[b] = client[b]
    BY <1>8 DEF ClientLoad, TypeOK
  <2> QED BY <1>2, <2>1 DEF ListInv
<1>9. ASSUME NEW a \in Attempt, ServerSave(a) \/ ServerSaveFails(a) PROVE ListInv'
  <2> DEFINE m == attempt[a].to
  <2>1. m \in Node /\ Sound(attempt, m, ServerList(a))
    BY <1>2, <1>9, ListsSound DEF ServerSave, ServerSaveFails
  <2>2. Sound(attempt, m, peers'[m]) /\ \A n \in Node \ {m} : peers'[n] = peers[n]
    <3>1. CASE ServerSave(a)
      <4>1. PICK list \in SaveOutcomes(m, ServerList(a), AloneServing(a)) :
              peers' = [peers EXCEPT ![m] = list]
        BY <3>1 DEF ServerSave
      <4>2. Sound(attempt, m, list)
        BY <2>1, OutcomeSound
      <4> QED BY <2>1, <4>1, <4>2 DEF TypeOK
    <3>2. CASE ServerSaveFails(a)
      BY <2>1, <3>2, FailSound DEF ServerSaveFails, TypeOK
    <3> QED BY <1>9, <3>1, <3>2
  <2>3. /\ UNCHANGED <<removal, attempt, client>>
        /\ server'[a] # "loaded"
        /\ \A b \in Attempt : seen'[b].client = seen[b].client
        /\ \A b \in Attempt \ {a} : seen'[b] = seen[b] /\ server'[b] = server[b]
    BY <1>9 DEF ServerSave, ServerSaveFails, TypeOK
  <2> HIDE DEF m
  <2> QED BY <1>2, <2>1, <2>2, <2>3 DEF ListInv
<1>10. ASSUME NEW a \in Attempt, ClientSave(a) \/ ClientSaveFails(a) PROVE ListInv'
  <2> DEFINE m == attempt[a].from
  <2>1. m \in Node /\ Sound(attempt, m, ClientList(a))
    BY <1>2, <1>10, ListsSound DEF ClientSave, ClientSaveFails
  <2>2. Sound(attempt, m, peers'[m]) /\ \A n \in Node \ {m} : peers'[n] = peers[n]
    <3>1. CASE ClientSave(a)
      <4>1. PICK list \in SaveOutcomes(m, ClientList(a), AloneStoring(a)) :
              peers' = [peers EXCEPT ![m] = list]
        BY <3>1 DEF ClientSave
      <4>2. Sound(attempt, m, list)
        BY <2>1, OutcomeSound
      <4> QED BY <2>1, <4>1, <4>2 DEF TypeOK
    <3>2. CASE ClientSaveFails(a)
      BY <2>1, <3>2, FailSound DEF ClientSaveFails, TypeOK
    <3> QED BY <1>10, <3>1, <3>2
  <2>3. /\ UNCHANGED <<removal, attempt, server>>
        /\ client'[a] # "loaded"
        /\ \A b \in Attempt : seen'[b].server = seen[b].server
        /\ \A b \in Attempt \ {a} : seen'[b] = seen[b] /\ client'[b] = client[b]
    BY <1>10 DEF ClientSave, ClientSaveFails, TypeOK
  <2> HIDE DEF m
  <2> QED BY <1>2, <2>1, <2>2, <2>3 DEF ListInv
<1>11. ASSUME NEW n \in Node, NEW name \in Node, RemoveLoad(n, name) PROVE ListInv'
  <2>1. /\ UNCHANGED <<peers, parts>>
        /\ removal'[n].list = peers[n]
        /\ \A m \in Node \ {n} : removal'[m] = removal[m]
    BY <1>11 DEF RemoveLoad, TypeOK
  <2> QED BY <1>2, <2>1 DEF ListInv, parts
<1>12. ASSUME NEW n \in Node, RemoveSave(n) \/ RemoveFails(n) PROVE ListInv'
  <2>1. Sound(attempt, n, RemovalList(n))
    BY <1>12, ListsSound DEF RemoveSave, RemoveFails
  <2>2. Sound(attempt, n, peers'[n]) /\ \A m \in Node \ {n} : peers'[m] = peers[m]
    <3>1. CASE RemoveSave(n)
      <4>1. PICK list \in SaveOutcomes(n, RemovalList(n), AloneRemoving(n)) :
              peers' = [peers EXCEPT ![n] = list]
        BY <3>1 DEF RemoveSave
      <4>2. Sound(attempt, n, list)
        BY <2>1, OutcomeSound
      <4> QED BY <4>1, <4>2 DEF TypeOK
    <3>2. CASE RemoveFails(n)
      BY <2>1, <3>2, FailSound DEF RemoveFails, TypeOK
    <3> QED BY <1>12, <3>1, <3>2
  <2>3. /\ UNCHANGED parts
        /\ ~removal'[n].busy
        /\ \A m \in Node \ {n} : removal'[m] = removal[m]
    BY <1>12 DEF RemoveSave, RemoveFails, TypeOK, NoRemoval
  <2> QED BY <1>2, <2>2, <2>3 DEF ListInv, parts
<1>13. ASSUME NEW n \in Node, Restart(n) PROVE ListInv'
  <2>1. /\ UNCHANGED <<peers, attempt>>
        /\ \A b \in Attempt : /\ server'[b] = "loaded"
                                => server[b] = "loaded" /\ seen'[b].server = seen[b].server
                              /\ client'[b] = "loaded"
                                => client[b] = "loaded" /\ seen'[b].client = seen[b].client
    BY <1>13 DEF Restart, TypeOK
  <2>2. \A m \in Node : removal'[m] = removal[m] \/ ~removal'[m].busy
    BY <1>13 DEF Restart, TypeOK, NoRemoval
  <2> QED BY <1>2, <2>1, <2>2 DEF ListInv
<1>14. CASE UNCHANGED <<peers, parts, removal>>
  BY <1>3, <1>14 DEF parts
<1> QED
  BY <1>4, <1>5, <1>6, <1>7, <1>8, <1>9, <1>10, <1>11, <1>12, <1>13, <1>14
  DEF Next, vars, Tick, Issue, RequestLost, RedeemCheck, ClientReceives, ClientRefused,
      ClientTimesOut
-----------------------------------------------------------------------------
(* Codes.                                                                  *)

LEMMA CodeNext == TypeOK /\ PhaseInv /\ CodeInv /\ [Next]_vars => CodeInv'
<1> SUFFICES ASSUME TypeOK, PhaseInv, CodeInv, [Next]_vars PROVE CodeInv'
  OBVIOUS
<1> DEFINE Alone(cs) == \A n, m \in Node : \A c \in Code :
                          c \in DOMAIN cs[n] /\ c \in DOMAIN cs[m] => n = m
           Held(at, sv, cs) == sv = "checked" => at.code \in DOMAIN cs[at.to]
           Used(at, is, cs) == at.token # NoToken
             => /\ at.code \in is
                /\ \A n \in Node : at.code \in DOMAIN cs[n] => cs[n][at.code].used
<1>0. /\ Alone(codes)
      /\ \A a \in Attempt : Held(attempt[a], server[a], codes) /\ Used(attempt[a], issued, codes)
  BY DEF CodeInv
<1>q. SUFFICES /\ Alone(codes')
               /\ \A a \in Attempt : /\ Held(attempt'[a], server'[a], codes')
                                     /\ Used(attempt'[a], issued', codes')
  BY DEF CodeInv
<1>1. ASSUME NEW n \in Node, NEW c \in Code, Issue(n, c)
      PROVE  /\ Alone(codes')
             /\ \A a \in Attempt : /\ Held(attempt'[a], server'[a], codes')
                                   /\ Used(attempt'[a], issued', codes')
  <2>1. /\ c \notin issued /\ issued' = issued \union {c}
        /\ DOMAIN codes'[n] = DOMAIN codes[n] \union {c}
        /\ \A d \in DOMAIN codes[n] : d # c => codes'[n][d] = codes[n][d]
        /\ \A m \in Node \ {n} : codes'[m] = codes[m]
        /\ UNCHANGED <<attempt, server>>
    BY <1>1 DEF Issue, parts, TypeOK, CodesOK
  <2>2. \A m \in Node : DOMAIN codes[m] \subseteq issued
    BY DEF TypeOK, CodesOK
  <2>3. Alone(codes')
    BY <1>0, <2>1, <2>2
  <2>4. ASSUME NEW a \in Attempt PROVE Held(attempt'[a], server'[a], codes')
    <3>1. attempt[a].to \in Node
      BY DEF TypeOK
    <3> QED BY <1>0, <2>1, <3>1
  <2>5. ASSUME NEW a \in Attempt PROVE Used(attempt'[a], issued', codes')
    BY <1>0, <2>1, <2>2
  <2> QED BY <2>3, <2>4, <2>5
<1>2. ASSUME NEW n \in Node, Restart(n)
      PROVE  /\ Alone(codes')
             /\ \A a \in Attempt : /\ Held(attempt'[a], server'[a], codes')
                                   /\ Used(attempt'[a], issued', codes')
  <2>1. /\ UNCHANGED <<attempt, issued>>
        /\ DOMAIN codes'[n] = {}
        /\ \A m \in Node \ {n} : codes'[m] = codes[m]
        /\ \A a \in Attempt : server'[a] = "checked"
                              => server[a] = "checked" /\ attempt[a].to # n
    BY <1>2 DEF Restart, TypeOK, CodesOK
  <2>2. Alone(codes')
    BY <1>0, <2>1
  <2>3. ASSUME NEW a \in Attempt PROVE Held(attempt'[a], server'[a], codes')
    <3>1. attempt[a].to \in Node
      BY DEF TypeOK
    <3> QED BY <1>0, <2>1, <3>1
  <2>4. ASSUME NEW a \in Attempt PROVE Used(attempt'[a], issued', codes')
    BY <1>0, <2>1
  <2> QED BY <2>2, <2>3, <2>4
<1>3. ASSUME NEW a \in Attempt, RedeemMark(a)
      PROVE  /\ Alone(codes')
             /\ \A b \in Attempt : /\ Held(attempt'[b], server'[b], codes')
                                   /\ Used(attempt'[b], issued', codes')
  <2> DEFINE m == attempt[a].to
             c == attempt[a].code
             new == [codes[m] EXCEPT ![c].used = TRUE]
  <2>1. /\ m \in Node /\ c \in Code /\ codes' = [codes EXCEPT ![m] = new] /\ issued' = issued
        /\ server[a] = "checked" /\ server'[a] = "accepted"
        /\ \A b \in Attempt \ {a} : server'[b] = server[b]
        /\ attempt' = [attempt EXCEPT ![a].token = minted + 1]
    BY <1>3 DEF RedeemMark, TypeOK
  <2>2. c \in DOMAIN codes[m]
    BY <1>0, <2>1
  <2>3. /\ DOMAIN new = DOMAIN codes[m]
        /\ new[c].used
        /\ \A d \in DOMAIN codes[m] : d # c => new[d] = codes[m][d]
    BY <2>1, <2>2 DEF TypeOK, CodesOK, CodeEntry
  <2>4. /\ codes'[m] = new
        /\ \A n \in Node \ {m} : codes'[n] = codes[n]
    BY <2>1 DEF TypeOK, CodesOK
  <2>5. \A b \in Attempt : /\ attempt'[b].code = attempt[b].code
                           /\ attempt'[b].to = attempt[b].to
                           /\ b # a => attempt'[b].token = attempt[b].token
    BY <2>1 DEF TypeOK
  <2>6. \A b \in Attempt : attempt[b].to \in Node /\ attempt[b].code \in Code
    BY DEF TypeOK
  <2>7. \A n \in Node : DOMAIN codes'[n] = DOMAIN codes[n] /\ DOMAIN codes[n] \subseteq issued
    BY <2>3, <2>4 DEF TypeOK, CodesOK
  <2>8. \A n \in Node : \A d \in Code :
          d \in DOMAIN codes[n] /\ codes[n][d].used => codes'[n][d].used
    <3> HIDE DEF new, m, c
    <3> QED BY <2>3, <2>4
  <2>9. \A n \in Node : c \in DOMAIN codes[n] => n = m /\ codes'[n][c].used
    <3>1. \A n \in Node : c \in DOMAIN codes[n] => n = m
      BY <1>0, <2>1, <2>2
    <3> HIDE DEF new, m, c
    <3> QED BY <2>3, <2>4, <3>1
  <2> HIDE DEF new
  <2>10. Alone(codes')
    BY <1>0, <2>7
  <2>11. ASSUME NEW b \in Attempt PROVE Held(attempt'[b], server'[b], codes')
    BY <1>0, <2>1, <2>5, <2>6, <2>7
  <2>12. ASSUME NEW b \in Attempt PROVE Used(attempt'[b], issued', codes')
    <3>1. CASE b = a
      BY <3>1, <2>1, <2>2, <2>5, <2>7, <2>9
    <3>2. CASE b # a
      BY <3>2, <1>0, <2>1, <2>5, <2>6, <2>7, <2>8
    <3> QED BY <3>1, <3>2
  <2> QED BY <2>10, <2>11, <2>12
<1>4. ASSUME NEW a \in Attempt, NEW n \in Node, NEW m \in Node, NEW c \in Code, Send(a, n, m, c)
      PROVE  /\ Alone(codes')
             /\ \A b \in Attempt : /\ Held(attempt'[b], server'[b], codes')
                                   /\ Used(attempt'[b], issued', codes')
  <2>1. /\ UNCHANGED <<issued, codes>>
        /\ attempt'[a].token = NoToken /\ server'[a] = "sent"
        /\ \A b \in Attempt \ {a} : attempt'[b] = attempt[b] /\ server'[b] = server[b]
    BY <1>4 DEF Send, TypeOK
  <2> QED BY <1>0, <2>1
<1>5. ASSUME NEW a \in Attempt, RedeemCheck(a)
      PROVE  /\ Alone(codes')
             /\ \A b \in Attempt : /\ Held(attempt'[b], server'[b], codes')
                                   /\ Used(attempt'[b], issued', codes')
  <2>1. /\ UNCHANGED <<issued, codes, attempt>>
        /\ server'[a] = "checked" => Valid(attempt[a].to, attempt[a].code)
        /\ \A b \in Attempt \ {a} : server'[b] = server[b]
    BY <1>5 DEF RedeemCheck, TypeOK
  <2> QED BY <1>0, <2>1 DEF Valid
<1>6. ASSUME UNCHANGED <<issued, codes, attempt>>,
             \A a \in Attempt : server'[a] = "checked" => server[a] = "checked"
      PROVE  /\ Alone(codes')
             /\ \A b \in Attempt : /\ Held(attempt'[b], server'[b], codes')
                                   /\ Used(attempt'[b], issued', codes')
  BY <1>0, <1>6
<1>7. CASE UNCHANGED <<issued, codes, attempt, server>>
  BY <1>6, <1>7
<1>8. ASSUME NEW a \in Attempt,
             RequestLost(a) \/ ServerLoad(a) \/ ServerSave(a) \/ ServerSaveFails(a)
      PROVE  /\ Alone(codes')
             /\ \A b \in Attempt : /\ Held(attempt'[b], server'[b], codes')
                                   /\ Used(attempt'[b], issued', codes')
  <2>1. /\ UNCHANGED <<issued, codes, attempt>>
        /\ \A b \in Attempt : server'[b] = "checked" => server[b] = "checked"
    BY <1>8 DEF RequestLost, ServerLoad, ServerSave, ServerSaveFails, TypeOK
  <2> QED BY <1>6, <2>1
<1> HIDE DEF Alone, Held, Used
<1> QED
  BY <1>1, <1>2, <1>3, <1>4, <1>5, <1>7, <1>8
  DEF Next, vars, parts, Tick, RemoveLoad, RemoveSave, RemoveFails, ClientReceives,
      ClientRefused, ClientTimesOut, ClientLoad, ClientSave, ClientSaveFails

(* Where store sections do not overlap, no two redemptions do.             *)
Serving(state) == state \in {"checked", "accepted", "loaded"}
OneServing == \A a, b \in Attempt : /\ attempt[a].to = attempt[b].to
                                    /\ Serving(server[a])
                                    /\ Serving(server[b])
                                    => a = b

LEMMA OneServingNext == TypeOK /\ overlap # "sections" /\ OneServing /\ [Next]_vars => OneServing'
<1> SUFFICES ASSUME TypeOK, overlap # "sections", OneServing, [Next]_vars PROVE OneServing'
  OBVIOUS
<1>1. ASSUME \A a \in Attempt : Serving(server'[a])
               => Serving(server[a]) /\ attempt'[a].to = attempt[a].to
      PROVE  OneServing'
  BY <1>1 DEF OneServing
<1>2. ASSUME NEW a \in Attempt, RedeemCheck(a) PROVE OneServing'
  <2>1. /\ UNCHANGED attempt
        /\ \A b \in Attempt \ {a} : server'[b] = server[b]
    BY <1>2 DEF RedeemCheck, TypeOK
  <2>2. \A b \in Attempt : attempt[b].to = attempt[a].to => ~Serving(server[b])
    BY <1>2 DEF RedeemCheck, MayEnter, Busy, ServingAt, Serving
  <2> QED BY <2>1, <2>2 DEF OneServing
<1>3. ASSUME NEW a \in Attempt, NEW n \in Node, NEW m \in Node, NEW c \in Code, Send(a, n, m, c)
      PROVE  OneServing'
  <2>1. /\ ~Serving(server'[a])
        /\ \A b \in Attempt \ {a} : attempt'[b] = attempt[b] /\ server'[b] = server[b]
    BY <1>3 DEF Send, TypeOK, Serving
  <2> QED BY <1>1, <2>1
<1>4. ASSUME NEW a \in Attempt,
             \/ RequestLost(a) \/ RedeemMark(a) \/ ServerLoad(a) \/ ServerSave(a)
             \/ ServerSaveFails(a)
      PROVE  OneServing'
  <2>1. \A b \in Attempt : Serving(server'[b])
                          => Serving(server[b]) /\ attempt'[b].to = attempt[b].to
    BY <1>4 DEF RequestLost, RedeemMark, ServerLoad, ServerSave, ServerSaveFails, TypeOK, Serving
  <2> QED BY <1>1, <2>1
<1>5. ASSUME NEW n \in Node, Restart(n) PROVE OneServing'
  <2>1. \A b \in Attempt : Serving(server'[b])
                          => Serving(server[b]) /\ attempt'[b].to = attempt[b].to
    BY <1>5 DEF Restart, TypeOK, Serving
  <2> QED BY <1>1, <2>1
<1>6. CASE UNCHANGED <<attempt, server>>
  BY <1>1, <1>6
<1> QED
  BY <1>2, <1>3, <1>4, <1>5, <1>6
  DEF Next, vars, parts, Tick, Issue, RemoveLoad, RemoveSave, RemoveFails, ClientReceives,
      ClientRefused, ClientTimesOut, ClientLoad, ClientSave, ClientSaveFails

(* ... and the code of a redemption that passed its check is unused when   *)
(* it is marked.                                                           *)
Unused == \A a \in Attempt : server[a] = "checked"
                            => ~codes[attempt[a].to][attempt[a].code].used

LEMMA UnusedNext ==
  TypeOK /\ CodeInv /\ OneServing /\ Unused /\ [Next]_vars => Unused'
<1> SUFFICES ASSUME TypeOK, CodeInv, OneServing, Unused, [Next]_vars PROVE Unused'
  OBVIOUS
<1>0. \A a \in Attempt : /\ attempt[a].to \in Node /\ attempt[a].code \in Code
                         /\ server[a] = "checked" => attempt[a].code \in DOMAIN codes[attempt[a].to]
  BY DEF TypeOK, CodeInv
<1>1. ASSUME \A a \in Attempt : server'[a] = "checked"
               => /\ server[a] = "checked"
                  /\ attempt'[a].to = attempt[a].to
                  /\ attempt'[a].code = attempt[a].code
                  /\ codes'[attempt[a].to][attempt[a].code] = codes[attempt[a].to][attempt[a].code]
      PROVE  Unused'
  BY <1>1 DEF Unused
<1>2. ASSUME NEW n \in Node, NEW c \in Code, Issue(n, c) PROVE Unused'
  <2>1. /\ UNCHANGED <<attempt, server>>
        /\ c \notin issued /\ DOMAIN codes[n] \subseteq issued
        /\ \A d \in DOMAIN codes[n] : d # c => codes'[n][d] = codes[n][d]
        /\ \A m \in Node \ {n} : codes'[m] = codes[m]
    BY <1>2 DEF Issue, parts, TypeOK, CodesOK
  <2>2. ASSUME NEW a \in Attempt, server'[a] = "checked"
        PROVE  /\ server[a] = "checked"
               /\ attempt'[a].to = attempt[a].to
               /\ attempt'[a].code = attempt[a].code
               /\ codes'[attempt[a].to][attempt[a].code] = codes[attempt[a].to][attempt[a].code]
    <3>0. server[a] = "checked"
      BY <2>1, <2>2
    <3>1. /\ attempt[a].to \in Node
          /\ attempt[a].code \in DOMAIN codes[attempt[a].to]
      BY <1>0, <3>0
    <3>2. CASE attempt[a].to = n
      BY <2>1, <3>0, <3>1, <3>2
    <3>3. CASE attempt[a].to # n
      BY <2>1, <3>0, <3>1, <3>3
    <3> QED BY <3>2, <3>3
  <2> QED BY <1>1, <2>2
<1>3. ASSUME NEW a \in Attempt, RedeemMark(a) PROVE Unused'
  <2> DEFINE m == attempt[a].to
             c == attempt[a].code
             new == [codes[m] EXCEPT ![c].used = TRUE]
  <2>1. /\ server[a] = "checked" /\ server'[a] = "accepted"
        /\ \A b \in Attempt \ {a} : server'[b] = server[b]
        /\ \A b \in Attempt : attempt'[b].to = attempt[b].to /\ attempt'[b].code = attempt[b].code
        /\ codes' = [codes EXCEPT ![m] = new]
    BY <1>3 DEF RedeemMark, TypeOK
  <2>2. \A n \in Node \ {m} : codes'[n] = codes[n]
    BY <2>1 DEF TypeOK, CodesOK
  <2>3. \A b \in Attempt : server'[b] = "checked" => server[b] = "checked" /\ attempt[b].to # m
    BY <2>1 DEF OneServing, Serving
  <2> QED BY <1>0, <1>1, <2>1, <2>2, <2>3
<1>4. ASSUME NEW n \in Node, Restart(n) PROVE Unused'
  <2>1. /\ UNCHANGED attempt
        /\ \A m \in Node \ {n} : codes'[m] = codes[m]
        /\ \A a \in Attempt : server'[a] = "checked"
                              => server[a] = "checked" /\ attempt[a].to # n
    BY <1>4 DEF Restart, TypeOK, CodesOK
  <2>2. ASSUME NEW a \in Attempt, server'[a] = "checked"
        PROVE  /\ server[a] = "checked"
               /\ attempt'[a].to = attempt[a].to
               /\ attempt'[a].code = attempt[a].code
               /\ codes'[attempt[a].to][attempt[a].code] = codes[attempt[a].to][attempt[a].code]
    <3>1. server[a] = "checked" /\ attempt[a].to # n
      BY <2>1, <2>2
    <3>2. attempt[a].to \in Node
      BY <1>0
    <3> QED BY <2>1, <3>1, <3>2
  <2> QED BY <1>1, <2>2
<1>5. ASSUME NEW a \in Attempt, RedeemCheck(a) PROVE Unused'
  <2>1. /\ UNCHANGED <<codes, attempt>>
        /\ server'[a] = "checked" => ~codes[attempt[a].to][attempt[a].code].used
        /\ \A b \in Attempt \ {a} : server'[b] = server[b]
    BY <1>5 DEF RedeemCheck, TypeOK, Valid
  <2> QED BY <2>1 DEF Unused
<1>6. ASSUME NEW a \in Attempt, NEW n \in Node, NEW m \in Node, NEW c \in Code, Send(a, n, m, c)
      PROVE  Unused'
  <2>1. /\ UNCHANGED codes /\ server'[a] = "sent"
        /\ \A b \in Attempt \ {a} : attempt'[b] = attempt[b] /\ server'[b] = server[b]
    BY <1>6 DEF Send, TypeOK
  <2> QED BY <1>1, <2>1
<1>7. ASSUME NEW a \in Attempt,
             RequestLost(a) \/ ServerLoad(a) \/ ServerSave(a) \/ ServerSaveFails(a)
      PROVE  Unused'
  <2>1. /\ UNCHANGED <<codes, attempt>>
        /\ \A b \in Attempt : server'[b] = "checked" => server[b] = "checked"
    BY <1>7 DEF RequestLost, ServerLoad, ServerSave, ServerSaveFails, TypeOK
  <2> QED BY <1>1, <2>1
<1>8. CASE UNCHANGED <<codes, attempt, server>>
  BY <1>1, <1>8
<1> QED
  BY <1>2, <1>3, <1>4, <1>5, <1>6, <1>7, <1>8
  DEF Next, vars, parts, Tick, RemoveLoad, RemoveSave, RemoveFails, ClientReceives,
      ClientRefused, ClientTimesOut, ClientLoad, ClientSave, ClientSaveFails

LEMMA OnceNext ==
  TypeOK /\ PhaseInv /\ CodeInv /\ Unused /\ RedeemedOnce /\ [Next]_vars => RedeemedOnce'
<1> SUFFICES ASSUME TypeOK, PhaseInv, CodeInv, Unused, RedeemedOnce, [Next]_vars
             PROVE  RedeemedOnce'
  OBVIOUS
<1>1. ASSUME NEW a \in Attempt, NEW n \in Node, NEW m \in Node, NEW c \in Code, Send(a, n, m, c)
      PROVE  RedeemedOnce'
  <2>1. /\ attempt'[a].token = NoToken
        /\ \A b \in Attempt \ {a} : attempt'[b] = attempt[b]
    BY <1>1 DEF Send, TypeOK
  <2> QED BY <2>1 DEF RedeemedOnce
<1>2. ASSUME NEW a \in Attempt, RedeemMark(a) PROVE RedeemedOnce'
  <2>1. /\ server[a] = "checked"
        /\ \A b \in Attempt : attempt'[b].code = attempt[b].code
        /\ \A b \in Attempt \ {a} : attempt'[b].token = attempt[b].token
    BY <1>2 DEF RedeemMark, TypeOK
  <2>2. \A b \in Attempt \ {a} : attempt[b].token # NoToken => attempt[b].code # attempt[a].code
    <3>1. /\ attempt[a].to \in Node
          /\ attempt[a].code \in DOMAIN codes[attempt[a].to]
          /\ ~codes[attempt[a].to][attempt[a].code].used
      BY <2>1 DEF TypeOK, CodeInv, Unused
    <3> QED BY <3>1 DEF CodeInv
  <2> QED BY <2>1, <2>2 DEF RedeemedOnce
<1>3. CASE UNCHANGED <<attempt, minted>>
  BY <1>3 DEF RedeemedOnce
<1> QED BY <1>1, <1>2, <1>3, AttemptFrame

LEMMA OverlapFixed == [Next]_vars => overlap' = overlap
BY DEF Next, vars

LEMMA ExclusiveNext ==
  TypeOK /\ PhaseInv /\ CodeInv /\ ExclusiveInv /\ [Next]_vars => ExclusiveInv'
<1> SUFFICES ASSUME TypeOK, PhaseInv, CodeInv, ExclusiveInv, [Next]_vars, overlap # "sections"
             PROVE  OneServing' /\ Unused' /\ RedeemedOnce'
  BY OverlapFixed DEF ExclusiveInv, OneServing, Serving, Unused
<1>1. OneServing /\ Unused /\ RedeemedOnce
  BY DEF ExclusiveInv, OneServing, Serving, Unused
<1> QED BY <1>1, OneServingNext, UnusedNext, OnceNext
-----------------------------------------------------------------------------
(* Where store sections do not overlap: what an update of a trust store    *)
(* reads is what it replaces.                                              *)

LEMMA Entered ==
  ASSUME overlap # "sections", NEW n \in Node, MayEnter(n)
  PROVE  /\ \A a \in Attempt : ~Serves(a, n) /\ ~Stores(a, n)
         /\ ~removal[n].busy
BY DEF MayEnter, Busy, ServingAt, StoringAt, Serves, Stores

LEMMA SectionNext ==
  TypeOK /\ PhaseInv /\ OneSection /\ overlap # "sections" /\ [Next]_vars => OneSection'
<1> SUFFICES ASSUME TypeOK, PhaseInv, OneSection, overlap # "sections", [Next]_vars
             PROVE  OneSection'
  OBVIOUS
<1>0. \A a \in Attempt : attempt[a].from \in Node /\ attempt[a].to \in Node
  BY DEF TypeOK
<1>1. ASSUME \A n \in Node : /\ \A a \in Attempt : Serves(a, n)' => Serves(a, n)
                             /\ \A a \in Attempt : Stores(a, n)' => Stores(a, n)
                             /\ removal'[n].busy => removal[n].busy
      PROVE  OneSection'
  BY <1>1 DEF OneSection
<1>2. ASSUME NEW a \in Attempt, RedeemCheck(a) PROVE OneSection'
  <2>1. /\ UNCHANGED <<attempt, client, removal>>
        /\ \A b \in Attempt \ {a} : server'[b] = server[b]
    BY <1>2 DEF RedeemCheck, TypeOK
  <2>2. /\ \A b \in Attempt : ~Serves(b, attempt[a].to) /\ ~Stores(b, attempt[a].to)
        /\ ~removal[attempt[a].to].busy
    BY <1>0, <1>2, Entered DEF RedeemCheck
  <2>3. \A b \in Attempt, n \in Node : Stores(b, n)' <=> Stores(b, n)
    BY <2>1 DEF Stores
  <2>4. \A b \in Attempt, n \in Node : Serves(b, n)' => Serves(b, n) \/ (b = a /\ n = attempt[a].to)
    BY <2>1 DEF Serves
  <2> QED BY <2>1, <2>2, <2>3, <2>4 DEF OneSection
<1>3. ASSUME NEW a \in Attempt, ClientLoad(a) PROVE OneSection'
  <2>1. /\ UNCHANGED <<attempt, server, removal>>
        /\ \A b \in Attempt \ {a} : client'[b] = client[b]
    BY <1>3 DEF ClientLoad, TypeOK
  <2>2. /\ \A b \in Attempt : ~Serves(b, attempt[a].from) /\ ~Stores(b, attempt[a].from)
        /\ ~removal[attempt[a].from].busy
    BY <1>0, <1>3, Entered DEF ClientLoad
  <2>3. \A b \in Attempt, n \in Node : Serves(b, n)' <=> Serves(b, n)
    BY <2>1 DEF Serves
  <2>4. \A b \in Attempt, n \in Node : Stores(b, n)' => Stores(b, n) \/ (b = a /\ n = attempt[a].from)
    BY <2>1 DEF Stores
  <2> QED BY <2>1, <2>2, <2>3, <2>4 DEF OneSection
<1>4. ASSUME NEW n \in Node, NEW x \in Node, RemoveLoad(n, x) PROVE OneSection'
  <2>1. /\ UNCHANGED <<attempt, client, server>>
        /\ \A m \in Node \ {n} : removal'[m] = removal[m]
    BY <1>4 DEF RemoveLoad, parts, TypeOK
  <2>2. \A b \in Attempt : ~Serves(b, n) /\ ~Stores(b, n)
    BY <1>4, Entered DEF RemoveLoad
  <2>3. \A b \in Attempt, m \in Node : (Serves(b, m)' <=> Serves(b, m)) /\ (Stores(b, m)' <=> Stores(b, m))
    BY <2>1 DEF Serves, Stores
  <2> QED BY <2>1, <2>2, <2>3 DEF OneSection
<1>5. ASSUME NEW a \in Attempt, NEW n \in Node, NEW m \in Node, NEW c \in Code, Send(a, n, m, c)
      PROVE  OneSection'
  <2>1. /\ server'[a] = "sent" /\ client'[a] = "waiting" /\ UNCHANGED removal
        /\ \A b \in Attempt \ {a} : /\ attempt'[b] = attempt[b]
                                    /\ server'[b] = server[b]
                                    /\ client'[b] = client[b]
    BY <1>5 DEF Send, TypeOK
  <2> QED BY <1>1, <2>1 DEF Serves, Stores
<1>6. ASSUME NEW a \in Attempt,
             \/ RequestLost(a) \/ RedeemMark(a) \/ ServerLoad(a) \/ ServerSave(a)
             \/ ServerSaveFails(a)
      PROVE  OneSection'
  <2>1. /\ UNCHANGED <<client, removal>>
        /\ \A b \in Attempt : attempt'[b].to = attempt[b].to /\ attempt'[b].from = attempt[b].from
    BY <1>6 DEF RequestLost, RedeemMark, ServerLoad, ServerSave, ServerSaveFails, TypeOK
  <2>2. \A b \in Attempt : server'[b] \in {"checked", "accepted", "loaded"}
                             => server[b] \in {"checked", "accepted", "loaded"}
    <3>1. CASE RequestLost(a) \/ RedeemMark(a) \/ ServerLoad(a)
      BY <3>1 DEF RequestLost, RedeemMark, ServerLoad, TypeOK
    <3>2. CASE ServerSave(a) \/ ServerSaveFails(a)
      BY <3>2 DEF ServerSave, ServerSaveFails, TypeOK
    <3> QED BY <1>6, <3>1, <3>2
  <2> QED BY <1>1, <2>1, <2>2 DEF Serves, Stores
<1>7. ASSUME NEW a \in Attempt,
             \/ ClientReceives(a) \/ ClientRefused(a) \/ ClientTimesOut(a) \/ ClientSave(a)
             \/ ClientSaveFails(a)
      PROVE  OneSection'
  <2>1. /\ UNCHANGED <<attempt, server, removal>>
        /\ \A b \in Attempt : client'[b] = "loaded" => client[b] = "loaded"
    BY <1>7 DEF ClientReceives, ClientRefused, ClientTimesOut, ClientSave, ClientSaveFails, TypeOK
  <2> QED BY <1>1, <2>1 DEF Serves, Stores
<1>8. ASSUME NEW n \in Node, RemoveSave(n) \/ RemoveFails(n) PROVE OneSection'
  <2>1. UNCHANGED <<attempt, client, server>> /\ removal' = [removal EXCEPT ![n] = NoRemoval]
    BY <1>8 DEF RemoveSave, RemoveFails, parts
  <2>2. \A m \in Node : removal'[m].busy => removal[m].busy
    BY <2>1 DEF NoRemoval, TypeOK
  <2> QED BY <1>1, <2>1, <2>2 DEF Serves, Stores
<1>9. ASSUME NEW n \in Node, Restart(n) PROVE OneSection'
  <2>1. /\ UNCHANGED attempt
        /\ \A b \in Attempt : /\ server'[b] \in {server[b], "dead"}
                              /\ client'[b] \in {client[b], "failed"}
    BY <1>9 DEF Restart, TypeOK
  <2>2. \A m \in Node : removal'[m].busy => removal[m].busy
    BY <1>9 DEF Restart, NoRemoval, TypeOK
  <2> QED BY <1>1, <2>1, <2>2 DEF Serves, Stores
<1>10. CASE UNCHANGED <<attempt, client, server, removal>>
  BY <1>1, <1>10 DEF Serves, Stores
<1> QED
  BY <1>2, <1>3, <1>4, <1>5, <1>6, <1>7, <1>8, <1>9, <1>10 DEF Next, vars, parts, Tick, Issue

LEMMA Undivided ==
  ASSUME TypeOK, OneSection
  PROVE  /\ \A a \in Attempt : server[a] = "loaded" => AloneServing(a)
         /\ \A a \in Attempt : client[a] = "loaded" => AloneStoring(a)
         /\ \A n \in Node : removal[n].busy => AloneRemoving(n)
<1>0. \A a \in Attempt : attempt[a].from \in Node /\ attempt[a].to \in Node
  BY DEF TypeOK
<1>1. ASSUME NEW a \in Attempt, server[a] = "loaded" PROVE AloneServing(a)
  <2>1. Serves(a, attempt[a].to)
    BY <1>1 DEF Serves
  <2> QED BY <1>0, <1>1, <2>1 DEF OneSection, AloneServing, ServingAt, StoringAt, Serves, Stores
<1>2. ASSUME NEW a \in Attempt, client[a] = "loaded" PROVE AloneStoring(a)
  <2>1. Stores(a, attempt[a].from)
    BY <1>2 DEF Stores
  <2> QED BY <1>0, <1>2, <2>1 DEF OneSection, AloneStoring, ServingAt, StoringAt, Serves, Stores
<1>3. ASSUME NEW n \in Node, removal[n].busy PROVE AloneRemoving(n)
  BY <1>3 DEF OneSection, AloneRemoving, ServingAt, StoringAt, Serves, Stores
<1> QED BY <1>1, <1>2, <1>3

LEMMA NoneFails ==
  ASSUME TypeOK, OneSection
  PROVE  /\ \A a \in Attempt : ~ServerSaveFails(a) /\ ~ClientSaveFails(a)
         /\ \A n \in Node : ~RemoveFails(n)
BY Undivided DEF ServerSaveFails, ClientSaveFails, RemoveFails, SaveFails

(* The three updates of a trust store.                                     *)
ServerStores(a) ==
  /\ ServerSave(a)
  /\ peers' = [peers EXCEPT ![attempt[a].to] =
                 Upserted(@, [name |-> attempt[a].from, token |-> attempt[a].token])]
ClientStores(a) ==
  /\ ClientSave(a)
  /\ peers' = [peers EXCEPT ![attempt[a].from] =
                 Upserted(@, [name |-> attempt[a].to, token |-> attempt[a].token])]
Removes(n) ==
  /\ RemoveSave(n)
  /\ peers' = [peers EXCEPT ![n] = Without(@, removal[n].name)]
  /\ removed' = removed \union {<<n, p.token>> : p \in {q \in peers[n] : q.name = removal[n].name}}

LEMMA Updates ==
  ASSUME TypeOK, OneSection, Current
  PROVE  /\ \A a \in Attempt : ServerSave(a) => ServerStores(a)
         /\ \A a \in Attempt : ClientSave(a) => ClientStores(a)
         /\ \A n \in Node : RemoveSave(n) => Removes(n)
<1>1. ASSUME NEW a \in Attempt, ServerSave(a) PROVE ServerStores(a)
  <2>1. server[a] = "loaded" /\ AloneServing(a) /\ seen[a].server = peers[attempt[a].to]
    BY <1>1, Undivided DEF ServerSave, Current
  <2> QED BY <1>1, <2>1 DEF ServerSave, ServerStores, SaveOutcomes, ServerList
<1>2. ASSUME NEW a \in Attempt, ClientSave(a) PROVE ClientStores(a)
  <2>1. client[a] = "loaded" /\ AloneStoring(a) /\ seen[a].client = peers[attempt[a].from]
    BY <1>2, Undivided DEF ClientSave, Current
  <2> QED BY <1>2, <2>1 DEF ClientSave, ClientStores, SaveOutcomes, ClientList
<1>3. ASSUME NEW n \in Node, RemoveSave(n) PROVE Removes(n)
  <2>1. AloneRemoving(n) /\ removal[n].list = peers[n]
    BY <1>3, Undivided DEF RemoveSave, Current
  <2> QED BY <1>3, <2>1 DEF RemoveSave, Removes, SaveOutcomes, RemovalList
<1> QED BY <1>1, <1>2, <1>3

LEMMA PeersFrame ==
  TypeOK /\ OneSection /\ Current /\ [Next]_vars =>
    \/ \E a \in Attempt : ServerStores(a) \/ ClientStores(a)
    \/ \E n \in Node : Removes(n)
    \/ UNCHANGED <<peers, removed>>
  BY Updates, NoneFails
  DEF Next, vars, Tick, Issue, Send, RemoveLoad, Restart, RequestLost, RedeemCheck, RedeemMark,
      ServerLoad, ClientReceives, ClientRefused, ClientTimesOut, ClientLoad

LEMMA CurrentNext ==
  TypeOK /\ PhaseInv /\ OneSection /\ Current /\ overlap # "sections" /\ [Next]_vars => Current'
<1> SUFFICES ASSUME TypeOK, PhaseInv, OneSection, Current, overlap # "sections", [Next]_vars
             PROVE  Current'
  OBVIOUS
<1>0. \A a \in Attempt : attempt[a].from \in Node /\ attempt[a].to \in Node
  BY DEF TypeOK
<1>1. ASSUME UNCHANGED peers,
             \A a \in Attempt :
               /\ server'[a] = "loaded" => /\ server[a] = "loaded"
                                           /\ attempt'[a].to = attempt[a].to
                                           /\ seen'[a].server = seen[a].server
               /\ client'[a] = "loaded" => /\ client[a] = "loaded"
                                           /\ attempt'[a].from = attempt[a].from
                                           /\ seen'[a].client = seen[a].client,
             \A n \in Node : removal'[n].busy => removal'[n] = removal[n]
      PROVE  Current'
  BY <1>1 DEF Current
<1>2. ASSUME NEW a \in Attempt, ServerLoad(a) PROVE Current'
  <2>1. /\ UNCHANGED <<peers, attempt, client, removal>>
        /\ seen'[a].server = peers[attempt[a].to] /\ seen'[a].client = seen[a].client
        /\ \A b \in Attempt \ {a} : seen'[b] = seen[b] /\ server'[b] = server[b]
    BY <1>2 DEF ServerLoad, TypeOK
  <2> QED BY <2>1 DEF Current
<1>3. ASSUME NEW a \in Attempt, ClientLoad(a) PROVE Current'
  <2>1. /\ UNCHANGED <<peers, attempt, server, removal>>
        /\ seen'[a].client = peers[attempt[a].from] /\ seen'[a].server = seen[a].server
        /\ \A b \in Attempt \ {a} : seen'[b] = seen[b] /\ client'[b] = client[b]
    BY <1>3 DEF ClientLoad, TypeOK
  <2> QED BY <2>1 DEF Current
<1>4. ASSUME NEW n \in Node, NEW x \in Node, RemoveLoad(n, x) PROVE Current'
  <2>1. /\ UNCHANGED <<peers, attempt, client, server, seen>>
        /\ removal'[n].list = peers[n]
        /\ \A m \in Node \ {n} : removal'[m] = removal[m]
    BY <1>4 DEF RemoveLoad, parts, TypeOK
  <2> QED BY <2>1 DEF Current
<1>5. ASSUME NEW a \in Attempt, ServerStores(a) PROVE Current'
  <2> DEFINE m == attempt[a].to
  <2>1. /\ UNCHANGED <<attempt, client, removal>> /\ server[a] = "loaded" /\ server'[a] = "answered"
        /\ seen'[a].client = seen[a].client
        /\ \A b \in Attempt \ {a} : seen'[b] = seen[b] /\ server'[b] = server[b]
        /\ \A n \in Node \ {m} : peers'[n] = peers[n]
    BY <1>5 DEF ServerStores, ServerSave, TypeOK
  <2>2. Serves(a, m) /\ m \in Node
    BY <1>0, <2>1 DEF Serves
  <2>3. /\ \A b \in Attempt \ {a} : server[b] = "loaded" => attempt[b].to # m
        /\ \A b \in Attempt : client[b] = "loaded" => attempt[b].from # m
        /\ ~removal[m].busy
    BY <2>2 DEF OneSection, Serves, Stores
  <2> HIDE DEF m
  <2> QED BY <1>0, <2>1, <2>3 DEF Current
<1>6. ASSUME NEW a \in Attempt, ClientStores(a) PROVE Current'
  <2> DEFINE m == attempt[a].from
  <2>1. /\ UNCHANGED <<attempt, server, removal>> /\ client[a] = "loaded" /\ client'[a] = "paired"
        /\ seen'[a].server = seen[a].server
        /\ \A b \in Attempt \ {a} : seen'[b] = seen[b] /\ client'[b] = client[b]
        /\ \A n \in Node \ {m} : peers'[n] = peers[n]
    BY <1>6 DEF ClientStores, ClientSave, TypeOK
  <2>2. Stores(a, m) /\ m \in Node
    BY <1>0, <2>1 DEF Stores
  <2>3. /\ \A b \in Attempt \ {a} : client[b] = "loaded" => attempt[b].from # m
        /\ \A b \in Attempt : server[b] = "loaded" => attempt[b].to # m
        /\ ~removal[m].busy
    BY <2>2 DEF OneSection, Serves, Stores
  <2> HIDE DEF m
  <2> QED BY <1>0, <2>1, <2>3 DEF Current
<1>7. ASSUME NEW n \in Node, Removes(n) PROVE Current'
  <2>1. /\ UNCHANGED <<attempt, client, server, seen>> /\ removal[n].busy /\ ~removal'[n].busy
        /\ \A m \in Node \ {n} : removal'[m] = removal[m] /\ peers'[m] = peers[m]
    BY <1>7 DEF Removes, RemoveSave, NoRemoval, parts, TypeOK
  <2>2. \A b \in Attempt : /\ server[b] = "loaded" => attempt[b].to # n
                           /\ client[b] = "loaded" => attempt[b].from # n
    BY <2>1 DEF OneSection, Serves, Stores
  <2> QED BY <1>0, <2>1, <2>2 DEF Current
<1>8. ASSUME NEW a \in Attempt, NEW n \in Node, NEW m \in Node, NEW c \in Code, Send(a, n, m, c)
      PROVE  Current'
  <2>1. /\ server'[a] = "sent" /\ client'[a] = "waiting" /\ UNCHANGED <<removal, peers, seen>>
        /\ \A b \in Attempt \ {a} : /\ attempt'[b] = attempt[b]
                                    /\ server'[b] = server[b]
                                    /\ client'[b] = client[b]
    BY <1>8 DEF Send, TypeOK
  <2> QED BY <1>1, <2>1
<1>9. ASSUME NEW a \in Attempt,
             RequestLost(a) \/ RedeemCheck(a) \/ RedeemMark(a)
      PROVE  Current'
  <2>1. /\ UNCHANGED <<client, removal, peers>>
        /\ \A b \in Attempt : /\ attempt'[b].to = attempt[b].to /\ attempt'[b].from = attempt[b].from
                              /\ server'[b] = "loaded" => server[b] = "loaded"
                              /\ seen'[b].client = seen[b].client
                              /\ server'[b] = "loaded" => seen'[b].server = seen[b].server
    BY <1>9 DEF RequestLost, RedeemCheck, RedeemMark, TypeOK
  <2> QED BY <1>1, <2>1
<1>10. ASSUME NEW a \in Attempt,
              ClientReceives(a) \/ ClientRefused(a) \/ ClientTimesOut(a)
       PROVE  Current'
  <2>1. /\ UNCHANGED <<attempt, server, removal, peers>>
        /\ \A b \in Attempt : /\ client'[b] = "loaded" => client[b] = "loaded"
                              /\ seen'[b].server = seen[b].server
                              /\ client'[b] = "loaded" => seen'[b].client = seen[b].client
    BY <1>10 DEF ClientReceives, ClientRefused, ClientTimesOut, TypeOK
  <2> QED BY <1>1, <2>1
<1>11. ASSUME NEW n \in Node, Restart(n) PROVE Current'
  <2>1. /\ UNCHANGED <<attempt, peers>>
        /\ \A b \in Attempt :
             /\ server'[b] = "loaded" => /\ server[b] = "loaded"
                                         /\ seen'[b].server = seen[b].server
             /\ client'[b] = "loaded" => /\ client[b] = "loaded"
                                         /\ seen'[b].client = seen[b].client
    BY <1>11 DEF Restart, TypeOK
  <2>2. \A m \in Node : removal'[m].busy => removal'[m] = removal[m]
    BY <1>11 DEF Restart, NoRemoval, TypeOK
  <2> QED BY <1>1, <2>1, <2>2
<1>12. CASE UNCHANGED <<attempt, client, server, seen, removal, peers>>
  BY <1>1, <1>12
<1>13. /\ \A a \in Attempt : (ServerSave(a) => ServerStores(a)) /\ (ClientSave(a) => ClientStores(a))
       /\ \A n \in Node : RemoveSave(n) => Removes(n)
  BY Updates
<1> QED
  BY <1>2, <1>3, <1>4, <1>5, <1>6, <1>7, <1>8, <1>9, <1>10, <1>11, <1>12, <1>13, NoneFails
  DEF Next, vars, parts, Tick, Issue
-----------------------------------------------------------------------------
(* A part that has ended has ended, and what it stored was stored once.    *)

LEMMA EndedStays ==
  ASSUME TypeOK, PhaseInv, [Next]_vars, NEW a \in Attempt
  PROVE  /\ server[a] \in {"answered", "rejected", "dead"} => server'[a] = server[a]
         /\ client[a] \in {"paired", "failed"} => client'[a] = client[a]
<1>1. ASSUME NEW b \in Attempt, Attempting(b)
      PROVE  /\ server[a] \in {"answered", "rejected", "dead"} => server'[a] = server[a]
             /\ client[a] \in {"paired", "failed"} => client'[a] = client[a]
  <2>1. CASE \E n, m \in Node, c \in Code : Send(b, n, m, c)
    BY <2>1 DEF Send, PhaseInv, TypeOK
  <2>2. CASE \/ RequestLost(b) \/ RedeemCheck(b) \/ RedeemMark(b) \/ ServerLoad(b) \/ ServerSave(b)
             \/ ServerSaveFails(b)
    BY <2>2 DEF RequestLost, RedeemCheck, RedeemMark, ServerLoad, ServerSave, ServerSaveFails, TypeOK
  <2>3. CASE \/ ClientReceives(b) \/ ClientRefused(b) \/ ClientTimesOut(b) \/ ClientLoad(b)
             \/ ClientSave(b) \/ ClientSaveFails(b)
    BY <2>3 DEF ClientReceives, ClientRefused, ClientTimesOut, ClientLoad, ClientSave,
                ClientSaveFails, TypeOK
  <2> QED BY <1>1, <2>1, <2>2, <2>3 DEF Attempting
<1>2. ASSUME NEW n \in Node, Restart(n)
      PROVE  /\ server[a] \in {"answered", "rejected", "dead"} => server'[a] = server[a]
             /\ client[a] \in {"paired", "failed"} => client'[a] = client[a]
  BY <1>2 DEF Restart, TypeOK
<1>3. CASE UNCHANGED <<client, server>>
  BY <1>3
<1> QED
  BY <1>1, <1>2, <1>3 DEF Next, Attempting, vars, parts, Tick, Issue, RemoveLoad, RemoveSave,
                          RemoveFails

LEMMA SettledStays ==
  ASSUME TypeOK, PhaseInv, [Next]_vars, NEW n, NEW t \in Tokens, Settled(n, t)
  PROVE  Settled(n, t)'
<1>1. PICK a \in Attempt :
        /\ attempt[a].token = t
        /\ attempt[a].from # attempt[a].to
        /\ \/ attempt[a].to = n /\ server[a] \in {"answered", "rejected", "dead"}
           \/ attempt[a].from = n /\ client[a] \in {"paired", "failed"}
  BY DEF Settled
<1>2. /\ attempt'[a].token = attempt[a].token
      /\ attempt'[a].from = attempt[a].from
      /\ attempt'[a].to = attempt[a].to
  BY <1>1, MintedKept DEF Tokens
<1>3. /\ server[a] \in {"answered", "rejected", "dead"} => server'[a] = server[a]
      /\ client[a] \in {"paired", "failed"} => client'[a] = client[a]
  BY EndedStays
<1> QED BY <1>1, <1>2, <1>3 DEF Settled

LEMMA ApartNext ==
  ASSUME TypeOK, PhaseInv, [Next]_vars,
         \A a \in Attempt : client[a] # "idle" => attempt[a].from # attempt[a].to
  PROVE  \A a \in Attempt : client'[a] # "idle" => attempt'[a].from # attempt'[a].to
<1>1. ASSUME NEW a \in Attempt, NEW n \in Node, NEW m \in Node, NEW c \in Code, Send(a, n, m, c)
      PROVE  \A b \in Attempt : client'[b] # "idle" => attempt'[b].from # attempt'[b].to
  BY <1>1 DEF Send, TypeOK
<1>2. ASSUME NEW a \in Attempt, Attempting(a), UNCHANGED attempt \/ RedeemMark(a)
      PROVE  \A b \in Attempt : client'[b] # "idle" => attempt'[b].from # attempt'[b].to
  <2>1. \A b \in Attempt : attempt'[b].from = attempt[b].from /\ attempt'[b].to = attempt[b].to
    BY <1>2 DEF RedeemMark, TypeOK
  <2>2. CASE \E n, m \in Node, c \in Code : Send(a, n, m, c)
    BY <2>2, <1>1
  <2>3. CASE \/ RequestLost(a) \/ RedeemCheck(a) \/ RedeemMark(a) \/ ServerLoad(a) \/ ServerSave(a)
             \/ ServerSaveFails(a)
    <3>1. UNCHANGED client
      BY <2>3 DEF RequestLost, RedeemCheck, RedeemMark, ServerLoad, ServerSave, ServerSaveFails
    <3> QED BY <2>1, <3>1
  <2>4. CASE \/ ClientReceives(a) \/ ClientRefused(a) \/ ClientTimesOut(a) \/ ClientLoad(a)
             \/ ClientSave(a) \/ ClientSaveFails(a)
    <3>1. \A b \in Attempt : client'[b] # "idle" => client[b] # "idle"
      BY <2>4 DEF ClientReceives, ClientRefused, ClientTimesOut, ClientLoad, ClientSave,
                  ClientSaveFails, TypeOK
    <3> QED BY <2>1, <3>1
  <2> QED BY <1>2, <2>2, <2>3, <2>4 DEF Attempting
<1>3. ASSUME NEW n \in Node, Restart(n)
      PROVE  \A b \in Attempt : client'[b] # "idle" => attempt'[b].from # attempt'[b].to
  BY <1>3 DEF Restart, TypeOK
<1>4. CASE UNCHANGED <<attempt, client>>
  BY <1>4
<1> QED
  BY <1>1, <1>2, <1>3, <1>4, AttemptFrame
  DEF Next, Attempting, vars, parts, Tick, Issue, RemoveLoad, RemoveSave, RemoveFails,
      RequestLost, RedeemCheck, ServerLoad, ServerSave, ServerSaveFails, ClientReceives,
      ClientRefused, ClientTimesOut, ClientLoad, ClientSave, ClientSaveFails

(* The token a part is about to store was never removed from its node.     *)
LEMMA FreshToken ==
  ASSUME TokenInv, RemovedInv, NEW a \in Attempt, NEW n, attempt[a].token # NoToken,
         \/ attempt[a].to = n /\ server[a] = "loaded"
         \/ attempt[a].from = n /\ client[a] = "loaded"
  PROVE  ~Settled(n, attempt[a].token)
BY DEF Settled, TokenInv

(* A sound store names the peer a token was minted for.                    *)
LEMMA OwnTokens == TypeOK /\ TokenInv /\ ListInv => OwnToken
<1> SUFFICES ASSUME TypeOK, TokenInv, ListInv, NEW n \in Node, NEW p \in peers[n]
             PROVE  /\ \A q \in peers[n] : p.token = q.token => p.name = q.name
                    /\ Minted(attempt, n, p)
  BY DEF OwnToken, Minted
<1>1. \A q \in peers[n] : Minted(attempt, n, q) /\ q.token # NoToken
  BY DEF ListInv, Sound, TypeOK, PeerRecord, Tokens
<1>2. ASSUME NEW q \in peers[n], p.token = q.token PROVE p.name = q.name
  <2>1. PICK a \in Attempt : /\ attempt[a].token = p.token
                             /\ {attempt[a].from, attempt[a].to} = {n, p.name}
    BY <1>1 DEF Minted
  <2>2. PICK b \in Attempt : /\ attempt[b].token = q.token
                             /\ {attempt[b].from, attempt[b].to} = {n, q.name}
    BY <1>1 DEF Minted
  <2>3. a = b
    BY <1>1, <1>2, <2>1, <2>2 DEF TokenInv
  <2> QED BY <2>1, <2>2, <2>3
<1> QED BY <1>1, <1>2

LEMMA RemovedNext ==
  TypeOK /\ TokenInv /\ PhaseInv /\ ListInv /\ OneSection /\ Current /\ RemovedInv /\ [Next]_vars
    => RemovedInv'
<1> SUFFICES ASSUME TypeOK, TokenInv, PhaseInv, ListInv, OneSection, Current, RemovedInv,
                    [Next]_vars
             PROVE  RemovedInv'
  OBVIOUS
<1>0. /\ \A n \in Node : peers[n] \in SUBSET PeerRecord
      /\ removed \subseteq Node \X Tokens
      /\ \A a \in Attempt : attempt[a].from \in Node /\ attempt[a].to \in Node
  BY DEF TypeOK
<1>1. \A a \in Attempt : client'[a] # "idle" => attempt'[a].from # attempt'[a].to
  BY ApartNext DEF RemovedInv
<1>2. /\ \A n \in Node : \A p \in peers[n] : Settled(n, p.token)'
      /\ \A r \in removed : Settled(r[1], r[2])'
  BY <1>0, SettledStays DEF RemovedInv, PeerRecord
<1>3. ASSUME NEW n \in Node, NEW x \in Node, NEW a \in Attempt,
             peers' = [peers EXCEPT ![n] = Upserted(@, [name |-> x, token |-> attempt[a].token])],
             ~Settled(n, attempt[a].token), Settled(n, attempt[a].token)',
             UNCHANGED <<attempt, removed>>
      PROVE  RemovedInv'
  <2>1. \A m \in Node : \A p \in peers'[m] : \/ p \in peers[m]
                                             \/ m = n /\ p.token = attempt[a].token
    BY <1>3 DEF Upserted, TypeOK
  <2>2. \A r \in removed : r[1] = n => r[2] # attempt[a].token
    BY <1>3 DEF RemovedInv
  <2>3. <<n, attempt[a].token>> \notin removed
    BY <2>2
  <2>4. RemovedStaysOut'
    <3> SUFFICES ASSUME NEW m \in Node, NEW p \in peers'[m] PROVE <<m, p.token>> \notin removed
      BY <1>3 DEF RemovedStaysOut
    <3>1. CASE p \in peers[m]
      BY <3>1 DEF RemovedInv, RemovedStaysOut
    <3>2. CASE m = n /\ p.token = attempt[a].token
      BY <2>3, <3>2
    <3> QED BY <2>1, <3>1, <3>2
  <2>5. \A m \in Node : \A p \in peers'[m] : Settled(m, p.token)'
    <3> SUFFICES ASSUME NEW m \in Node, NEW p \in peers'[m] PROVE Settled(m, p.token)'
      OBVIOUS
    <3>1. CASE p \in peers[m]
      BY <1>2, <3>1
    <3>2. CASE m = n /\ p.token = attempt[a].token
      BY <1>3, <3>2 DEF Settled
    <3> QED BY <2>1, <3>1, <3>2
  <2> QED BY <1>1, <1>2, <1>3, <2>4, <2>5 DEF RemovedInv
<1>4. ASSUME NEW a \in Attempt, ServerStores(a) PROVE RemovedInv'
  <2>1. /\ server[a] = "loaded" /\ server'[a] = "answered" /\ UNCHANGED <<attempt, removed>>
        /\ attempt[a].token # NoToken /\ client[a] # "idle"
    BY <1>4 DEF ServerStores, ServerSave, PhaseInv, TypeOK
  <2>2. ~Settled(attempt[a].to, attempt[a].token)
    BY <2>1, FreshToken
  <2>3. Settled(attempt[a].to, attempt[a].token)'
    BY <2>1 DEF Settled, RemovedInv
  <2> QED BY <1>0, <1>3, <1>4, <2>1, <2>2, <2>3 DEF ServerStores
<1>5. ASSUME NEW a \in Attempt, ClientStores(a) PROVE RemovedInv'
  <2>1. /\ client[a] = "loaded" /\ client'[a] = "paired" /\ UNCHANGED <<attempt, removed>>
        /\ attempt[a].token # NoToken
    BY <1>5 DEF ClientStores, ClientSave, PhaseInv, TypeOK
  <2>2. ~Settled(attempt[a].from, attempt[a].token)
    BY <2>1, FreshToken
  <2>3. Settled(attempt[a].from, attempt[a].token)'
    BY <2>1 DEF Settled, RemovedInv
  <2> QED BY <1>0, <1>3, <1>5, <2>1, <2>2, <2>3 DEF ClientStores
<1>6. ASSUME NEW n \in Node, Removes(n) PROVE RemovedInv'
  <2> DEFINE gone == {q \in peers[n] : q.name = removal[n].name}
  <2>1. /\ peers' = [peers EXCEPT ![n] = peers[n] \ gone]
        /\ removed' = removed \union {<<n, p.token>> : p \in gone}
    BY <1>6 DEF Removes, Without
  <2>2. \A p \in peers[n] \ gone, q \in gone : p.token # q.token
    <3>1. \A p \in peers[n], q \in peers[n] : p.token = q.token => p.name = q.name
      BY OwnTokens DEF OwnToken
    <3> QED BY <3>1
  <2> HIDE DEF gone
  <2>3. gone \subseteq peers[n]
    BY DEF gone
  <2>4. /\ peers'[n] = peers[n] \ gone
        /\ \A m \in Node \ {n} : peers'[m] = peers[m]
    BY <2>1 DEF TypeOK
  <2>5. RemovedStaysOut'
    BY <2>1, <2>2, <2>4 DEF RemovedInv, RemovedStaysOut
  <2>6. /\ \A m \in Node : \A p \in peers'[m] : Settled(m, p.token)'
        /\ \A r \in removed' : Settled(r[1], r[2])'
    BY <1>2, <2>1, <2>3, <2>4
  <2> QED BY <1>1, <2>5, <2>6 DEF RemovedInv
<1>7. CASE UNCHANGED <<peers, removed>>
  BY <1>1, <1>2, <1>7 DEF RemovedInv, RemovedStaysOut
<1> QED BY <1>4, <1>5, <1>6, <1>7, PeersFrame

LEMMA SectionInvNext ==
  TypeOK /\ TokenInv /\ PhaseInv /\ ListInv /\ SectionInv /\ [Next]_vars => SectionInv'
BY OverlapFixed, SectionNext, CurrentNext, RemovedNext DEF SectionInv
-----------------------------------------------------------------------------
(* One attempt at a time.                                                  *)

LEMMA LiveNext ==
  ASSUME TypeOK, [Next]_vars, NEW a \in Attempt, Live(a)'
  PROVE  Live(a) \/ \E n, m \in Node, c \in Code : Send(a, n, m, c)
<1>1. ASSUME NEW b \in Attempt, NEW n \in Node, NEW m \in Node, NEW c \in Code, Send(b, n, m, c)
      PROVE  Live(a) \/ Send(a, n, m, c)
  BY <1>1 DEF Send, Live, TypeOK
<1>2. ASSUME NEW b \in Attempt,
             \/ RequestLost(b) \/ RedeemCheck(b) \/ RedeemMark(b) \/ ServerLoad(b) \/ ServerSave(b)
             \/ ServerSaveFails(b)
      PROVE  Live(a)
  BY <1>2 DEF RequestLost, RedeemCheck, RedeemMark, ServerLoad, ServerSave, ServerSaveFails, Live,
              TypeOK
<1>3. ASSUME NEW b \in Attempt,
             \/ ClientReceives(b) \/ ClientRefused(b) \/ ClientTimesOut(b) \/ ClientLoad(b)
             \/ ClientSave(b) \/ ClientSaveFails(b)
      PROVE  Live(a)
  BY <1>3 DEF ClientReceives, ClientRefused, ClientTimesOut, ClientLoad, ClientSave,
              ClientSaveFails, Live, TypeOK
<1>4. ASSUME NEW n \in Node, Restart(n) PROVE Live(a)
  BY <1>4 DEF Restart, Live, TypeOK
<1>5. CASE UNCHANGED <<client, server>>
  BY <1>5 DEF Live
<1> QED
  BY <1>1, <1>2, <1>3, <1>4, <1>5
  DEF Next, vars, parts, Tick, Issue, RemoveLoad, RemoveSave, RemoveFails

OneLive == \A a, b \in Attempt : Live(a) /\ Live(b) => a = b
Newest == \A a \in Attempt : Live(a) /\ attempt[a].token # NoToken => attempt[a].token = minted
Answered == \A a \in Attempt : client[a] \in {"received", "loaded", "paired"}
                               => server[a] = "answered"

LEMMA OneLiveNext ==
  TypeOK /\ OneLive /\ overlap = "none" /\ [Next]_vars => OneLive'
<1> SUFFICES ASSUME TypeOK, OneLive, overlap = "none", [Next]_vars,
                    NEW a \in Attempt, NEW b \in Attempt, Live(a)', Live(b)'
             PROVE  a = b
  BY DEF OneLive
<1>1. \A x, y \in Attempt : (\E n, m \in Node, c \in Code : Send(x, n, m, c)) /\ Live(y)' => x = y
  BY DEF Send, Live, TypeOK
<1> QED BY <1>1, LiveNext DEF OneLive

LEMMA NewestNext ==
  TypeOK /\ PhaseInv /\ OneLive /\ Newest /\ overlap = "none" /\ [Next]_vars => Newest'
<1> SUFFICES ASSUME TypeOK, PhaseInv, OneLive, Newest, overlap = "none", [Next]_vars,
                    NEW a \in Attempt, Live(a)', attempt'[a].token # NoToken
             PROVE  attempt'[a].token = minted'
  BY DEF Newest
<1>1. ASSUME NEW b \in Attempt, NEW n \in Node, NEW m \in Node, NEW c \in Code, Send(b, n, m, c)
      PROVE  FALSE
  <2>1. attempt'[b].token = NoToken /\ \A x \in Attempt : ~Live(x)
    BY <1>1 DEF Send, TypeOK
  <2>2. a = b
    BY <1>1, <2>1 DEF Send, Live, TypeOK
  <2> QED BY <2>1, <2>2
<1>2. Live(a)
  BY <1>1, LiveNext
<1>3. ASSUME NEW b \in Attempt, RedeemMark(b) PROVE attempt'[a].token = minted'
  <2>1. Live(b)
    BY <1>3 DEF RedeemMark, Live
  <2> QED BY <1>2, <1>3, <2>1 DEF OneLive, RedeemMark, TypeOK
<1>4. CASE UNCHANGED <<attempt, minted>>
  BY <1>2, <1>4 DEF Newest
<1> QED BY <1>1, <1>3, <1>4, AttemptFrame

LEMMA AnsweredNext == TypeOK /\ PhaseInv /\ Answered /\ [Next]_vars => Answered'
<1> SUFFICES ASSUME TypeOK, PhaseInv, Answered, [Next]_vars, NEW a \in Attempt,
                    client'[a] \in {"received", "loaded", "paired"}
             PROVE  server[a] = "answered"
  BY EndedStays DEF Answered
<1>1. ASSUME NEW b \in Attempt, NEW n \in Node, NEW m \in Node, NEW c \in Code, Send(b, n, m, c)
      PROVE  server[a] = "answered"
  BY <1>1 DEF Send, Answered, TypeOK
<1>2. ASSUME NEW b \in Attempt,
             \/ ClientReceives(b) \/ ClientRefused(b) \/ ClientTimesOut(b) \/ ClientLoad(b)
             \/ ClientSave(b) \/ ClientSaveFails(b)
      PROVE  server[a] = "answered"
  BY <1>2 DEF ClientReceives, ClientRefused, ClientTimesOut, ClientLoad, ClientSave,
              ClientSaveFails, Answered, TypeOK
<1>3. ASSUME NEW n \in Node, Restart(n) PROVE server[a] = "answered"
  BY <1>3 DEF Restart, Answered, TypeOK
<1>4. CASE UNCHANGED client
  BY <1>4 DEF Answered
<1> QED
  BY <1>1, <1>2, <1>3, <1>4
  DEF Next, vars, parts, Tick, Issue, RemoveLoad, RemoveSave, RemoveFails, RequestLost,
      RedeemCheck, RedeemMark, ServerLoad, ServerSave, ServerSaveFails

LEMMA SupersededStays ==
  ASSUME TypeOK, PhaseInv, [Next]_vars, NEW a \in Attempt, attempt[a].token # NoToken, Superseded(a)
  PROVE  Superseded(a)'
<1>1. PICK b \in Attempt : /\ attempt[b].token > attempt[a].token
                           /\ {attempt[b].from, attempt[b].to} = {attempt[a].from, attempt[a].to}
  BY DEF Superseded
<1>2. attempt[b].token # NoToken
  BY <1>1 DEF TypeOK, NoToken
<1>3. /\ attempt'[a].token = attempt[a].token /\ attempt'[b].token = attempt[b].token
      /\ attempt'[a].from = attempt[a].from /\ attempt'[b].from = attempt[b].from
      /\ attempt'[a].to = attempt[a].to /\ attempt'[b].to = attempt[b].to
  BY <1>2, MintedKept
<1> QED BY <1>1, <1>3 DEF Superseded

(* A record is lost only to an update for the same peer.                   *)
LEMMA HoldsStays ==
  ASSUME TypeOK, OneSection, Current, [Next]_vars,
         NEW n \in Node, NEW m \in Node, NEW t, Holds(n, m, t)
  PROVE  \/ Holds(n, m, t)'
         \/ \E b \in Attempt : ServerStores(b) /\ attempt[b].to = n /\ attempt[b].from = m
         \/ \E b \in Attempt : ClientStores(b) /\ attempt[b].from = n /\ attempt[b].to = m
<1>1. ASSUME NEW b \in Attempt, ServerStores(b), ~(attempt[b].to = n /\ attempt[b].from = m)
      PROVE  Holds(n, m, t)'
  BY <1>1 DEF ServerStores, ServerSave, Holds, Upserted, TypeOK
<1>2. ASSUME NEW b \in Attempt, ClientStores(b), ~(attempt[b].from = n /\ attempt[b].to = m)
      PROVE  Holds(n, m, t)'
  BY <1>2 DEF ClientStores, ClientSave, Holds, Upserted, TypeOK
<1>3. ASSUME NEW k \in Node, Removes(k) PROVE Holds(n, m, t)'
  <2>1. CASE <<n, t>> \in removed
    BY <1>3, <2>1 DEF Removes, Holds
  <2>2. CASE k # n
    BY <1>3, <2>2 DEF Removes, Holds, TypeOK
  <2>3. CASE k = n /\ [name |-> m, token |-> t] \in peers[n]
    <3> DEFINE p == [name |-> m, token |-> t]
    <3>1. p \in peers[n] /\ p.name = m /\ p.token = t
      BY <2>3
    <3> HIDE DEF p
    <3>2. CASE removal[n].name = m
      <4>1. <<n, p.token>> \in removed'
        BY <1>3, <2>3, <3>1, <3>2 DEF Removes
      <4> QED BY <3>1, <4>1 DEF Holds
    <3>3. CASE removal[n].name # m
      <4>1. p \in peers'[n]
        BY <1>3, <2>3, <3>1, <3>3 DEF Removes, Without, TypeOK
      <4> QED BY <4>1 DEF Holds, p
    <3> QED BY <3>2, <3>3
  <2> QED BY <2>1, <2>2, <2>3 DEF Holds
<1>4. CASE UNCHANGED <<peers, removed>>
  BY <1>4 DEF Holds
<1> QED BY <1>1, <1>2, <1>3, <1>4, PeersFrame

(* The attempt that updates a store has a token newer than any other.      *)
LEMMA Supersedes ==
  ASSUME TypeOK, PhaseInv, TokenInv, Newest, NEW a \in Attempt, NEW b \in Attempt \ {a},
         attempt[a].token # NoToken, server[b] = "loaded" \/ client[b] = "loaded",
         {attempt[b].from, attempt[b].to} = {attempt[a].from, attempt[a].to}
  PROVE  Superseded(a)
<1>1. Live(b) /\ attempt[b].token # NoToken
  BY DEF Live, PhaseInv
<1>2. attempt[b].token = minted /\ attempt[a].token <= minted /\ attempt[a].token # attempt[b].token
  BY <1>1 DEF Newest, TokenInv
<1>3. attempt[a].token \in Nat /\ attempt[b].token \in Nat /\ minted \in Nat
  BY DEF TypeOK
<1>4. attempt[b].token > attempt[a].token
  BY <1>2, <1>3
<1> QED BY <1>4 DEF Superseded

(* An attempt whose part says it has stored the token stores it just then. *)
LEMMA StoredNow ==
  ASSUME TypeOK, OneSection, Current, [Next]_vars, NEW a \in Attempt
  PROVE  /\ server'[a] = "answered" => server[a] = "answered" \/ ServerStores(a)
         /\ client'[a] = "paired" => client[a] = "paired" \/ ClientStores(a)
<1>1. ASSUME NEW b \in Attempt, Attempting(b)
      PROVE  /\ server'[a] = "answered" => server[a] = "answered" \/ ServerSave(a)
             /\ client'[a] = "paired" => client[a] = "paired" \/ ClientSave(a)
  <2>1. CASE \E n, m \in Node, c \in Code : Send(b, n, m, c)
    BY <2>1 DEF Send, TypeOK
  <2>2. CASE \/ RequestLost(b) \/ RedeemCheck(b) \/ RedeemMark(b) \/ ServerLoad(b)
             \/ ServerSaveFails(b)
    BY <2>2 DEF RequestLost, RedeemCheck, RedeemMark, ServerLoad, ServerSaveFails, TypeOK
  <2>3. CASE \/ ClientReceives(b) \/ ClientRefused(b) \/ ClientTimesOut(b) \/ ClientLoad(b)
             \/ ClientSaveFails(b)
    BY <2>3 DEF ClientReceives, ClientRefused, ClientTimesOut, ClientLoad, ClientSaveFails, TypeOK
  <2>4. CASE ServerSave(b)
    <3>1. UNCHANGED client /\ \A x \in Attempt \ {b} : server'[x] = server[x]
      BY <2>4 DEF ServerSave, TypeOK
    <3> QED BY <2>4, <3>1
  <2>5. CASE ClientSave(b)
    <3>1. UNCHANGED server /\ \A x \in Attempt \ {b} : client'[x] = client[x]
      BY <2>5 DEF ClientSave, TypeOK
    <3> QED BY <2>5, <3>1
  <2> QED BY <1>1, <2>1, <2>2, <2>3, <2>4, <2>5 DEF Attempting
<1>2. ASSUME NEW n \in Node, Restart(n)
      PROVE  /\ server'[a] = "answered" => server[a] = "answered"
             /\ client'[a] = "paired" => client[a] = "paired"
  BY <1>2 DEF Restart, TypeOK
<1>3. CASE UNCHANGED <<client, server>>
  BY <1>3
<1>4. /\ server'[a] = "answered" => server[a] = "answered" \/ ServerSave(a)
      /\ client'[a] = "paired" => client[a] = "paired" \/ ClientSave(a)
  BY <1>1, <1>2, <1>3 DEF Next, Attempting, vars, parts, Tick, Issue, RemoveLoad, RemoveSave,
                          RemoveFails
<1> QED BY <1>4, Updates

LEMMA TrustNext ==
  /\ TypeOK /\ TokenInv /\ PhaseInv /\ OneSection /\ Current /\ RemovedInv
  /\ TrustInv /\ overlap = "none" /\ [Next]_vars
  => TrustInv'
<1> SUFFICES ASSUME TypeOK, TokenInv, PhaseInv, OneSection, Current, RemovedInv, TrustInv,
                    overlap = "none", [Next]_vars
             PROVE  TrustInv'
  OBVIOUS
<1>1. OneLive /\ Newest /\ Answered
  BY DEF TrustInv, OneLive, Newest, Answered
<1>2. OneLive' /\ Newest' /\ Answered'
  BY <1>1, OneLiveNext, NewestNext, AnsweredNext
<1>3. ASSUME NEW a \in Attempt, ~Superseded(a)', attempt[a].token # NoToken
      PROVE  /\ ~Superseded(a)
             /\ attempt'[a].token = attempt[a].token
             /\ attempt'[a].from = attempt[a].from /\ attempt'[a].to = attempt[a].to
  BY <1>3, SupersededStays, MintedKept
<1>4. ASSUME NEW a \in Attempt, ~Superseded(a)', attempt[a].token # NoToken,
             NEW b \in Attempt \ {a}, server[b] = "loaded" \/ client[b] = "loaded",
             {attempt[b].from, attempt[b].to} = {attempt[a].from, attempt[a].to}
      PROVE  FALSE
  BY <1>1, <1>3, <1>4, Supersedes
<1>5. /\ \A b \in Attempt : ServerStores(b) => server[b] = "loaded"
      /\ \A b \in Attempt : ClientStores(b) => client[b] = "loaded"
  BY DEF ServerStores, ServerSave, ClientStores, ClientSave
<1>6. ASSUME NEW a \in Attempt, ~Superseded(a)', server[a] = "answered"
      PROVE  Holds(attempt[a].to, attempt[a].from, attempt[a].token)'
  <2>1. attempt[a].token # NoToken /\ client[a] # "idle"
    BY <1>6 DEF PhaseInv
  <2>2. /\ attempt[a].from \in Node /\ attempt[a].to \in Node
        /\ attempt[a].from # attempt[a].to
    BY <2>1 DEF TypeOK, RemovedInv
  <2>3. Holds(attempt[a].to, attempt[a].from, attempt[a].token)
    BY <1>3, <1>6, <2>1 DEF TrustInv
  <2>4. ASSUME NEW b \in Attempt, ServerStores(b),
               attempt[b].to = attempt[a].to, attempt[b].from = attempt[a].from
        PROVE  FALSE
    BY <1>4, <1>5, <1>6, <2>1, <2>4
  <2>5. ASSUME NEW b \in Attempt, ClientStores(b),
               attempt[b].from = attempt[a].to, attempt[b].to = attempt[a].from
        PROVE  FALSE
    BY <1>4, <1>5, <1>6, <2>1, <2>2, <2>5
  <2> DEFINE n == attempt[a].to
             m == attempt[a].from
             t == attempt[a].token
  <2>6. n \in Node /\ m \in Node /\ Holds(n, m, t)
    BY <2>2, <2>3
  <2>7. /\ ~\E b \in Attempt : ServerStores(b) /\ attempt[b].to = n /\ attempt[b].from = m
        /\ ~\E b \in Attempt : ClientStores(b) /\ attempt[b].from = n /\ attempt[b].to = m
    BY <2>4, <2>5
  <2>8. n' = n /\ m' = m /\ t' = t
    BY <1>3, <1>6, <2>1
  <2> QED BY <2>6, <2>7, <2>8, HoldsStays DEF Holds
<1>7. ASSUME NEW a \in Attempt, ~Superseded(a)', client[a] = "paired"
      PROVE  Holds(attempt[a].from, attempt[a].to, attempt[a].token)'
  <2>1. attempt[a].token # NoToken /\ server[a] = "answered"
    BY <1>7 DEF PhaseInv, TrustInv
  <2>2. /\ attempt[a].from \in Node /\ attempt[a].to \in Node
        /\ attempt[a].from # attempt[a].to
    BY <1>7 DEF TypeOK, RemovedInv
  <2>3. Holds(attempt[a].from, attempt[a].to, attempt[a].token)
    BY <1>3, <1>7, <2>1 DEF TrustInv
  <2>4. ASSUME NEW b \in Attempt, ServerStores(b),
               attempt[b].to = attempt[a].from, attempt[b].from = attempt[a].to
        PROVE  FALSE
    BY <1>4, <1>5, <1>7, <2>1, <2>2, <2>4
  <2>5. ASSUME NEW b \in Attempt, ClientStores(b),
               attempt[b].from = attempt[a].from, attempt[b].to = attempt[a].to
        PROVE  FALSE
    BY <1>4, <1>5, <1>7, <2>1, <2>5
  <2> DEFINE n == attempt[a].from
             m == attempt[a].to
             t == attempt[a].token
  <2>6. n \in Node /\ m \in Node /\ Holds(n, m, t)
    BY <2>2, <2>3
  <2>7. /\ ~\E b \in Attempt : ServerStores(b) /\ attempt[b].to = n /\ attempt[b].from = m
        /\ ~\E b \in Attempt : ClientStores(b) /\ attempt[b].from = n /\ attempt[b].to = m
    BY <2>4, <2>5
  <2>8. n' = n /\ m' = m /\ t' = t
    BY <1>3, <1>7, <2>1
  <2> QED BY <2>6, <2>7, <2>8, HoldsStays DEF Holds
<1>8. ASSUME NEW a \in Attempt, ServerStores(a)
      PROVE  Holds(attempt[a].to, attempt[a].from, attempt[a].token)'
  BY <1>8 DEF ServerStores, ServerSave, Holds, Upserted, TypeOK
<1>9. ASSUME NEW a \in Attempt, ClientStores(a)
      PROVE  Holds(attempt[a].from, attempt[a].to, attempt[a].token)'
  BY <1>9 DEF ClientStores, ClientSave, Holds, Upserted, TypeOK
<1>10. \A a \in Attempt : /\ server'[a] = "answered" => server[a] = "answered" \/ ServerStores(a)
                          /\ client'[a] = "paired" => client[a] = "paired" \/ ClientStores(a)
  BY StoredNow
<1> QED
  BY <1>2, <1>6, <1>7, <1>8, <1>9, <1>10 DEF TrustInv, OneLive, Newest, Answered

LEMMA SerialInvNext ==
  TypeOK /\ TokenInv /\ PhaseInv /\ SectionInv /\ SerialInv /\ [Next]_vars => SerialInv'
BY OverlapFixed, TrustNext DEF SectionInv, SerialInv
-----------------------------------------------------------------------------
(* The theorems.                                                           *)

LEMMA InvInit == Init => IInv
<1> SUFFICES ASSUME Init PROVE IInv
  OBVIOUS
<1>1. \A a \in Attempt : /\ attempt[a].token = NoToken
                         /\ client[a] = "idle" /\ server[a] = "idle"
  BY DEF Init, NoAttempt
<1>2. TokenInv
  BY <1>1 DEF Init, TokenInv, NoToken
<1>3. PhaseInv
  BY <1>1 DEF PhaseInv
<1>4. ListInv
  BY <1>1, SoundEmpty DEF Init, ListInv, NoRemoval
<1>5. CodeInv
  BY <1>1 DEF Init, CodeInv
<1>6. ExclusiveInv
  BY <1>1 DEF ExclusiveInv, RedeemedOnce
<1>7. \A n \in Node : peers[n] = {} /\ ~removal[n].busy
  BY DEF Init, NoRemoval
<1>8. SectionInv
  BY <1>1, <1>7 DEF Init, SectionInv, OneSection, Current, RemovedInv, RemovedStaysOut, Serves,
                    Stores
<1>9. SerialInv
  BY <1>1 DEF SerialInv, TrustInv, Live
<1> QED BY <1>2, <1>3, <1>4, <1>5, <1>6, <1>8, <1>9, TypeInit DEF IInv

(* The strengthening is inductive, however the parts interleave.           *)
THEOREM Invariant == Spec => []IInv
<1>1. IInv /\ [Next]_vars => IInv'
  BY TypeNext, TokenNext, PhaseNext, ListNext, CodeNext, ExclusiveNext,
     SectionInvNext, SerialInvNext
  DEF IInv
<1> QED BY InvInit, <1>1, PTL DEF Spec

(* Every reachable state is well typed.                                    *)
THEOREM TypeCorrect == Spec => []TypeOK
<1>1. IInv => TypeOK
  BY DEF IInv
<1> QED BY <1>1, Invariant, PTL

(* A trust store names each peer once (trust_store.py, upsert_peer), even  *)
(* when its unlocked updates overwrite each other.                         *)
THEOREM OneRecordPerNameHolds == Spec => []OneRecordPerName
<1>1. IInv => OneRecordPerName
  BY DEF IInv, ListInv, Sound, OneRecordPerName
<1> QED BY <1>1, Invariant, PTL

(* A token a node accepts was minted for the one peer it is stored under   *)
(* (app.py, pair; trust_store.py, find_peer_by_token).                     *)
THEOREM OwnTokenHolds == Spec => []OwnToken
<1>1. IInv => OwnToken
  BY OwnTokens DEF IInv
<1> QED BY <1>1, Invariant, PTL

(* Where store sections of a node do not overlap, redeem accepts a code at *)
(* most once (pairing.py, redeem).                                         *)
THEOREM CodesWorkOnceHolds == Spec => []CodesWorkOnce
<1>1. IInv => CodesWorkOnce
  BY DEF IInv, ExclusiveInv, CodesWorkOnce
<1> QED BY <1>1, Invariant, PTL

(* Where store sections of a node do not overlap, a trust store never      *)
(* holds a token whose removal was acknowledged (trust_store.py,           *)
(* remove_peer): no update brings it back.                                 *)
THEOREM RemovalsHoldAlways == Spec => []RemovalsHold
<1>1. IInv => RemovalsHold
  BY DEF IInv, SectionInv, RemovedInv, RemovalsHold
<1> QED BY <1>1, Invariant, PTL

(* With one handshake at a time, a reported success means that both nodes  *)
(* hold its token for each other (app.py, pair; cli.py, cmd_pair), however *)
(* the attempts before it were cut off.                                    *)
THEOREM PairedBothWaysHolds == Spec => []PairedBothWays
<1>1. IInv => PairedBothWays
  BY DEF IInv, SerialInv, TrustInv, PairedBothWays, MutualTrust
<1> QED BY <1>1, Invariant, PTL
=============================================================================
