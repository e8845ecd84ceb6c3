--------------------------- MODULE FederationProofs ---------------------------
(***************************************************************************)
(* Proofs about Federation, for every trust graph, hop budget and timeout. *)
(* The invariant is stated of one request at a time: the sets of entries   *)
(* it holds are compared with what its page knew, since[Head(p)], and with *)
(* what the nodes offer now, rev.                                          *)
(***************************************************************************)
EXTENDS Federation, SequenceTheorems, WellFoundedInduction, TLAPS

RequestType(c) == [visited : SUBSET Node, ttl : 0..MaxHops,
                   st : {"sent", "running", "answered", "refused"},
                   own : SUBSET Entry, got : {c.got}, list : SUBSET Entry]

Typed(p, c) == /\ p \in Seq(Node) /\ p # <<>> /\ Head(p) \in Root
               /\ c \in RequestType(c)
               /\ DOMAIN c.got \subseteq Node
               /\ c.got \in [DOMAIN c.got -> Fetch]

(* A request knows exactly the nodes it came through.                      *)
Passed(p) == {p[i] : i \in 1..(Len(p) - 1)}

Bounded(p, c) == /\ c.visited = Passed(p)
                 /\ c.ttl = MaxHops + 1 - Len(p)
                 /\ IsInjective(p)

(* A list that was tagged: every entry names its owner, once, and is what  *)
(* the owner offered at some time since the page was asked for.            *)
Attributed(list) == \A e \in list : e.origin = e.owner
Unique(list) == \A e, f \in list : Key(e) = Key(f) => e = f
Recent(list, s, v) == \A e \in list : s[e.owner] <= e.rev /\ e.rev <= v[e.owner]
Sound(list, s, v) == Attributed(list) /\ Unique(list) /\ Recent(list, s, v)

(* A catalogue of n, before it is tagged.                                  *)
Own(n, list, s, v) == /\ \A e \in list : e.origin = Untagged /\ e.owner = n
                      /\ \A e, f \in list : e.name = f.name => e = f
                      /\ Recent(list, s, v)

(* The services of m are all on the list.                                  *)
Shows(m, list) == \A x \in Offers[m] : \E e \in list : e.origin = m /\ e.name = x

ListsSound(p, c, s, v) ==
  /\ Own(Last(p), c.own, s, v)
  /\ Sound(c.list, s, v)
  /\ \A m \in DOMAIN c.got : Sound(c.got[m].list, s, v)

(* What a handler asked, what came of it, and what its answer shows.       *)
Progress(p, c) ==
  /\ c.st = "sent" => DOMAIN c.got = {}
  /\ c.st = "running" => /\ DOMAIN c.got = Asked(Last(p), c)
                         /\ \A x \in Offers[Last(p)] : \E e \in c.own : e.name = x
  /\ c.st = "answered" =>
       /\ ~Stops(Last(p), c) => DOMAIN c.got = Asked(Last(p), c)
       /\ Shows(Last(p), c.list)
       /\ \A m \in DOMAIN c.got : /\ c.got[m].st # "waiting"
                                  /\ c.got[m].st = "answered" => Shows(m, c.list)
  /\ \A m \in DOMAIN c.got : c.got[m].st = "answered" => Shows(m, c.got[m].list)

RequestOK(p, c, s, v) == /\ Typed(p, c)
                         /\ Bounded(p, c)
                         /\ ListsSound(p, c, s, v)
                         /\ Progress(p, c)

IInv == /\ TypeOK
        /\ \A r \in Root : \A n \in Node : since[r][n] <= rev[n]
        /\ \A p \in Paths : RequestOK(p, request[p], since[Head(p)], rev)
-----------------------------------------------------------------------------
(* Paths and numbers.                                                      *)

LEMMA Parameters ==
  /\ Root \subseteq Node
  /\ \A n \in Node : Trust[n] \in Seq(Node)
  /\ Untagged \notin Node
  /\ MaxHops \in Nat
  /\ PeerTimeout \in Nat /\ PeerTimeout > 0
  /\ MaxRev \in Nat
  /\ \A n \in Node : Offers[n] \subseteq Services
BY FederationAssumption DEF FederationAssumption, Services

LEMMA LeastElement ==
  ASSUME NEW T \in SUBSET Nat, T # {}
  PROVE  \E x \in T : \A y \in T : x <= y
<1>1. PICK x \in T : \A y \in T : ~(<<y, x>> \in OpToRel(<, Nat))
  BY NatLessThanWellFounded, WFMin
<1>2. \A y \in T : ~(y < x)
  BY <1>1 DEF OpToRel
<1> QED BY <1>2

LEMMA Longer ==
  ASSUME NEW p \in Seq(Node), p # <<>>, NEW m \in Node
  PROVE  /\ Append(p, m) \in Seq(Node) /\ Append(p, m) # <<>>
         /\ Front(Append(p, m)) = p
         /\ Last(Append(p, m)) = m
         /\ Head(Append(p, m)) = Head(p)
         /\ Len(p) \in Nat /\ Len(p) >= 1
         /\ Len(Append(p, m)) = Len(p) + 1
         /\ Passed(Append(p, m)) = Passed(p) \union {Last(p)}
<1>1. /\ Append(p, m) \in Seq(Node) /\ Append(p, m) # <<>>
      /\ Len(Append(p, m)) = Len(p) + 1
      /\ Len(p) \in Nat /\ Len(p) >= 1
      /\ \A i \in 1..Len(p) : Append(p, m)[i] = p[i]
      /\ Append(p, m)[Len(p) + 1] = m
      /\ Head(Append(p, m)) = Head(p)
  OBVIOUS
<1>2. Front(Append(p, m)) \in Seq(Node) /\ Len(Front(Append(p, m))) = Len(p)
  BY DEF Front
<1>3. Front(Append(p, m)) = p
  BY <1>2, SeqEqual DEF Front
<1>4. Passed(Append(p, m)) = {p[i] : i \in 1..Len(p)}
  BY <1>1 DEF Passed
<1>5. 1..Len(p) = (1..(Len(p) - 1)) \union {Len(p)}
  BY <1>1
<1>6. Passed(Append(p, m)) = Passed(p) \union {Last(p)}
  BY <1>4, <1>5 DEF Passed, Last
<1> QED BY <1>1, <1>3, <1>6 DEF Last

LEMMA Shorter ==
  ASSUME NEW p \in Seq(Node), p # <<>>, ~Top(p)
  PROVE  /\ Front(p) \in Seq(Node) /\ Front(p) # <<>>
         /\ Head(Front(p)) = Head(p)
         /\ Last(p) \in Node
<1>1. PICK q \in Seq(Node), m \in Node : p = Append(q, m)
  BY SequenceEmptyOrAppend
<1>2. q # <<>>
  BY <1>1 DEF Top
<1> QED BY <1>1, <1>2, Longer

LEMMA Single ==
  ASSUME NEW r \in Node
  PROVE  /\ <<r>> \in Seq(Node) /\ <<r>> # <<>>
         /\ Head(<<r>>) = r /\ Last(<<r>>) = r /\ Len(<<r>>) = 1
         /\ Passed(<<r>>) = {}
         /\ IsInjective(<<r>>)
BY DEF Last, Passed, IsInjective

LEMMA LastIsNode == ASSUME NEW p \in Seq(Node), p # <<>> PROVE Last(p) \in Node
BY DEF Last
-----------------------------------------------------------------------------
(* The lists.                                                              *)

LEMMA CatalogueOwn ==
  ASSUME NEW n \in Node, NEW s \in [Node -> Nat], rev \in [Node -> Nat],
         \A m \in Node : s[m] <= rev[m]
  PROVE  /\ Catalogue(n) \subseteq Entry
         /\ Own(n, Catalogue(n), s, rev)
         /\ \A x \in Offers[n] : \E e \in Catalogue(n) : e.name = x
<1>1. \A e \in Catalogue(n) : \E x \in Offers[n] :
        e = [name |-> x, owner |-> n, rev |-> rev[n], origin |-> Untagged]
  BY DEF Catalogue
<1>2. \A x \in Offers[n] :
        [name |-> x, owner |-> n, rev |-> rev[n], origin |-> Untagged] \in Entry
  BY Parameters DEF Entry
<1>3. Catalogue(n) \subseteq Entry
  BY <1>1, <1>2
<1>4. \A e \in Catalogue(n) : e.owner = n /\ e.rev = rev[n] /\ e.origin = Untagged
  BY <1>1
<1>5. \A e, f \in Catalogue(n) : e.name = f.name => e = f
  BY <1>1
<1>6. ASSUME NEW x \in Offers[n] PROVE \E e \in Catalogue(n) : e.name = x
  <2>1. [name |-> x, owner |-> n, rev |-> rev[n], origin |-> Untagged] \in Catalogue(n)
    BY DEF Catalogue
  <2> QED BY <2>1
<1> QED BY <1>3, <1>4, <1>5, <1>6 DEF Own, Recent

LEMMA LocalOnlySound ==
  ASSUME NEW n \in Node, NEW s \in [Node -> Nat], rev \in [Node -> Nat],
         \A m \in Node : s[m] <= rev[m]
  PROVE  /\ LocalOnly(n) \subseteq Entry
         /\ Sound(LocalOnly(n), s, rev)
         /\ Shows(n, LocalOnly(n))
<1> DEFINE entry(x) == [name |-> x, owner |-> n, rev |-> rev[n], origin |-> n]
<1>1. \A x \in Offers[n] : entry(x) \in Entry
  BY Parameters DEF Entry
<1>2. \A e \in LocalOnly(n) : \E x \in Offers[n] : e = entry(x)
  BY DEF LocalOnly, Catalogue
<1>3. ASSUME NEW x \in Offers[n] PROVE entry(x) \in LocalOnly(n)
  <2> DEFINE e == [name |-> x, owner |-> n, rev |-> rev[n], origin |-> Untagged]
  <2>1. e \in Catalogue(n)
    BY DEF Catalogue
  <2>2. entry(x) = [e EXCEPT !.origin = n]
    OBVIOUS
  <2> QED BY <2>1, <2>2 DEF LocalOnly
<1>4. LocalOnly(n) \subseteq Entry
  BY <1>1, <1>2
<1>5. \A e \in LocalOnly(n) : e.owner = n /\ e.rev = rev[n] /\ e.origin = n
  BY <1>2
<1>6. Unique(LocalOnly(n))
  BY <1>2 DEF Unique, Key
<1>7. Shows(n, LocalOnly(n))
  BY <1>3 DEF Shows
<1> QED BY <1>4, <1>5, <1>6, <1>7 DEF Sound, Attributed, Recent

(* A list that was tagged is not tagged again.                             *)
LEMMA TaggedOnce ==
  ASSUME NEW list \in SUBSET Entry, Attributed(list), NEW m
  PROVE  Tagged(list, m) = list
BY Parameters DEF Tagged, Attributed, Entry

LEMMA TaggedOwn ==
  ASSUME NEW n \in Node, NEW list \in SUBSET Entry, NEW s, NEW v, Own(n, list, s, v)
  PROVE  /\ Tagged(list, n) \subseteq Entry
         /\ Sound(Tagged(list, n), s, v)
         /\ \A x : (\E e \in list : e.name = x)
                   => \E e \in Tagged(list, n) : e.origin = n /\ e.name = x
<1>1. Tagged(list, n) = {[e EXCEPT !.origin = n] : e \in list}
  BY DEF Tagged, Own
<1>2. ASSUME NEW e \in list
      PROVE  /\ [e EXCEPT !.origin = n] \in Entry
             /\ [e EXCEPT !.origin = n].origin = n
             /\ [e EXCEPT !.origin = n].owner = n
             /\ [e EXCEPT !.origin = n].name = e.name
             /\ [e EXCEPT !.origin = n].rev = e.rev
             /\ e.owner = n
  BY DEF Own, Entry
<1>3. \A f \in Tagged(list, n) : \E e \in list : f = [e EXCEPT !.origin = n]
  BY <1>1
<1>4. \A e \in list : [e EXCEPT !.origin = n] \in Tagged(list, n)
  BY <1>1
<1>5. Tagged(list, n) \subseteq Entry
  BY <1>2, <1>3
<1>6. \A f \in Tagged(list, n) : /\ f.origin = n /\ f.owner = n
                                 /\ \E e \in list : e.owner = n /\ e.rev = f.rev
  BY <1>2, <1>3
<1>7. Attributed(Tagged(list, n)) /\ Recent(Tagged(list, n), s, v)
  BY <1>6 DEF Attributed, Recent, Own
<1>8. Unique(Tagged(list, n))
  <2> SUFFICES ASSUME NEW f \in Tagged(list, n), NEW g \in Tagged(list, n), Key(f) = Key(g)
               PROVE  f = g
    BY DEF Unique
  <2>1. PICK e \in list : f = [e EXCEPT !.origin = n]
    BY <1>3
  <2>2. PICK d \in list : g = [d EXCEPT !.origin = n]
    BY <1>3
  <2>3. e.name = f.name /\ d.name = g.name
    BY <1>2, <2>1, <2>2
  <2>4. f.name = g.name
    BY DEF Key
  <2>5. e = d
    BY <2>3, <2>4 DEF Own
  <2> QED BY <2>1, <2>2, <2>5
<1>9. ASSUME NEW e \in list
      PROVE  \E f \in Tagged(list, n) : f.origin = n /\ f.name = e.name
  BY <1>2, <1>4
<1> QED BY <1>5, <1>7, <1>8, <1>9 DEF Sound

LEMMA PartSound ==
  ASSUME NEW p, NEW c, NEW s, NEW v, RequestOK(p, c, s, v), NEW i \in 0..Len(Trust[Last(p)])
  PROVE  Part(c, Last(p), i) \subseteq Entry /\ Sound(Part(c, Last(p), i), s, v)
<1> DEFINE me == Last(p)
<1>1. me \in Node /\ c.own \in SUBSET Entry
  BY LastIsNode DEF RequestOK, Typed, RequestType
<1>2. CASE i = 0
  BY <1>1, <1>2, TaggedOwn DEF Part, RequestOK, ListsSound
<1>3. CASE i # 0 /\ Trust[me][i] \in DOMAIN c.got
  <2> DEFINE m == Trust[me][i]
  <2>1. c.got[m].list \in SUBSET Entry /\ Sound(c.got[m].list, s, v)
    BY <1>3 DEF RequestOK, Typed, ListsSound, Fetch
  <2>2. Tagged(c.got[m].list, m) = c.got[m].list
    BY <2>1, TaggedOnce DEF Sound
  <2> QED BY <1>3, <2>1, <2>2 DEF Part
<1>4. CASE i # 0 /\ Trust[me][i] \notin DOMAIN c.got
  BY <1>4 DEF Part, Sound, Attributed, Unique, Recent
<1> QED BY <1>2, <1>3, <1>4

(* A key of any part is kept: the first part that has it contributes it.   *)
LEMMA MergedKeeps ==
  ASSUME NEW c, NEW me \in Node, NEW i \in 0..Len(Trust[me]), NEW e \in Part(c, me, i)
  PROVE  \E f \in Merged(c, me) : Key(f) = Key(e)
<1> DEFINE T == {j \in 0..Len(Trust[me]) : \E f \in Part(c, me, j) : Key(f) = Key(e)}
<1>1. T \in SUBSET Nat /\ i \in T
  BY Parameters
<1>2. PICK j \in T : \A k \in T : j <= k
  BY <1>1, LeastElement
<1>3. PICK f \in Part(c, me, j) : Key(f) = Key(e)
  OBVIOUS
<1>4. \A k \in 0..(j - 1) : k \in 0..Len(Trust[me]) /\ ~(j <= k)
  BY <1>2, Parameters
<1>5. \A k \in 0..(j - 1) : \A g \in Part(c, me, k) : Key(g) # Key(f)
  BY <1>2, <1>3, <1>4
<1>6. f \in Merged(c, me)
  BY <1>3, <1>5 DEF Merged
<1> QED BY <1>3, <1>6

LEMMA MergedSound ==
  ASSUME NEW p, NEW c, NEW s, NEW v, RequestOK(p, c, s, v)
  PROVE  Merged(c, Last(p)) \subseteq Entry /\ Sound(Merged(c, Last(p)), s, v)
<1> DEFINE me == Last(p)
           all == Merged(c, me)
<1>1. Len(Trust[me]) \in Nat
  BY Parameters, LastIsNode DEF RequestOK, Typed
<1>2. \A e \in all : \E i \in 0..Len(Trust[me]) :
        /\ e \in Part(c, me, i)
        /\ \A j \in 0..(i - 1) : \A f \in Part(c, me, j) : Key(f) # Key(e)
  BY DEF Merged
<1>3. all \subseteq Entry /\ Attributed(all) /\ Recent(all, s, v)
  BY <1>2, PartSound DEF Sound, Attributed, Recent
<1>4. ASSUME NEW e \in all, NEW f \in all, Key(e) = Key(f) PROVE e = f
  <2>1. PICK i \in 0..Len(Trust[me]) :
          /\ e \in Part(c, me, i)
          /\ \A j \in 0..(i - 1) : \A g \in Part(c, me, j) : Key(g) # Key(e)
    BY <1>2
  <2>2. PICK k \in 0..Len(Trust[me]) :
          /\ f \in Part(c, me, k)
          /\ \A j \in 0..(k - 1) : \A g \in Part(c, me, j) : Key(g) # Key(f)
    BY <1>2
  <2>3. k \notin 0..(i - 1) /\ i \notin 0..(k - 1)
    BY <1>4, <2>1, <2>2
  <2>4. i = k
    BY <1>1, <2>3
  <2> QED BY <1>4, <2>1, <2>2, <2>4, PartSound DEF Sound, Unique
<1> QED BY <1>3, <1>4 DEF Sound, Unique

(* A merged list shows the node itself and every peer that answered.       *)
LEMMA MergedShows ==
  ASSUME NEW p, NEW c, NEW s, NEW v, RequestOK(p, c, s, v), c.st = "running"
  PROVE  /\ Shows(Last(p), Merged(c, Last(p)))
         /\ \A m \in DOMAIN c.got : c.got[m].st = "answered" => Shows(m, Merged(c, Last(p)))
<1> DEFINE me == Last(p)
<1>1. me \in Node /\ Len(Trust[me]) \in Nat /\ c.own \in SUBSET Entry
  BY Parameters, LastIsNode DEF RequestOK, Typed, RequestType
<1>2. ASSUME NEW i \in 0..Len(Trust[me]), NEW m, Shows(m, Part(c, me, i))
      PROVE  Shows(m, Merged(c, me))
  <2> SUFFICES ASSUME NEW x \in Offers[m]
               PROVE  \E e \in Merged(c, me) : e.origin = m /\ e.name = x
    BY DEF Shows
  <2>1. PICK e \in Part(c, me, i) : e.origin = m /\ e.name = x
    BY <1>2 DEF Shows
  <2>2. PICK f \in Merged(c, me) : Key(f) = Key(e)
    BY <1>1, <2>1, MergedKeeps
  <2> QED BY <2>1, <2>2 DEF Key
<1>3. Shows(me, Part(c, me, 0))
  <2>1. \A x \in Offers[me] : \E e \in c.own : e.name = x
    BY DEF RequestOK, Progress
  <2>2. Own(me, c.own, s, v)
    BY DEF RequestOK, ListsSound
  <2>3. Part(c, me, 0) = Tagged(c.own, me)
    BY DEF Part
  <2>4. \A x : (\E e \in c.own : e.name = x)
               => \E e \in Tagged(c.own, me) : e.origin = me /\ e.name = x
    BY <1>1, <2>2, TaggedOwn
  <2> QED BY <2>1, <2>3, <2>4 DEF Shows
<1>4. ASSUME NEW m \in DOMAIN c.got, c.got[m].st = "answered" PROVE Shows(m, Merged(c, me))
  <2>1. m \in ToSet(Trust[me])
    BY DEF RequestOK, Progress, Asked
  <2>2. PICK i \in 1..Len(Trust[me]) : Trust[me][i] = m
    BY <1>1, <2>1, Parameters DEF ToSet
  <2>3. c.got[m].list \in SUBSET Entry /\ Attributed(c.got[m].list)
    BY DEF RequestOK, Typed, ListsSound, Sound, Fetch
  <2>4. Part(c, me, i) = c.got[m].list
    BY <2>2, <2>3, TaggedOnce DEF Part
  <2>5. Shows(m, Part(c, me, i))
    BY <1>4, <2>4 DEF RequestOK, Progress
  <2> QED BY <1>1, <1>2, <2>2, <2>5
<1> QED BY <1>1, <1>2, <1>3, <1>4
-----------------------------------------------------------------------------
(* What a handler does to its request.                                     *)

LEMMA SentOK ==
  ASSUME NEW p \in Seq(Node), p # <<>>, Head(p) \in Root, NEW visited \in SUBSET Node,
         NEW ttl \in 0..MaxHops, visited = Passed(p), ttl = MaxHops + 1 - Len(p),
         IsInjective(p), NEW s, NEW v
  PROVE  RequestOK(p, Sent(visited, ttl), s, v)
<1> DEFINE c == Sent(visited, ttl)
<1>1. /\ c.visited = visited /\ c.ttl = ttl /\ c.st = "sent" /\ c.own = {} /\ c.list = {}
      /\ DOMAIN c.got = {}
      /\ c.got \in [DOMAIN c.got -> Fetch]
      /\ c \in RequestType(c)
  BY DEF Sent, RequestType
<1>2. Typed(p, c)
  BY <1>1 DEF Typed
<1>3. Bounded(p, c)
  BY <1>1 DEF Bounded
<1>4. ListsSound(p, c, s, v)
  BY <1>1 DEF ListsSound, Own, Sound, Attributed, Unique, Recent
<1>5. Progress(p, c)
  BY <1>1 DEF Progress
<1> QED BY <1>2, <1>3, <1>4, <1>5 DEF RequestOK

(* A handler that answers, with a list that is sound.                      *)
LEMMA AnsweredOK ==
  ASSUME NEW p, NEW c, NEW s, NEW v, RequestOK(p, c, s, v), NEW list \in SUBSET Entry,
         Sound(list, s, v), Shows(Last(p), list),
         ~Stops(Last(p), c) => DOMAIN c.got = Asked(Last(p), c),
         \A m \in DOMAIN c.got : /\ c.got[m].st # "waiting"
                                 /\ c.got[m].st = "answered" => Shows(m, list)
  PROVE  RequestOK(p, [c EXCEPT !.st = "answered", !.list = list], s, v)
<1> DEFINE d == [c EXCEPT !.st = "answered", !.list = list]
<1>1. /\ d.visited = c.visited /\ d.ttl = c.ttl /\ d.st = "answered" /\ d.own = c.own
      /\ d.list = list /\ d.got = c.got
      /\ d \in RequestType(d)
  BY DEF RequestOK, Typed, RequestType
<1>2. Typed(p, d)
  BY <1>1 DEF RequestOK, Typed
<1>3. Bounded(p, d)
  BY <1>1 DEF RequestOK, Bounded
<1>4. ListsSound(p, d, s, v)
  BY <1>1 DEF RequestOK, ListsSound
<1>5. (Stops(Last(p), d) <=> Stops(Last(p), c)) /\ Asked(Last(p), d) = Asked(Last(p), c)
  BY <1>1 DEF Stops, Asked, Visited
<1>6. Progress(p, d)
  BY <1>1, <1>5 DEF RequestOK, Progress
<1> QED BY <1>2, <1>3, <1>4, <1>6 DEF RequestOK

(* A handler that asks the peers.                                          *)
LEMMA AskingOK ==
  ASSUME NEW p, NEW c, NEW s \in [Node -> Nat], RequestOK(p, c, s, rev), rev \in [Node -> Nat],
         \A m \in Node : s[m] <= rev[m]
  PROVE  RequestOK(p, [c EXCEPT !.st = "running", !.own = Catalogue(Last(p)),
                                !.got = [m \in Asked(Last(p), c) |-> Waiting]], s, rev)
<1> DEFINE n == Last(p)
           got == [m \in Asked(n, c) |-> Waiting]
           d == [c EXCEPT !.st = "running", !.own = Catalogue(n), !.got = got]
<1>0. n \in Node /\ Asked(n, c) \subseteq Node
  BY LastIsNode, Parameters DEF RequestOK, Typed, Asked, ToSet
<1>1. /\ Catalogue(n) \subseteq Entry
      /\ Own(n, Catalogue(n), s, rev)
      /\ \A x \in Offers[n] : \E e \in Catalogue(n) : e.name = x
  BY <1>0, CatalogueOwn
<1>2. Waiting \in Fetch /\ Waiting.st = "waiting" /\ Waiting.list = {}
  BY Parameters DEF Waiting, Fetch
<1>3. /\ DOMAIN got = Asked(n, c) /\ got \in [DOMAIN got -> Fetch]
      /\ \A m \in DOMAIN got : got[m].st = "waiting" /\ got[m].list = {}
  BY <1>2
<1> HIDE DEF got
<1>4. /\ d.visited = c.visited /\ d.ttl = c.ttl /\ d.st = "running" /\ d.own = Catalogue(n)
      /\ d.list = c.list /\ d.got = got
      /\ d \in RequestType(d)
  BY <1>1 DEF RequestOK, Typed, RequestType
<1>5. Typed(p, d)
  BY <1>0, <1>3, <1>4 DEF RequestOK, Typed
<1>6. Bounded(p, d)
  BY <1>4 DEF RequestOK, Bounded
<1>7. ListsSound(p, d, s, rev)
  BY <1>1, <1>3, <1>4 DEF RequestOK, ListsSound, Sound, Attributed, Unique, Recent
<1>8. Asked(n, d) = Asked(n, c)
  BY <1>4 DEF Asked, Visited
<1>9. Progress(p, d)
  BY <1>1, <1>3, <1>4, <1>8 DEF Progress
<1>10. RequestOK(p, d, s, rev)
  BY <1>5, <1>6, <1>7, <1>9 DEF RequestOK
<1> QED BY <1>10 DEF d, got

(* The request a peer is sent.                                             *)
LEMMA ChildOK ==
  ASSUME NEW p, NEW c, NEW s, NEW v, RequestOK(p, c, s, v), ~Stops(Last(p), c),
         NEW m \in Asked(Last(p), c)
  PROVE  RequestOK(Append(p, m), Sent(Visited(Last(p), c), c.ttl - 1), s, v)
<1> DEFINE q == Append(p, m)
<1>0. p \in Seq(Node) /\ p # <<>> /\ Head(p) \in Root /\ Last(p) \in Node /\ m \in Node
  BY LastIsNode, Parameters DEF RequestOK, Typed, Asked, ToSet
<1>1. /\ q \in Seq(Node) /\ q # <<>> /\ Head(q) = Head(p)
      /\ Len(q) = Len(p) + 1 /\ Len(p) \in Nat
      /\ Passed(q) = Passed(p) \union {Last(p)}
  BY <1>0, Longer
<1>2. c.visited = Passed(p) /\ c.ttl = MaxHops + 1 - Len(p) /\ IsInjective(p)
  BY DEF RequestOK, Bounded
<1>3. Visited(Last(p), c) = Passed(q) /\ Visited(Last(p), c) \subseteq Node
  BY <1>0, <1>1, <1>2 DEF Visited, RequestOK, Typed, RequestType
<1>4. c.ttl - 1 \in 0..MaxHops /\ c.ttl - 1 = MaxHops + 1 - Len(q)
  <2>1. c.ttl \in 0..MaxHops /\ ~(c.ttl <= 0)
    BY DEF Stops, RequestOK, Typed, RequestType
  <2> QED BY <1>1, <1>2, <2>1, Parameters
<1>5. IsInjective(q)
  <2>1. /\ DOMAIN q = 1..(Len(p) + 1) /\ DOMAIN p = 1..Len(p)
        /\ \A i \in 1..Len(p) : q[i] = p[i]
        /\ q[Len(p) + 1] = m
    BY <1>0, <1>1
  <2>2. m \notin Passed(q)
    BY <1>3 DEF Asked
  <2>3. \A i \in 1..Len(p) : q[i] # m
    BY <1>1, <2>2 DEF Passed
  <2>4. \A i \in 1..(Len(p) + 1) : i \in 1..Len(p) \/ i = Len(p) + 1
    BY <1>1
  <2> SUFFICES ASSUME NEW i \in DOMAIN q, NEW j \in DOMAIN q, q[i] = q[j] PROVE i = j
    BY DEF IsInjective
  <2> QED BY <1>2, <2>1, <2>3, <2>4 DEF IsInjective
<1> QED BY <1>0, <1>1, <1>3, <1>4, <1>5, SentOK

(* The end of a fetch.                                                     *)
LEMMA FetchedOK ==
  ASSUME NEW p, NEW c, NEW s, NEW v, RequestOK(p, c, s, v), c.st = "running", NEW m,
         NEW st \in {"answered", "failed"}, NEW list \in SUBSET Entry, Sound(list, s, v),
         st = "answered" => Shows(m, list)
  PROVE  RequestOK(p, [c EXCEPT !.got[m] = [st |-> st, left |-> 0, list |-> list]], s, v)
<1> DEFINE end == [st |-> st, left |-> 0, list |-> list]
           got == [c.got EXCEPT ![m] = end]
           d == [c EXCEPT !.got = got]
<1>1. end \in Fetch /\ end.st = st /\ end.list = list
  BY Parameters DEF Fetch
<1> HIDE DEF end
<1>2. /\ DOMAIN got = DOMAIN c.got
      /\ got \in [DOMAIN got -> Fetch]
      /\ \A k \in DOMAIN got : got[k] = IF k = m THEN end ELSE c.got[k]
  BY <1>1 DEF RequestOK, Typed
<1> HIDE DEF got
<1>3. /\ d.visited = c.visited /\ d.ttl = c.ttl /\ d.st = c.st /\ d.own = c.own
      /\ d.list = c.list /\ d.got = got
      /\ d \in RequestType(d)
  BY DEF RequestOK, Typed, RequestType
<1>4. Typed(p, d)
  BY <1>2, <1>3 DEF RequestOK, Typed
<1>5. Bounded(p, d)
  BY <1>3 DEF RequestOK, Bounded
<1>6. ListsSound(p, d, s, v)
  BY <1>1, <1>2, <1>3 DEF RequestOK, ListsSound
<1>7. Asked(Last(p), d) = Asked(Last(p), c)
  BY <1>3 DEF Asked, Visited
<1>8. Progress(p, d)
  BY <1>1, <1>2, <1>3, <1>7 DEF RequestOK, Progress
<1>9. RequestOK(p, d, s, v)
  BY <1>4, <1>5, <1>6, <1>8 DEF RequestOK
<1> QED BY <1>9 DEF d, got, end

(* Time leaves a request as it is, up to what its fetches have left.       *)
LEMMA AgedOK ==
  ASSUME NEW p, NEW c, NEW s, NEW v, RequestOK(p, c, s, v), NEW got,
         DOMAIN got = DOMAIN c.got, got \in [DOMAIN got -> Fetch],
         \A m \in DOMAIN got : got[m].st = c.got[m].st /\ got[m].list = c.got[m].list
  PROVE  RequestOK(p, [c EXCEPT !.got = got], s, v)
<1> DEFINE d == [c EXCEPT !.got = got]
<1>1. /\ d.visited = c.visited /\ d.ttl = c.ttl /\ d.st = c.st /\ d.own = c.own
      /\ d.list = c.list /\ d.got = got
      /\ d \in RequestType(d)
  BY DEF RequestOK, Typed, RequestType
<1>2. Typed(p, d)
  BY <1>1 DEF RequestOK, Typed
<1>3. Bounded(p, d)
  BY <1>1 DEF RequestOK, Bounded
<1>4. ListsSound(p, d, s, v)
  BY <1>1 DEF RequestOK, ListsSound
<1>5. (Stops(Last(p), d) <=> Stops(Last(p), c)) /\ Asked(Last(p), d) = Asked(Last(p), c)
  BY <1>1 DEF Stops, Asked, Visited
<1>6. Progress(p, c)
  BY DEF RequestOK
<1> HIDE DEF d
<1>7. Progress(p, d)
  BY <1>1, <1>5, <1>6 DEF Progress
<1>8. RequestOK(p, d, s, v)
  BY <1>2, <1>3, <1>4, <1>7 DEF RequestOK
<1> QED BY <1>8 DEF d

LEMMA RefusedOK ==
  ASSUME NEW p, NEW c, NEW s, NEW v, RequestOK(p, c, s, v)
  PROVE  RequestOK(p, [c EXCEPT !.st = "refused"], s, v)
<1> DEFINE d == [c EXCEPT !.st = "refused"]
<1>1. /\ d.visited = c.visited /\ d.ttl = c.ttl /\ d.st = "refused" /\ d.own = c.own
      /\ d.list = c.list /\ d.got = c.got
      /\ d \in RequestType(d)
  BY DEF RequestOK, Typed, RequestType
<1> QED BY <1>1 DEF RequestOK, Typed, Bounded, ListsSound, Progress
-----------------------------------------------------------------------------
(* The steps.                                                              *)

LEMMA Kinds ==
  ASSUME TypeOK
  PROVE  /\ rev \in [Node -> Nat]
         /\ since \in [Root -> [Node -> Nat]]
         /\ \A p \in Paths : /\ p \in Seq(Node) /\ p # <<>> /\ Head(p) \in Root
                             /\ Last(p) \in Node
                             /\ request[p] = [request[p] EXCEPT !.st = @]
BY Parameters, LastIsNode DEF TypeOK

LEMMA TypeFrom ==
  ASSUME health' \in [Node -> {"up", "down", "silent"}], rev' \in [Node -> 0..MaxRev],
         since' \in [Root -> [Node -> 0..MaxRev]], late' \subseteq Root,
         request' = [q \in Paths' |-> request'[q]], \A q \in Paths' : Typed(q, request'[q])
  PROVE  TypeOK'
BY DEF TypeOK, Typed, RequestType

LEMMA StepOK ==
  ASSUME IInv, UNCHANGED <<health, rev, since>>, late' \subseteq Root,
         request' = [q \in Paths' |-> request'[q]],
         \A q \in Paths' : \/ q \in Paths /\ request'[q] = request[q]
                           \/ RequestOK(q, request'[q], since[Head(q)], rev)
  PROVE  IInv'
<1>1. \A q \in Paths' : RequestOK(q, request'[q], since[Head(q)], rev)
  BY DEF IInv
<1>2. \A q \in Paths' : Typed(q, request'[q])
  BY <1>1 DEF RequestOK
<1>3. TypeOK'
  BY <1>2, TypeFrom DEF IInv, TypeOK
<1> QED BY <1>1, <1>3 DEF IInv

LEMMA AskNext == ASSUME IInv, NEW r \in Root, Ask(r) PROVE IInv'
<1>0. r \in Node /\ MaxHops \in Nat
  BY Parameters
<1>1. \A p \in Paths : Head(p) # r
  BY DEF Ask
<1>2. /\ Paths' = Paths \union {<<r>>}
      /\ \A p \in Paths : request'[p] = request[p]
      /\ request'[<<r>>] = Sent({}, MaxHops)
      /\ request' = [q \in Paths' |-> request'[q]]
  BY <1>0, <1>1, Single DEF Ask, Paths
<1>3. /\ since' \in [Root -> [Node -> 0..MaxRev]]
      /\ since'[r] = rev
      /\ \A x \in Root \ {r} : since'[x] = since[x]
      /\ UNCHANGED <<health, rev, late>>
  BY DEF Ask, IInv, TypeOK
<1>4. RequestOK(<<r>>, Sent({}, MaxHops), since'[r], rev)
  <2>1. /\ <<r>> \in Seq(Node) /\ <<r>> # <<>> /\ Head(<<r>>) = r
        /\ Passed(<<r>>) = {} /\ Len(<<r>>) = 1 /\ IsInjective(<<r>>)
    BY <1>0, Single
  <2>2. MaxHops \in 0..MaxHops /\ MaxHops = MaxHops + 1 - Len(<<r>>)
    BY <1>0, <2>1
  <2> QED BY <2>1, <2>2, SentOK
<1>5. \A q \in Paths' : RequestOK(q, request'[q], since'[Head(q)], rev')
  <2>1. \A q \in Paths : Head(q) \in Root \ {r}
    BY <1>1 DEF IInv, TypeOK
  <2> QED BY <1>0, <1>2, <1>3, <1>4, <2>1, Single DEF IInv
<1>6. \A q \in Paths' : Typed(q, request'[q])
  BY <1>5 DEF RequestOK
<1>7. TypeOK'
  <2>1. health' \in [Node -> {"up", "down", "silent"}] /\ rev' \in [Node -> 0..MaxRev]
        /\ late' \subseteq Root
    BY <1>3 DEF IInv, TypeOK
  <2> QED BY <1>2, <1>3, <1>6, <2>1, TypeFrom
<1>8. \A x \in Root : \A n \in Node : since'[x][n] <= rev'[n]
  <2>1. rev \in [Node -> Nat]
    BY Kinds DEF IInv
  <2> QED BY <1>3, <2>1 DEF IInv
<1> QED BY <1>5, <1>7, <1>8 DEF IInv

LEMMA AnswerLocallyNext == ASSUME IInv, NEW p \in Paths, AnswerLocally(p) PROVE IInv'
<1> DEFINE c == request[p]
           n == Last(p)
           d == [c EXCEPT !.st = "answered", !.list = LocalOnly(n)]
<1>1. /\ Paths' = Paths
      /\ request'[p] = d
      /\ \A q \in Paths \ {p} : request'[q] = request[q]
      /\ request' = [q \in Paths' |-> request'[q]]
      /\ UNCHANGED <<health, rev, since, late>>
      /\ Stops(n, c) /\ c.st = "sent"
  BY DEF AnswerLocally, Starts, Paths, IInv, TypeOK
<1>2. n \in Node /\ Head(p) \in Root /\ rev \in [Node -> Nat] /\ since[Head(p)] \in [Node -> Nat]
  BY Kinds DEF IInv
<1>3. /\ LocalOnly(n) \subseteq Entry
      /\ Sound(LocalOnly(n), since[Head(p)], rev)
      /\ Shows(n, LocalOnly(n))
  BY <1>2, LocalOnlySound DEF IInv
<1>4. RequestOK(p, c, since[Head(p)], rev) /\ DOMAIN c.got = {}
  BY <1>1 DEF IInv, RequestOK, Progress
<1>5. RequestOK(p, d, since[Head(p)], rev)
  BY <1>1, <1>3, <1>4, AnsweredOK
<1> QED BY <1>1, <1>5, StepOK DEF IInv, TypeOK

LEMMA FanOutNext == ASSUME IInv, NEW p \in Paths, FanOut(p) PROVE IInv'
<1> DEFINE c == request[p]
           n == Last(p)
           children == {Append(p, m) : m \in Asked(n, c)}
           d == [c EXCEPT !.st = "running", !.own = Catalogue(n),
                          !.got = [m \in Asked(n, c) |-> Waiting]]
           hop == Sent(Visited(n, c), c.ttl - 1)
<1>1. /\ Paths' = Paths \union children
      /\ \A q \in Paths' : request'[q] = IF q \in children THEN hop
                                         ELSE IF q = p THEN d ELSE request[q]
      /\ request' = [q \in Paths' |-> request'[q]]
      /\ UNCHANGED <<health, rev, since, late>>
      /\ ~Stops(n, c)
  BY DEF FanOut, Starts, Paths, IInv, TypeOK
<1>2. /\ rev \in [Node -> Nat] /\ since[Head(p)] \in [Node -> Nat]
      /\ p \in Seq(Node) /\ p # <<>> /\ Head(p) \in Root /\ n \in Node
  BY Kinds DEF IInv
<1>3. RequestOK(p, c, since[Head(p)], rev)
  BY DEF IInv
<1>4. RequestOK(p, d, since[Head(p)], rev)
  BY <1>2, <1>3, AskingOK DEF IInv
<1>5. \A q \in children : RequestOK(q, hop, since[Head(q)], rev)
  <2> SUFFICES ASSUME NEW m \in Asked(n, c)
               PROVE  RequestOK(Append(p, m), hop, since[Head(Append(p, m))], rev)
    OBVIOUS
  <2>1. m \in Node
    BY <1>2, Parameters DEF Asked, ToSet
  <2>2. Head(Append(p, m)) = Head(p)
    BY <1>2, <2>1, Longer
  <2> QED BY <1>1, <1>3, <2>2, ChildOK
<1> HIDE DEF children, d, hop
<1>6. \A q \in Paths' : \/ q \in Paths /\ request'[q] = request[q]
                        \/ RequestOK(q, request'[q], since[Head(q)], rev)
  BY <1>1, <1>4, <1>5
<1> QED BY <1>1, <1>6, StepOK DEF IInv, TypeOK

LEMMA RefuseNext == ASSUME IInv, NEW p \in Paths, Refuse(p) PROVE IInv'
<1>1. /\ Paths' = Paths
      /\ request'[p] = [request[p] EXCEPT !.st = "refused"]
      /\ \A q \in Paths \ {p} : request'[q] = request[q]
      /\ request' = [q \in Paths' |-> request'[q]]
      /\ UNCHANGED <<health, rev, since, late>>
  BY DEF Refuse, Paths, IInv, TypeOK
<1>2. RequestOK(p, [request[p] EXCEPT !.st = "refused"], since[Head(p)], rev)
  BY RefusedOK DEF IInv
<1> QED BY <1>1, <1>2, StepOK DEF IInv, TypeOK

LEMMA AnswerNext == ASSUME IInv, NEW p \in Paths, Answer(p) PROVE IInv'
<1> DEFINE c == request[p]
           n == Last(p)
           d == [c EXCEPT !.st = "answered", !.list = Merged(c, n)]
<1>1. /\ Paths' = Paths
      /\ request'[p] = d
      /\ \A q \in Paths \ {p} : request'[q] = request[q]
      /\ request' = [q \in Paths' |-> request'[q]]
      /\ UNCHANGED <<health, rev, since, late>>
      /\ c.st = "running" /\ \A m \in DOMAIN c.got : c.got[m].st # "waiting"
  BY DEF Answer, Paths, IInv, TypeOK
<1>2. RequestOK(p, c, since[Head(p)], rev)
  BY DEF IInv
<1>3. /\ Merged(c, n) \subseteq Entry
      /\ Sound(Merged(c, n), since[Head(p)], rev)
      /\ Shows(n, Merged(c, n))
      /\ \A m \in DOMAIN c.got : c.got[m].st = "answered" => Shows(m, Merged(c, n))
  BY <1>1, <1>2, MergedSound, MergedShows
<1>4. DOMAIN c.got = Asked(n, c)
  BY <1>1, <1>2 DEF RequestOK, Progress
<1>5. RequestOK(p, d, since[Head(p)], rev)
  BY <1>1, <1>2, <1>3, <1>4, AnsweredOK
<1> QED BY <1>1, <1>5, StepOK DEF IInv, TypeOK

(* The sender of p learns how its fetch ended.                             *)
LEMMA EndedOK ==
  ASSUME IInv, NEW p \in Paths, Awaited(p), NEW st \in {"answered", "failed"},
         NEW list \in SUBSET Entry, Sound(list, since[Head(p)], rev),
         st = "answered" => Shows(Last(p), list)
  PROVE  /\ DOMAIN Ended(p, st, list) = Paths
         /\ \A q \in Paths : \/ Ended(p, st, list)[q] = request[q]
                             \/ RequestOK(q, Ended(p, st, list)[q], since[Head(q)], rev)
<1> DEFINE a == Asker(p)
           c == request[a]
           d == [c EXCEPT !.got[Last(p)] = [st |-> st, left |-> 0, list |-> list]]
<1>1. a \in Paths /\ c.st = "running" /\ Head(a) = Head(p)
  BY Shorter, Kinds DEF Awaited, Asker, IInv
<1>2. RequestOK(a, c, since[Head(a)], rev)
  BY <1>1 DEF IInv
<1>3. RequestOK(a, d, since[Head(a)], rev)
  BY <1>1, <1>2, FetchedOK
<1>4. /\ DOMAIN Ended(p, st, list) = Paths
      /\ Ended(p, st, list)[a] = d
      /\ \A q \in Paths \ {a} : Ended(p, st, list)[q] = request[q]
  BY <1>1 DEF Ended, Paths
<1> QED BY <1>3, <1>4

LEMMA ReceiveNext == ASSUME IInv, NEW p \in Paths, Receive(p) PROVE IInv'
<1> DEFINE list == request[p].list
           ended == Ended(p, "answered", list)
<1>1. /\ Awaited(p) /\ request[p].st = "answered"
      /\ request' = [q \in Paths \ {p} |-> ended[q]]
      /\ UNCHANGED <<health, rev, since, late>>
  BY DEF Receive
<1>2. /\ list \in SUBSET Entry
      /\ Sound(list, since[Head(p)], rev)
      /\ Shows(Last(p), list)
  BY <1>1 DEF IInv, RequestOK, Typed, RequestType, ListsSound, Progress
<1>3. \A q \in Paths : \/ ended[q] = request[q]
                       \/ RequestOK(q, ended[q], since[Head(q)], rev)
  BY <1>1, <1>2, EndedOK
<1> HIDE DEF ended
<1>4. Paths' = Paths \ {p} /\ \A q \in Paths' : request'[q] = ended[q]
  BY <1>1 DEF Paths
<1> QED BY <1>1, <1>3, <1>4, StepOK DEF IInv, TypeOK

LEMMA FailNext == ASSUME IInv, NEW p \in Paths, Fail(p) PROVE IInv'
<1> DEFINE ended == Ended(p, "failed", {})
<1>1. /\ Awaited(p)
      /\ request' = [q \in Paths \ {p} |-> ended[q]]
      /\ UNCHANGED <<health, rev, since, late>>
  BY DEF Fail
<1>2. Sound({}, since[Head(p)], rev)
  BY DEF Sound, Attributed, Unique, Recent
<1>3. \A q \in Paths : \/ ended[q] = request[q]
                       \/ RequestOK(q, ended[q], since[Head(q)], rev)
  BY <1>1, <1>2, EndedOK
<1> HIDE DEF ended
<1>4. Paths' = Paths \ {p} /\ \A q \in Paths' : request'[q] = ended[q]
  BY <1>1 DEF Paths
<1> QED BY <1>1, <1>3, <1>4, StepOK DEF IInv, TypeOK

LEMMA TimeOutNext == ASSUME IInv, NEW p \in Paths, TimeOut(p) PROVE IInv'
<1> DEFINE ended == Ended(p, "failed", {})
<1>1. /\ Awaited(p)
      /\ request' = ended
      /\ late' = late \union {Head(p)}
      /\ UNCHANGED <<health, rev, since>>
  BY DEF TimeOut
<1>2. Sound({}, since[Head(p)], rev)
  BY DEF Sound, Attributed, Unique, Recent
<1>3. /\ DOMAIN ended = Paths
      /\ \A q \in Paths : \/ ended[q] = request[q]
                          \/ RequestOK(q, ended[q], since[Head(q)], rev)
  BY <1>1, <1>2, EndedOK
<1>4. ended = [q \in DOMAIN ended |-> ended[q]]
  BY DEF Ended, IInv, TypeOK
<1> HIDE DEF ended
<1>5. Paths' = Paths /\ request' = [q \in Paths' |-> request'[q]]
  BY <1>1, <1>3, <1>4 DEF Paths
<1>6. late' \subseteq Root
  BY <1>1, Kinds DEF IInv, TypeOK
<1>7. \A q \in Paths' : \/ q \in Paths /\ request'[q] = request[q]
                        \/ RequestOK(q, request'[q], since[Head(q)], rev)
  BY <1>1, <1>3, <1>5
<1> QED BY <1>1, <1>5, <1>6, <1>7, StepOK

LEMMA DropNext == ASSUME IInv, NEW p \in Paths, Drop(p) PROVE IInv'
<1>1. /\ Paths' = Paths \ {p}
      /\ \A q \in Paths' : request'[q] = request[q]
      /\ request' = [q \in Paths' |-> request'[q]]
      /\ UNCHANGED <<health, rev, since, late>>
  BY DEF Drop, Without, Paths
<1> QED BY <1>1, StepOK DEF IInv, TypeOK

LEMMA TickNext == ASSUME IInv, Tick PROVE IInv'
<1> DEFINE got(q) == [m \in DOMAIN request[q].got |-> Older(q, m)]
<1>1. /\ request' = [q \in Paths |-> [request[q] EXCEPT !.got = got(q)]]
      /\ \A p \in Timed : ~Expired(p)
      /\ UNCHANGED <<health, rev, since, late>>
  BY DEF Tick
<1>2. ASSUME NEW q \in Paths
      PROVE  RequestOK(q, [request[q] EXCEPT !.got = got(q)], since[Head(q)], rev)
  <2> DEFINE c == request[q]
  <2>1. /\ q \in Seq(Node) /\ q # <<>>
        /\ DOMAIN c.got \subseteq Node /\ c.got \in [DOMAIN c.got -> Fetch]
    BY DEF IInv, TypeOK
  <2>2. ASSUME NEW m \in DOMAIN c.got
        PROVE  /\ got(q)[m] \in Fetch
               /\ got(q)[m].st = c.got[m].st
               /\ got(q)[m].list = c.got[m].list
    <3>1. c.got[m] \in Fetch
      BY <2>1
    <3>2. CASE Append(q, m) \in Timed
      <4>1. Asker(Append(q, m)) = q /\ Last(Append(q, m)) = m
        BY <2>1, Longer DEF Asker
      <4>2. c.got[m].left # 0
        BY <1>1, <3>2, <4>1 DEF Expired
      <4>3. got(q)[m] = [c.got[m] EXCEPT !.left = @ - 1]
        BY <3>2 DEF Older
      <4> QED BY <3>1, <4>2, <4>3, Parameters DEF Fetch
    <3>3. CASE Append(q, m) \notin Timed
      BY <3>1, <3>3 DEF Older
    <3> QED BY <3>2, <3>3
  <2>3. DOMAIN got(q) = DOMAIN c.got /\ got(q) \in [DOMAIN got(q) -> Fetch]
    BY <2>2
  <2> HIDE DEF got
  <2> QED BY <2>2, <2>3, AgedOK DEF IInv
<1> HIDE DEF got
<1>3. Paths' = Paths /\ request' = [q \in Paths' |-> request'[q]]
  BY <1>1 DEF Paths
<1>4. \A q \in Paths' : RequestOK(q, request'[q], since[Head(q)], rev)
  BY <1>1, <1>2, <1>3
<1> QED BY <1>1, <1>3, <1>4, StepOK DEF IInv, TypeOK

(* A later revision, or a page that is over, makes no entry wrong.         *)
LEMMA Weaker ==
  ASSUME NEW p, NEW c, NEW s, NEW v, RequestOK(p, c, s, v),
         NEW s2, NEW v2, s \in [Node -> Nat], v \in [Node -> Nat],
         s2 \in [Node -> Nat], v2 \in [Node -> Nat],
         \A n \in Node : s2[n] <= s[n] /\ v[n] <= v2[n]
  PROVE  RequestOK(p, c, s2, v2)
<1>1. \A list \in SUBSET Entry : Recent(list, s, v) => Recent(list, s2, v2)
  <2> SUFFICES ASSUME NEW list \in SUBSET Entry, Recent(list, s, v), NEW e \in list
               PROVE  s2[e.owner] <= e.rev /\ e.rev <= v2[e.owner]
    BY DEF Recent
  <2>1. e.owner \in Node /\ e.rev \in Nat
    BY DEF Entry
  <2>2. s[e.owner] <= e.rev /\ e.rev <= v[e.owner]
    BY DEF Recent
  <2>3. /\ s2[e.owner] <= s[e.owner] /\ v[e.owner] <= v2[e.owner]
        /\ s[e.owner] \in Nat /\ v[e.owner] \in Nat /\ s2[e.owner] \in Nat /\ v2[e.owner] \in Nat
    BY <2>1
  <2> QED BY <2>1, <2>2, <2>3
<1>2. /\ c.own \in SUBSET Entry /\ c.list \in SUBSET Entry
      /\ \A m \in DOMAIN c.got : c.got[m].list \in SUBSET Entry
  BY DEF RequestOK, Typed, RequestType, Fetch
<1>3. ListsSound(p, c, s2, v2)
  BY <1>1, <1>2 DEF RequestOK, ListsSound, Own, Sound
<1> QED BY <1>3 DEF RequestOK

LEMMA RenderNext == ASSUME IInv, NEW p \in Paths, Render(p) PROVE IInv'
<1> DEFINE r == Head(p)
<1>1. /\ Paths' = Paths \ {p}
      /\ \A q \in Paths' : request'[q] = request[q]
      /\ request' = [q \in Paths' |-> request'[q]]
      /\ since' = [since EXCEPT ![r] = [n \in Node |-> 0]]
      /\ late' = late \ {r}
      /\ UNCHANGED <<health, rev>>
  BY DEF Render, Without, Paths
<1>2. /\ r \in Root /\ rev \in [Node -> Nat] /\ since \in [Root -> [Node -> Nat]]
      /\ \A q \in Paths : Head(q) \in Root
  BY Kinds DEF IInv
<1>3. /\ since' \in [Root -> [Node -> 0..MaxRev]] /\ since' \in [Root -> [Node -> Nat]]
      /\ \A x \in Root : \A n \in Node : since'[x][n] <= since[x][n]
  BY <1>1, <1>2, Parameters DEF IInv, TypeOK
<1>4. \A q \in Paths' : RequestOK(q, request'[q], since'[Head(q)], rev')
  <2> SUFFICES ASSUME NEW q \in Paths' PROVE RequestOK(q, request[q], since'[Head(q)], rev)
    BY <1>1
  <2>1. /\ q \in Paths /\ Head(q) \in Root
        /\ since[Head(q)] \in [Node -> Nat] /\ since'[Head(q)] \in [Node -> Nat]
        /\ \A n \in Node : since'[Head(q)][n] <= since[Head(q)][n] /\ rev[n] <= rev[n]
    BY <1>1, <1>2, <1>3
  <2>2. RequestOK(q, request[q], since[Head(q)], rev)
    BY <2>1 DEF IInv
  <2> QED BY <1>2, <2>1, <2>2, Weaker
<1>5. \A q \in Paths' : Typed(q, request'[q])
  BY <1>4 DEF RequestOK
<1>6. TypeOK'
  BY <1>1, <1>3, <1>5, TypeFrom DEF IInv, TypeOK
<1>7. \A x \in Root : \A n \in Node : since'[x][n] <= rev'[n]
  BY <1>1, <1>2 DEF IInv
<1> QED BY <1>4, <1>6, <1>7 DEF IInv

LEMMA ChangeNext == ASSUME IInv, NEW n \in Node, Change(n) PROVE IInv'
<1>1. /\ rev' = [rev EXCEPT ![n] = @ + 1] /\ rev[n] < MaxRev
      /\ UNCHANGED <<health, request, since, late>>
  BY DEF Change
<1>2. /\ rev \in [Node -> Nat] /\ since \in [Root -> [Node -> Nat]]
      /\ rev \in [Node -> 0..MaxRev]
      /\ \A q \in Paths : Head(q) \in Root
  BY Kinds DEF IInv, TypeOK
<1>3. /\ rev' \in [Node -> 0..MaxRev] /\ rev' \in [Node -> Nat]
      /\ \A m \in Node : rev[m] <= rev'[m]
  BY <1>1, <1>2, Parameters
<1>4. \A q \in Paths : RequestOK(q, request[q], since[Head(q)], rev')
  <2> SUFFICES ASSUME NEW q \in Paths PROVE RequestOK(q, request[q], since[Head(q)], rev')
    OBVIOUS
  <2>1. /\ since[Head(q)] \in [Node -> Nat]
        /\ \A m \in Node : since[Head(q)][m] <= since[Head(q)][m] /\ rev[m] <= rev'[m]
        /\ RequestOK(q, request[q], since[Head(q)], rev)
    BY <1>2, <1>3 DEF IInv
  <2> QED BY <1>2, <1>3, <2>1, Weaker
<1>5. \A q \in Paths : Typed(q, request[q])
  BY DEF IInv, RequestOK
<1>6. TypeOK'
  BY <1>1, <1>3 DEF IInv, TypeOK, Paths
<1>7. \A x \in Root : \A m \in Node : since[x][m] <= rev'[m]
  BY <1>2, <1>3 DEF IInv
<1> QED BY <1>1, <1>4, <1>6, <1>7 DEF IInv, Paths

LEMMA BreakNext == ASSUME IInv, NEW n \in Node, Break(n) PROVE IInv'
<1>1. UNCHANGED <<rev, request, since, late>>
  BY DEF Break
<1>2. health' \in [Node -> {"up", "down", "silent"}]
  BY FederationAssumption DEF Break, FederationAssumption, IInv, TypeOK
<1>3. TypeOK'
  BY <1>1, <1>2 DEF IInv, TypeOK, Paths
<1> QED BY <1>1, <1>3 DEF IInv, Paths

LEMMA InvNext == IInv /\ [Next]_vars => IInv'
<1> SUFFICES ASSUME IInv, [Next]_vars PROVE IInv'
  OBVIOUS
<1>1. ASSUME NEW p \in Paths, Handle(p) PROVE IInv'
  BY <1>1, AnswerLocallyNext, FanOutNext, RefuseNext, AnswerNext DEF Handle
<1>2. ASSUME NEW p \in Paths, EndFetch(p) PROVE IInv'
  BY <1>2, ReceiveNext, FailNext, TimeOutNext, DropNext DEF EndFetch
<1>3. CASE UNCHANGED vars
  BY <1>3 DEF vars, IInv, TypeOK, Paths
<1> QED
  BY <1>1, <1>2, <1>3, AskNext, RenderNext, ChangeNext, BreakNext, TickNext DEF Next

LEMMA InvInit == Init => IInv
<1> SUFFICES ASSUME Init PROVE IInv
  OBVIOUS
<1>1. Paths = {}
  BY DEF Init, Paths
<1>2. TypeOK
  BY <1>1, Parameters DEF Init, TypeOK
<1>3. \A r \in Root : \A n \in Node : since[r][n] <= rev[n]
  BY DEF Init
<1> QED BY <1>1, <1>2, <1>3 DEF IInv
-----------------------------------------------------------------------------
(* The theorems.                                                           *)

(* What every request knows, asked and holds, in every reachable state.    *)
THEOREM Invariant == Spec => []IInv
BY InvInit, InvNext, PTL DEF Spec

(* Requests and their headers keep their shape: no budget is below zero,   *)
(* however pages, failures and timeouts interleave.                        *)
THEOREM TypeCorrect == Spec => []TypeOK
<1>1. IInv => TypeOK
  BY DEF IInv
<1> QED BY <1>1, Invariant, PTL

(* On any trust graph no chain of requests comes back to a node it passed, *)
(* and none has more hops than the budget (app.py, _aggregation_result).   *)
THEOREM LoopsAreCut == Spec => []LoopSafe
<1>1. IInv => LoopSafe
  <2> SUFFICES ASSUME IInv, NEW p \in Paths PROVE IsInjective(p) /\ Len(p) <= MaxHops + 1
    BY DEF LoopSafe
  <2>1. Typed(p, request[p]) /\ Bounded(p, request[p])
    BY DEF IInv, RequestOK
  <2>2. request[p].ttl \in 0..MaxHops /\ request[p].ttl = MaxHops + 1 - Len(p) /\ Len(p) \in Nat
    BY <2>1 DEF Typed, RequestType, Bounded
  <2> QED BY <2>1, <2>2, Parameters DEF Bounded
<1> QED BY <1>1, Invariant, PTL

(* Every answer credits each service to its owner, once, and no page shows *)
(* what its owner no longer offered when the page was asked for, although  *)
(* catalogues change while answers travel (federation.py, _tag_origin,     *)
(* aggregate_services, dedupe_services).                                   *)
THEOREM AnswersAreTruthfulAndFresh == Spec => []TruthfulAndFresh
<1>1. IInv => TruthfulAndFresh
  <2> SUFFICES ASSUME IInv PROVE TruthfulAndFresh
    OBVIOUS
  <2>1. \A p \in Paths : Sound(request[p].list, since[Head(p)], rev)
    BY DEF IInv, RequestOK, ListsSound
  <2> QED BY <2>1 DEF TruthfulAndFresh, Truthful, Fresh, Pages, Answered, Sound, Attributed,
                      Unique, Recent
<1> QED BY <1>1, Invariant, PTL

(* A page of a federating node shows every service of each peer that is    *)
(* reported reachable with it (app.py, federation_nodes, api_list_peers).  *)
THEOREM ReachablePeersAreShown == Spec => []ReachableIsShown
<1>1. IInv => ReachableIsShown
  <2> SUFFICES ASSUME IInv, NEW p \in Pages, Head(p) \in Federating, MaxHops > 0,
                      NEW m \in Reported(p)
               PROVE  \A x \in Offers[m] : \E e \in request[p].list : Key(e) = <<m, x>>
    BY DEF ReachableIsShown, Keys
  <2> DEFINE c == request[p]
             r == Head(p)
  <2>1. p \in Paths /\ Len(p) = 1 /\ c.st = "answered"
    BY DEF Pages, Answered, Top
  <2>2. RequestOK(p, c, since[r], rev)
    BY <2>1 DEF IInv
  <2>3. p \in Seq(Node) /\ Last(p) = r
    <3>1. Typed(p, c)
      BY <2>2 DEF RequestOK
    <3>2. p \in Seq(Node)
      BY <3>1 DEF Typed
    <3>3. Last(p) = p[1] /\ Head(p) = p[1]
      BY <2>1, <3>2 DEF Last
    <3> QED BY <3>2, <3>3
  <2>4. c.visited = {} /\ c.ttl = MaxHops
    BY <2>1, <2>2, Parameters DEF RequestOK, Bounded, Passed
  <2>5. ~Stops(r, c)
    BY <2>4, Parameters DEF Stops
  <2>6. DOMAIN c.got = ToSet(Trust[r]) \ {r}
    BY <2>1, <2>3, <2>2, <2>4, <2>5 DEF RequestOK, Progress, Asked, Visited
  <2>7. m \in DOMAIN c.got /\ c.got[m].st # "failed"
    BY <2>6 DEF Reported
  <2>8. c.got[m].st = "answered"
    BY <2>1, <2>2, <2>7 DEF RequestOK, Typed, Progress, Fetch
  <2>9. Shows(m, c.list)
    BY <2>1, <2>2, <2>7, <2>8 DEF RequestOK, Progress
  <2> QED BY <2>9 DEF Shows, Key
<1> QED BY <1>1, Invariant, PTL
-----------------------------------------------------------------------------
(* The pages are complete: which services a page shows, compared with the  *)
(* reference Near, for every trust graph, hop budget, timeout and failure. *)
(* Near grows hop by hop; the invariant speaks of routes, the walks along  *)
(* which a page asks nodes, because a request is named by the route it     *)
(* came and its answer covers the routes that go on from there.            *)


(* n asks m for its services when it aggregates, and m admits it.          *)
Leads(n, m) == /\ n \in Federating
               /\ m \in ToSet(Trust[n])
               /\ m \in Guarded => n \in ToSet(Trust[m])

Steps(q, i, S) == \A k \in i..(Len(q) - 1) : Leads(q[k], q[k + 1]) /\ q[k + 1] \in S

(* A walk over the nodes of S.                                             *)
Route(q, S) == q \in Seq(Node) /\ q # <<>> /\ Steps(q, 1, S)

Short(q) == Len(q) <= MaxHops + 1

(* The nodes at the ends of the routes from r with at most h hops.         *)
Within(r, S, h) ==
  {m \in Node : \E q \in Seq(Node) : /\ Route(q, S) /\ Len(q) <= h + 1
                                     /\ Head(q) = r /\ Last(q) = m}

(* One hop of Near.                                                        *)
Nearer(S, near) ==
  near \union {m \in S : \E n \in near \intersect Federating :
                           m \in ToSet(Trust[n]) /\ (m \in Guarded => n \in ToSet(Trust[m]))}

(* The routes within the hop budget, past no node twice, that go on from p *)
(* over the nodes of up; and what a list owes them.                        *)
Onward(p, q, up) == /\ IsInjective(q) /\ Short(q)
                    /\ Len(p) <= Len(q)
                    /\ \A i \in 1..Len(p) : q[i] = p[i]
                    /\ Steps(q, Len(p), up)

Covers(list, p, up) == \A q \in Seq(Node) : Onward(p, q, up) => Shows(Last(q), list)

(* What a list may show on a page of r.                                    *)
InReachOf(r, list) == \A e \in list : Key(e) \in Keys(Near(r, Node))

(* A request came along a route, up to the admission to its own node, and  *)
(* brings back nothing from elsewhere.                                     *)
Reached(p, c) ==
  /\ ~Top(p) => /\ Route(Front(p), Node)
                /\ Last(Front(p)) \in Federating
                /\ Last(p) \in ToSet(Trust[Last(Front(p))])
  /\ c.st \in {"running", "answered"} => Route(p, Node)
  /\ \A e \in c.own : e.name \in Offers[Last(p)]
  /\ InReachOf(Head(p), c.list)
  /\ \A m \in DOMAIN c.got : InReachOf(Head(p), c.got[m].list)

Refused(p, c, h) == c.st = "refused" => h[Last(p)] = "down" \/ ~Admitted(p)

(* An answer lacks nothing that a route leads to, and a fetch failed only  *)
(* because of the peer.                                                    *)
Covered(p, c, up) ==
  /\ c.st = "answered" => Covers(c.list, p, up)
  /\ \A m \in DOMAIN c.got :
       /\ c.got[m].st = "answered" => Covers(c.got[m].list, Append(p, m), up)
       /\ c.got[m].st = "failed" => ~(Leads(Last(p), m) /\ m \in up)

(* The walk of r has its page still to render, and no fetch of it timed    *)
(* out.  What is left of a walk whose page was rendered promises nothing.  *)
Whole(r) == <<r>> \in Paths /\ r \notin late

ReachInv ==
  /\ \A p \in Paths : Reached(p, request[p]) /\ Refused(p, request[p], health)
  /\ \A p \in Paths : Whole(Head(p)) => Covered(p, request[p], UpNodes)
-----------------------------------------------------------------------------
(* Routes.                                                                 *)

LEMMA RouteStart ==
  ASSUME NEW r \in Node, NEW S
  PROVE  Route(<<r>>, S)
BY Single DEF Route, Steps

LEMMA RouteLonger ==
  ASSUME NEW q \in Seq(Node), q # <<>>, NEW m \in Node, NEW S
  PROVE  Route(Append(q, m), S) <=> Route(q, S) /\ Leads(Last(q), m) /\ m \in S
<1> DEFINE a == Append(q, m)
<1>1. /\ a \in Seq(Node) /\ a # <<>> /\ Len(a) = Len(q) + 1
      /\ Len(q) \in Nat /\ Len(q) >= 1
      /\ \A i \in 1..Len(q) : a[i] = q[i]
      /\ a[Len(q) + 1] = m
  BY Longer
<1> HIDE DEF a
<1>2. 1..(Len(a) - 1) = (1..(Len(q) - 1)) \union {Len(q)}
  BY <1>1
<1>3. \A k \in 1..(Len(q) - 1) : a[k] = q[k] /\ a[k + 1] = q[k + 1]
  BY <1>1
<1>4. a[Len(q)] = Last(q)
  BY <1>1 DEF Last
<1>5. Steps(a, 1, S) <=> Steps(q, 1, S) /\ Leads(Last(q), m) /\ m \in S
  BY <1>1, <1>2, <1>3, <1>4 DEF Steps
<1>6. Route(a, S) <=> Route(q, S) /\ Leads(Last(q), m) /\ m \in S
  BY <1>1, <1>5 DEF Route
<1> QED BY <1>6 DEF a

(* A node is at the end of a route of h hops if it is at the end of a      *)
(* shorter one, or one hop from there.                                     *)
LEMMA WithinNext ==
  ASSUME NEW r \in Node, NEW S \in SUBSET Node, NEW h \in Nat, h > 0
  PROVE  Within(r, S, h) = Nearer(S, Within(r, S, h - 1))
<1>1. ASSUME NEW m \in Within(r, S, h) PROVE m \in Nearer(S, Within(r, S, h - 1))
  <2>1. PICK q \in Seq(Node) : Route(q, S) /\ Len(q) <= h + 1 /\ Head(q) = r /\ Last(q) = m
    BY DEF Within
  <2>2. m \in Node
    BY DEF Within
  <2>3. CASE Len(q) <= h
    BY <2>1, <2>2, <2>3 DEF Within, Nearer
  <2>4. CASE Len(q) > h
    <3>1. q # <<>>
      BY <2>1 DEF Route
    <3>2. PICK p \in Seq(Node), x \in Node : q = Append(p, x)
      BY <3>1, SequenceEmptyOrAppend
    <3>3. p # <<>>
      BY <2>4, <3>2
    <3>4. x = m /\ Len(q) = Len(p) + 1 /\ Head(p) = r /\ Len(p) \in Nat
      BY <2>1, <3>2, <3>3, Longer
    <3>5. Route(p, S) /\ Leads(Last(p), m) /\ m \in S
      BY <2>1, <3>2, <3>3, <3>4, RouteLonger
    <3>6. Last(p) \in Within(r, S, h - 1)
      BY <2>1, <3>3, <3>4, <3>5, LastIsNode DEF Within
    <3> QED BY <3>5, <3>6 DEF Nearer, Leads
  <2>5. Len(q) \in Nat
    BY <2>1
  <2> QED BY <2>3, <2>4, <2>5
<1>2. ASSUME NEW m \in Nearer(S, Within(r, S, h - 1)) PROVE m \in Within(r, S, h)
  <2>1. CASE m \in Within(r, S, h - 1)
    <3>1. PICK q \in Seq(Node) : Route(q, S) /\ Len(q) <= h - 1 + 1 /\ Head(q) = r /\ Last(q) = m
      BY <2>1 DEF Within
    <3>2. Len(q) <= h + 1
      BY <3>1
    <3> QED BY <2>1, <3>1, <3>2 DEF Within
  <2>2. ASSUME NEW n \in Within(r, S, h - 1), Leads(n, m), m \in S PROVE m \in Within(r, S, h)
    <3>1. PICK q \in Seq(Node) : Route(q, S) /\ Len(q) <= h - 1 + 1 /\ Head(q) = r /\ Last(q) = n
      BY DEF Within
    <3>2. q # <<>> /\ m \in Node
      BY <2>2, <3>1 DEF Route
    <3> DEFINE a == Append(q, m)
    <3>3. a \in Seq(Node) /\ Len(a) = Len(q) + 1 /\ Len(q) \in Nat /\ Head(a) = r /\ Last(a) = m
      BY <3>1, <3>2, Longer
    <3>4. Route(a, S)
      BY <2>2, <3>1, <3>2, RouteLonger
    <3>5. Len(a) <= h + 1
      BY <3>1, <3>3
    <3> QED BY <3>2, <3>3, <3>4, <3>5 DEF Within
  <2> QED BY <2>1, <2>2 DEF Nearer, Leads
<1> QED BY <1>1, <1>2

LEMMA Lone ==
  ASSUME NEW q \in Seq(Node), q # <<>>, Len(q) <= 1
  PROVE  Len(q) = 1 /\ Last(q) = Head(q)
<1>1. Len(q) \in Nat /\ Len(q) # 0
  OBVIOUS
<1> DEFINE l == Len(q)
<1>2. l = 1
  <2> l \in Nat /\ l # 0 /\ l <= 1
    BY <1>1
  <2> HIDE DEF l
  <2> QED OBVIOUS
<1> QED BY <1>2 DEF Last

LEMMA WithinZero ==
  ASSUME NEW r \in Node, NEW S
  PROVE  Within(r, S, 0) = {r}
<1>1. ASSUME NEW m \in Within(r, S, 0) PROVE m = r
  <2>1. PICK q \in Seq(Node) : q # <<>> /\ Len(q) <= 0 + 1 /\ Head(q) = r /\ Last(q) = m
    BY DEF Within, Route
  <2>2. Len(q) <= 1
    BY <2>1
  <2> QED BY <2>1, <2>2, Lone
<1>2. r \in Within(r, S, 0)
  <2>1. /\ Route(<<r>>, S) /\ <<r>> \in Seq(Node)
        /\ Head(<<r>>) = r /\ Last(<<r>>) = r /\ Len(<<r>>) <= 0 + 1
    BY Single, RouteStart
  <2> HIDE DEF Last
  <2> QED BY <2>1 DEF Within
<1> QED BY <1>1, <1>2

(* Near holds the ends of the routes within the hop budget.                *)
LEMMA NearIsWithin ==
  ASSUME NEW r \in Node, NEW S \in SUBSET Node
  PROVE  Near(r, S) = Within(r, S, MaxHops)
<1> DEFINE Hops(f) == f = [h \in 0..MaxHops |-> IF h = 0 THEN {r} ELSE Nearer(S, f[h - 1])]
           near == CHOOSE f : Hops(f)
           within == [h \in 0..MaxHops |-> Within(r, S, h)]
<1>1. Near(r, S) = near[MaxHops]
  BY DEF Near, Nearer
<1>2. Hops(within)
  <2>1. ASSUME NEW h \in 0..MaxHops
        PROVE  within[h] = IF h = 0 THEN {r} ELSE Nearer(S, within[h - 1])
    <3>1. CASE h = 0
      BY <3>1, WithinZero
    <3>2. CASE h # 0
      <4>1. h \in Nat /\ h > 0 /\ h - 1 \in 0..MaxHops
        BY <3>2, Parameters
      <4> QED BY <3>2, <4>1, WithinNext
    <3> QED BY <3>1, <3>2
  <2> QED BY <2>1
<1> HIDE DEF within
<1>3. Hops(near)
  BY <1>2
<1> HIDE DEF near
<1>4. ASSUME NEW h \in 0..MaxHops PROVE near[h] = Within(r, S, h)
  <2> DEFINE T == {k \in 0..MaxHops : near[k] # Within(r, S, k)}
  <2> SUFFICES ASSUME T # {} PROVE FALSE
    BY <1>4
  <2>1. T \in SUBSET Nat
    BY Parameters
  <2>2. PICK k \in T : \A j \in T : k <= j
    BY <2>1, LeastElement
  <2>3. k \in 0..MaxHops /\ near[k] # Within(r, S, k)
    BY <2>2
  <2>4. near[k] = IF k = 0 THEN {r} ELSE Nearer(S, near[k - 1])
    BY <1>3, <2>3
  <2>5. CASE k = 0
    BY <2>3, <2>4, <2>5, WithinZero
  <2>6. CASE k # 0
    <3>1. k \in Nat /\ k > 0 /\ k - 1 \in 0..MaxHops /\ ~(k <= k - 1)
      BY <2>3, <2>6, Parameters
    <3>2. k - 1 \notin T
      BY <2>2, <3>1
    <3>3. near[k - 1] = Within(r, S, k - 1)
      BY <3>1, <3>2
    <3> QED BY <2>3, <2>4, <2>6, <3>1, <3>3, WithinNext
  <2> QED BY <2>5, <2>6
<1> QED BY <1>1, <1>4, Parameters

(* The loop of a route that comes back to a node can be left out.          *)
LEMMA LoopLeftOut ==
  ASSUME NEW S \in SUBSET Node, NEW q \in Seq(Node), Route(q, S),
         NEW i \in 1..Len(q), NEW j \in 1..Len(q), i < j, q[i] = q[j]
  PROVE  \E d \in Seq(Node) : /\ Route(d, S) /\ Len(d) < Len(q)
                              /\ Head(d) = Head(q) /\ Last(d) = Last(q)
<1> DEFINE loop == j - i
           d == [k \in 1..(Len(q) - loop) |-> IF k <= i THEN q[k] ELSE q[k + loop]]
<1>1. /\ Len(q) \in Nat /\ i \in Nat /\ j \in Nat /\ i >= 1 /\ j <= Len(q)
      /\ loop \in Nat /\ loop >= 1 /\ Len(q) - loop \in Nat /\ Len(q) - loop >= i
      /\ j = i + loop
  OBVIOUS
<1>2. ASSUME NEW k \in 1..(Len(q) - loop)
      PROVE  k \in 1..Len(q) /\ (k > i => k + loop \in 1..Len(q))
  BY <1>1
<1>3. d \in Seq(Node) /\ Len(d) = Len(q) - loop
  <2>1. \A k \in 1..(Len(q) - loop) : d[k] \in Node
    BY <1>1, <1>2
  <2>2. d \in [1..(Len(q) - loop) -> Node]
    BY <2>1
  <2> QED BY <1>1, <2>2
<1>4. \A k \in 1..(Len(q) - loop) : d[k] = IF k <= i THEN q[k] ELSE q[k + loop]
  OBVIOUS
<1> HIDE DEF d
<1>5. d # <<>> /\ Head(d) = Head(q)
  <2>1. Len(d) >= 1 /\ 1 \in 1..(Len(q) - loop) /\ 1 <= i
    BY <1>1, <1>3
  <2>2. d[1] = q[1]
    BY <1>4, <2>1
  <2> QED BY <1>1, <1>3, <2>1, <2>2
<1>6. Last(d) = Last(q)
  <2>1. Last(d) = d[Len(q) - loop] /\ Last(q) = q[Len(q)] /\ Len(q) - loop \in 1..(Len(q) - loop)
    BY <1>1, <1>3 DEF Last
  <2>2. CASE Len(q) - loop > i
    <3>1. d[Len(q) - loop] = q[Len(q) - loop + loop]
      BY <1>1, <1>4, <2>1, <2>2
    <3> QED BY <1>1, <2>1, <3>1
  <2>3. CASE Len(q) - loop = i
    <3>1. d[Len(q) - loop] = q[i] /\ Len(q) = j
      BY <1>1, <1>4, <2>1, <2>3
    <3> QED BY <2>1, <3>1
  <2> QED BY <1>1, <2>2, <2>3
<1>7. ASSUME NEW k \in 1..(Len(d) - 1) PROVE Leads(d[k], d[k + 1]) /\ d[k + 1] \in S
  <2>1. /\ k \in Nat /\ k \in 1..(Len(q) - loop) /\ k + 1 \in 1..(Len(q) - loop)
        /\ k \in 1..(Len(q) - 1) /\ k + loop \in 1..(Len(q) - 1)
        /\ k + 1 + loop = k + loop + 1
    BY <1>1, <1>3
  <2>2. \A h \in 1..(Len(q) - 1) : Leads(q[h], q[h + 1]) /\ q[h + 1] \in S
    BY DEF Route, Steps
  <2>3. CASE k < i
    <3>1. d[k] = q[k] /\ d[k + 1] = q[k + 1]
      BY <1>1, <1>4, <2>1, <2>3
    <3> QED BY <2>1, <2>2, <3>1
  <2>4. CASE k >= i
    <3>1. d[k] = q[k + loop]
      BY <1>1, <1>4, <2>1, <2>4
    <3>2. ~(k + 1 <= i)
      BY <1>1, <2>1, <2>4
    <3>3. d[k + 1] = q[k + loop + 1]
      BY <1>4, <2>1, <3>2
    <3> QED BY <2>1, <2>2, <3>1, <3>3
  <2> QED BY <1>1, <2>1, <2>3, <2>4
<1>8. Route(d, S)
  BY <1>3, <1>5, <1>7 DEF Route, Steps
<1> QED BY <1>1, <1>3, <1>5, <1>6, <1>8

(* A node in reach is at the end of a route that passes no node twice: the *)
(* shortest.                                                               *)
LEMMA SimpleRoute ==
  ASSUME NEW r \in Node, NEW S \in SUBSET Node, NEW m \in Near(r, S)
  PROVE  \E q \in Seq(Node) : /\ Route(q, S) /\ Short(q) /\ IsInjective(q)
                              /\ Head(q) = r /\ Last(q) = m
<1> DEFINE Leading(q) == Route(q, S) /\ Head(q) = r /\ Last(q) = m
           T == {l \in Nat : \E q \in Seq(Node) : Leading(q) /\ Len(q) = l}
<1>1. PICK p \in Seq(Node) : Leading(p) /\ Len(p) <= MaxHops + 1
  BY NearIsWithin DEF Within
<1>2. Len(p) \in T
  BY <1>1
<1>3. PICK l \in T : \A k \in T : l <= k
  BY <1>2, LeastElement
<1>4. PICK q \in Seq(Node) : Leading(q) /\ Len(q) = l
  BY <1>3
<1>5. Short(q)
  <2>1. l <= Len(p) /\ l \in Nat /\ Len(p) \in Nat
    BY <1>2, <1>3
  <2> QED BY <1>1, <1>4, <2>1, Parameters DEF Short
<1>6. ASSUME NEW i \in 1..Len(q), NEW j \in 1..Len(q), i < j, q[i] = q[j] PROVE FALSE
  <2>1. PICK d \in Seq(Node) : /\ Route(d, S) /\ Len(d) < Len(q)
                               /\ Head(d) = Head(q) /\ Last(d) = Last(q)
    BY <1>4, <1>6, LoopLeftOut
  <2>2. Len(d) \in T
    BY <1>4, <2>1
  <2>3. l <= Len(d)
    BY <1>3, <2>2
  <2> QED BY <1>3, <1>4, <2>1, <2>3
<1>7. \A i \in 1..Len(q), j \in 1..Len(q) : i < j \/ j < i \/ i = j
  OBVIOUS
<1>8. IsInjective(q)
  <2>1. DOMAIN q = 1..Len(q)
    OBVIOUS
  <2> QED BY <1>6, <1>7, <2>1 DEF IsInjective
<1> QED BY <1>4, <1>5, <1>8

(* The end of a route within the budget belongs on the page.               *)
LEMMA RouteInReach ==
  ASSUME NEW q \in Seq(Node), Route(q, Node), Short(q)
  PROVE  Last(q) \in Near(Head(q), Node)
<1>1. q # <<>> /\ Head(q) \in Node /\ Last(q) \in Node
  BY LastIsNode DEF Route
<1> QED BY <1>1, NearIsWithin DEF Within, Short

(* A request whose handler runs is on a route, by its sender and its own   *)
(* admission.                                                              *)
LEMMA Arrived ==
  ASSUME NEW p \in Seq(Node), p # <<>>, NEW c, Reached(p, c), Admitted(p)
  PROVE  Route(p, Node)
<1>1. CASE Top(p)
  <2>1. Len(p) = 1
    BY <1>1 DEF Top
  <2> QED BY <2>1 DEF Route, Steps
<1>2. CASE ~Top(p)
  <2> DEFINE a == Front(p)
  <2>1. PICK q \in Seq(Node), m \in Node : p = Append(q, m)
    BY SequenceEmptyOrAppend
  <2>2. q # <<>>
    BY <1>2, <2>1 DEF Top
  <2>3. a = q /\ Last(p) = m
    BY <2>1, <2>2, Longer
  <2>4. Route(q, Node) /\ Last(q) \in Federating /\ m \in ToSet(Trust[Last(q)])
    BY <1>2, <2>3 DEF Reached
  <2>5. m \in Guarded => Last(q) \in ToSet(Trust[m])
    BY <1>2, <2>3 DEF Admitted, Asker
  <2> QED BY <2>1, <2>2, <2>4, <2>5, RouteLonger DEF Leads
<1> QED BY <1>1, <1>2

(* Fewer nodes that are up owe less.                                       *)
LEMMA CoveredLess ==
  ASSUME NEW p, NEW c, NEW up, NEW down \in SUBSET up, Covered(p, c, up)
  PROVE  Covered(p, c, down)
<1>1. \A x, q : Onward(x, q, down) => Onward(x, q, up)
  BY DEF Onward, Steps
<1>2. \A x, list : Covers(list, x, up) => Covers(list, x, down)
  BY <1>1 DEF Covers
<1> QED BY <1>2 DEF Covered

(* Where a route goes on from p: nowhere, or by way of a peer of Last(p).  *)
LEMMA OnwardBy ==
  ASSUME NEW p \in Seq(Node), p # <<>>, NEW up, NEW q \in Seq(Node), Onward(p, q, up)
  PROVE  \/ Last(q) = Last(p)
         \/ LET m == q[Len(p) + 1]
            IN  /\ m \in Node /\ m \in up /\ Leads(Last(p), m)
                /\ m \notin Passed(p) /\ m # Last(p)
                /\ Len(p) <= MaxHops
                /\ Onward(Append(p, m), q, up)
<1>1. /\ Len(p) \in Nat /\ Len(p) >= 1 /\ Len(q) \in Nat /\ Len(p) <= Len(q)
      /\ Len(q) <= MaxHops + 1
      /\ \A i \in 1..Len(p) : q[i] = p[i]
  BY DEF Onward, Short
<1>2. CASE Len(q) = Len(p)
  BY <1>1, <1>2 DEF Last
<1>3. CASE Len(q) # Len(p)
  <2> DEFINE m == q[Len(p) + 1]
             a == Append(p, m)
  <2>1. /\ Len(p) + 1 \in 1..Len(q) /\ Len(p) \in Len(p)..(Len(q) - 1)
        /\ Len(p) \in 1..Len(q) /\ Len(p) <= MaxHops /\ Len(p) + 1 <= Len(q)
    BY <1>1, <1>3, Parameters
  <2>2. m \in Node
    BY <2>1
  <2>3. Leads(q[Len(p)], m) /\ m \in up
    BY <2>1 DEF Onward, Steps
  <2>4. q[Len(p)] = Last(p)
    BY <1>1 DEF Last
  <2>5. \A i \in 1..Len(p) : p[i] # m
    <3>1. \A i \in 1..Len(p) : i \in DOMAIN q /\ Len(p) + 1 \in DOMAIN q /\ i # Len(p) + 1
      BY <1>1, <2>1
    <3>2. \A i \in 1..Len(p) : q[i] # q[Len(p) + 1]
      BY <3>1 DEF Onward, IsInjective
    <3> QED BY <1>1, <3>2
  <2>6. m \notin Passed(p) /\ m # Last(p)
    BY <1>1, <2>5 DEF Passed, Last
  <2>7. /\ Len(a) = Len(p) + 1
        /\ \A i \in 1..Len(p) : a[i] = p[i]
        /\ a[Len(p) + 1] = m
    BY <2>2
  <2>8. \A i \in 1..Len(a) : q[i] = a[i]
    <3>1. \A i \in 1..(Len(p) + 1) : i \in 1..Len(p) \/ i = Len(p) + 1
      BY <1>1
    <3> HIDE DEF a
    <3> QED BY <1>1, <2>7, <3>1
  <2>9. Steps(q, Len(a), up)
    <3>1. (Len(p) + 1)..(Len(q) - 1) \subseteq Len(p)..(Len(q) - 1)
      BY <1>1
    <3> QED BY <2>7, <3>1 DEF Onward, Steps
  <2>10. Onward(a, q, up)
    <3> HIDE DEF a, m
    <3> QED BY <2>1, <2>7, <2>8, <2>9 DEF Onward
  <2> QED BY <2>1, <2>2, <2>3, <2>4, <2>6, <2>10
<1> QED BY <1>2, <1>3
-----------------------------------------------------------------------------
(* The lists.                                                              *)

LEMMA OwnInReach ==
  ASSUME NEW p \in Seq(Node), Route(p, Node), Short(p), NEW x \in Offers[Last(p)]
  PROVE  <<Last(p), x>> \in Keys(Near(Head(p), Node))
<1>1. Last(p) \in Near(Head(p), Node)
  BY RouteInReach
<1> QED BY <1>1 DEF Keys

LEMMA LocalOnlyInReach ==
  ASSUME NEW p \in Seq(Node), Route(p, Node), Short(p)
  PROVE  InReachOf(Head(p), LocalOnly(Last(p)))
<1>1. \A e \in LocalOnly(Last(p)) : \E x \in Offers[Last(p)] : e.origin = Last(p) /\ e.name = x
  BY DEF LocalOnly, Catalogue
<1> QED BY <1>1, OwnInReach DEF InReachOf, Key

LEMMA MergedInReach ==
  ASSUME NEW p, NEW c, NEW s, NEW v, RequestOK(p, c, s, v), Reached(p, c), c.st = "running",
         Short(p)
  PROVE  InReachOf(Head(p), Merged(c, Last(p)))
<1> DEFINE me == Last(p)
           r == Head(p)
<1>1. p \in Seq(Node) /\ Route(p, Node)
  BY DEF RequestOK, Typed, Reached
<1>2. \A e \in Merged(c, me) : \E i \in 0..Len(Trust[me]) : e \in Part(c, me, i)
  BY DEF Merged
<1>3. ASSUME NEW e \in Part(c, me, 0) PROVE Key(e) \in Keys(Near(r, Node))
  <2>1. /\ c.own \in SUBSET Entry
        /\ \A f \in c.own : f.origin = Untagged /\ f.name \in Offers[me]
    BY DEF RequestOK, Typed, RequestType, ListsSound, Own, Reached
  <2>2. PICK f \in c.own : e = [f EXCEPT !.origin = me]
    BY <2>1 DEF Part, Tagged
  <2>3. e.origin = me /\ e.name = f.name
    BY <2>1, <2>2 DEF Entry
  <2> QED BY <1>1, <2>1, <2>3, OwnInReach DEF Key
<1>4. ASSUME NEW i \in 0..Len(Trust[me]), i # 0, NEW e \in Part(c, me, i)
      PROVE  Key(e) \in Keys(Near(r, Node))
  <2> DEFINE m == Trust[me][i]
  <2>1. m \in DOMAIN c.got /\ e \in Tagged(c.got[m].list, m)
    BY <1>4 DEF Part
  <2>2. c.got[m].list \in SUBSET Entry /\ Attributed(c.got[m].list)
    BY <2>1 DEF RequestOK, Typed, ListsSound, Sound, Fetch
  <2>3. e \in c.got[m].list
    BY <2>1, <2>2, TaggedOnce
  <2> QED BY <2>1, <2>3 DEF Reached, InReachOf
<1> QED BY <1>2, <1>3, <1>4 DEF InReachOf

(* What one part shows, the merged list shows.                             *)
LEMMA MergedShowsGot ==
  ASSUME NEW p, NEW c, NEW s, NEW v, RequestOK(p, c, s, v), c.st = "running",
         NEW m \in DOMAIN c.got, NEW n, Shows(n, c.got[m].list)
  PROVE  Shows(n, Merged(c, Last(p)))
<1> DEFINE me == Last(p)
<1>1. me \in Node /\ Trust[me] \in Seq(Node)
  BY Parameters, LastIsNode DEF RequestOK, Typed
<1>2. m \in ToSet(Trust[me])
  BY DEF RequestOK, Progress, Asked
<1>3. PICK i \in 1..Len(Trust[me]) : Trust[me][i] = m
  BY <1>1, <1>2 DEF ToSet
<1>4. c.got[m].list \in SUBSET Entry /\ Attributed(c.got[m].list)
  BY DEF RequestOK, Typed, ListsSound, Sound, Fetch
<1>5. Part(c, me, i) = c.got[m].list
  BY <1>3, <1>4, TaggedOnce DEF Part
<1>6. i \in 0..Len(Trust[me])
  BY <1>1
<1> SUFFICES ASSUME NEW x \in Offers[n]
             PROVE  \E e \in Merged(c, me) : e.origin = n /\ e.name = x
  BY DEF Shows
<1>7. PICK e \in Part(c, me, i) : e.origin = n /\ e.name = x
  BY <1>5 DEF Shows
<1>8. PICK f \in Merged(c, me) : Key(f) = Key(e)
  BY <1>1, <1>6, <1>7, MergedKeeps
<1> QED BY <1>7, <1>8 DEF Key

LEMMA MergedCovers ==
  ASSUME NEW p, NEW c, NEW s, NEW v, NEW up, RequestOK(p, c, s, v), c.st = "running",
         \A m \in DOMAIN c.got : c.got[m].st # "waiting", Covered(p, c, up)
  PROVE  Covers(Merged(c, Last(p)), p, up)
<1> DEFINE all == Merged(c, Last(p))
<1> SUFFICES ASSUME NEW q \in Seq(Node), Onward(p, q, up) PROVE Shows(Last(q), all)
  BY DEF Covers
<1>1. p \in Seq(Node) /\ p # <<>> /\ c.visited = Passed(p) /\ DOMAIN c.got = Asked(Last(p), c)
  BY DEF RequestOK, Typed, Bounded, Progress
<1>2. CASE Last(q) = Last(p)
  BY <1>2, MergedShows
<1> DEFINE m == q[Len(p) + 1]
<1>3. CASE /\ m \in up /\ Leads(Last(p), m)
           /\ m \notin Passed(p) /\ m # Last(p)
           /\ Onward(Append(p, m), q, up)
  <2>1. m \in DOMAIN c.got
    BY <1>1, <1>3 DEF Leads, Asked, Visited
  <2>2. c.got[m].st \in {"waiting", "answered", "failed"}
    BY <2>1 DEF RequestOK, Typed, Fetch
  <2>3. c.got[m].st = "answered" /\ Covers(c.got[m].list, Append(p, m), up)
    BY <1>3, <2>1, <2>2 DEF Covered
  <2>4. Shows(Last(q), c.got[m].list)
    BY <1>3, <2>3 DEF Covers
  <2> QED BY <2>1, <2>4, MergedShowsGot
<1> QED BY <1>1, <1>2, <1>3, OnwardBy

(* A handler that stops owes its own services only: a route that goes on   *)
(* from it is longer than the budget, or comes back to it.                 *)
LEMMA LocalOnlyCovers ==
  ASSUME NEW p, NEW c, NEW s, NEW v, NEW up, RequestOK(p, c, s, v), Stops(Last(p), c),
         NEW list, Shows(Last(p), list)
  PROVE  Covers(list, p, up)
<1> SUFFICES ASSUME NEW q \in Seq(Node), Onward(p, q, up) PROVE Last(q) = Last(p)
  BY DEF Covers
<1>1. /\ p \in Seq(Node) /\ p # <<>> /\ c.visited = Passed(p) /\ Len(p) \in Nat
      /\ c.ttl = MaxHops + 1 - Len(p)
  BY DEF RequestOK, Typed, Bounded
<1>2. Last(p) \notin Passed(p)
  <2>1. \A i \in 1..(Len(p) - 1) : i \in DOMAIN p /\ Len(p) \in DOMAIN p /\ i # Len(p)
    BY <1>1
  <2> QED BY <2>1 DEF RequestOK, Bounded, IsInjective, Passed, Last
<1>3. Last(p) \notin Federating \/ Len(p) > MaxHops
  BY <1>1, <1>2, Parameters DEF Stops
<1> QED BY <1>1, <1>3, OnwardBy, Parameters DEF Leads
-----------------------------------------------------------------------------
(* The steps.                                                              *)

LEMMA Facts ==
  ASSUME IInv, NEW p \in Paths
  PROVE  /\ p \in Seq(Node) /\ p # <<>> /\ Short(p) /\ Len(p) >= 1
         /\ request[p] \in RequestType(request[p])
         /\ RequestOK(p, request[p], since[Head(p)], rev)
<1>1. RequestOK(p, request[p], since[Head(p)], rev)
  BY DEF IInv
<1>2. p \in Seq(Node) /\ p # <<>> /\ request[p] \in RequestType(request[p])
  BY <1>1 DEF RequestOK, Typed
<1>3. request[p].ttl \in 0..MaxHops /\ request[p].ttl = MaxHops + 1 - Len(p) /\ Len(p) \in Nat
  BY <1>1, <1>2 DEF RequestOK, Bounded, RequestType
<1> QED BY <1>1, <1>2, <1>3, Parameters DEF Short

LEMMA ReachStep ==
  ASSUME ReachInv, UNCHANGED health,
         \A q \in Paths : Whole(Head(q))' => Whole(Head(q)),
         \A q \in Paths' : \/ q \in Paths /\ request'[q] = request[q]
                           \/ /\ Reached(q, request'[q])
                              /\ Refused(q, request'[q], health)
                              /\ Whole(Head(q))' => Covered(q, request'[q], UpNodes)
  PROVE  ReachInv'
<1>1. UpNodes' = UpNodes
  BY DEF UpNodes
<1> QED BY <1>1 DEF ReachInv

(* Where a page is whole after a step that asks for no other.              *)
LEMMA WholeKept ==
  ASSUME \A q \in Paths' : q \in Paths \/ Len(q) # 1, late \subseteq late'
  PROVE  \A r : Whole(r)' => Whole(r)
BY DEF Whole

LEMMA SentReached ==
  ASSUME NEW p, NEW visited, NEW ttl,
         ~Top(p) => /\ Route(Front(p), Node)
                    /\ Last(Front(p)) \in Federating
                    /\ Last(p) \in ToSet(Trust[Last(Front(p))])
  PROVE  /\ Reached(p, Sent(visited, ttl))
         /\ \A h : Refused(p, Sent(visited, ttl), h)
         /\ \A up : Covered(p, Sent(visited, ttl), up)
<1> DEFINE c == Sent(visited, ttl)
<1>1. c.st = "sent" /\ c.own = {} /\ c.list = {} /\ DOMAIN c.got = {}
  BY DEF Sent
<1> HIDE DEF c
<1>2. Reached(p, c) /\ (\A h : Refused(p, c, h)) /\ (\A up : Covered(p, c, up))
  BY <1>1 DEF Reached, Refused, Covered, InReachOf
<1> QED BY <1>2 DEF c

LEMMA AskReach == ASSUME IInv, ReachInv, NEW r \in Root, Ask(r) PROVE ReachInv'
<1>0. r \in Node
  BY Parameters
<1>1. /\ \A p \in Paths : Head(p) # r
      /\ Paths' = Paths \union {<<r>>}
      /\ \A p \in Paths : request'[p] = request[p]
      /\ request'[<<r>>] = Sent({}, MaxHops)
      /\ UNCHANGED <<health, late>>
  BY <1>0, Single DEF Ask, Paths
<1>2. ASSUME NEW q \in Paths, Whole(Head(q))' PROVE Whole(Head(q))
  <2>1. <<Head(q)>> # <<r>>
    BY <1>1
  <2> QED BY <1>1, <1>2, <2>1 DEF Whole
<1>3. /\ Reached(<<r>>, Sent({}, MaxHops))
      /\ \A h : Refused(<<r>>, Sent({}, MaxHops), h)
      /\ \A up : Covered(<<r>>, Sent({}, MaxHops), up)
  BY SentReached DEF Top
<1> QED BY <1>1, <1>2, <1>3, ReachStep

LEMMA AnswerLocallyReach ==
  ASSUME IInv, ReachInv, NEW p \in Paths, AnswerLocally(p) PROVE ReachInv'
<1> DEFINE c == request[p]
           n == Last(p)
           d == [c EXCEPT !.st = "answered", !.list = LocalOnly(n)]
<1>1. /\ Paths' = Paths
      /\ request'[p] = d
      /\ \A q \in Paths \ {p} : request'[q] = request[q]
      /\ UNCHANGED <<health, late>>
      /\ Stops(n, c) /\ Admitted(p) /\ c.st = "sent"
  BY DEF AnswerLocally, Starts, Paths, IInv, TypeOK
<1>2. /\ p \in Seq(Node) /\ p # <<>> /\ Short(p) /\ c \in RequestType(c)
      /\ RequestOK(p, c, since[Head(p)], rev)
  BY Facts
<1>3. d.st = "answered" /\ d.list = LocalOnly(n) /\ d.own = c.own /\ d.got = c.got
  BY <1>2 DEF RequestType
<1> HIDE DEF d
<1>4. Reached(p, c) /\ DOMAIN c.got = {}
  BY <1>1, <1>2 DEF ReachInv, RequestOK, Progress
<1>5. Route(p, Node)
  BY <1>1, <1>2, <1>4, Arrived
<1>6. Reached(p, d)
  BY <1>2, <1>3, <1>4, <1>5, LocalOnlyInReach DEF Reached
<1>7. Refused(p, d, health)
  BY <1>3 DEF Refused
<1>8. Shows(n, LocalOnly(n))
  <2>1. n \in Node /\ rev \in [Node -> Nat] /\ since[Head(p)] \in [Node -> Nat] /\ Head(p) \in Root
    BY Kinds DEF IInv
  <2> QED BY <2>1, LocalOnlySound DEF IInv
<1>9. Covers(LocalOnly(n), p, UpNodes)
  BY <1>1, <1>2, <1>8, LocalOnlyCovers
<1>10. Covered(p, d, UpNodes)
  BY <1>3, <1>4, <1>9 DEF Covered
<1> QED BY <1>1, <1>6, <1>7, <1>10, WholeKept, ReachStep

LEMMA FanOutReach == ASSUME IInv, ReachInv, NEW p \in Paths, FanOut(p) PROVE ReachInv'
<1> DEFINE c == request[p]
           n == Last(p)
           children == {Append(p, m) : m \in Asked(n, c)}
           got == [m \in Asked(n, c) |-> Waiting]
           d == [c EXCEPT !.st = "running", !.own = Catalogue(n), !.got = got]
           hop == Sent(Visited(n, c), c.ttl - 1)
<1>1. /\ Paths' = Paths \union children
      /\ \A q \in Paths' : request'[q] = IF q \in children THEN hop
                                         ELSE IF q = p THEN d ELSE request[q]
      /\ UNCHANGED <<health, late>>
      /\ ~Stops(n, c) /\ Admitted(p)
  BY DEF FanOut, Starts, Paths, IInv, TypeOK
<1>2. p \in Seq(Node) /\ p # <<>> /\ Len(p) >= 1 /\ c \in RequestType(c)
  BY Facts
<1>3. Waiting.st = "waiting" /\ Waiting.list = {}
  BY DEF Waiting
<1>4. /\ d.st = "running" /\ d.list = c.list /\ d.own = Catalogue(n) /\ d.got = got
      /\ \A m \in DOMAIN got : got[m].st = "waiting" /\ got[m].list = {}
  BY <1>2, <1>3 DEF RequestType
<1>5. Reached(p, c) /\ Route(p, Node)
  BY <1>1, <1>2, Arrived DEF ReachInv
<1>6. \A e \in Catalogue(n) : e.name \in Offers[n]
  BY DEF Catalogue
<1>7. ASSUME NEW q \in children
      PROVE  /\ Reached(q, hop)
             /\ \A h : Refused(q, hop, h)
             /\ \A up : Covered(q, hop, up)
             /\ Len(q) # 1
  <2>1. PICK m \in Asked(n, c) : q = Append(p, m)
    OBVIOUS
  <2>2. m \in ToSet(Trust[n]) /\ m \in Node
    BY <1>2, Parameters, LastIsNode DEF Asked, ToSet
  <2>3. Front(q) = p /\ Last(q) = m /\ Len(q) = Len(p) + 1 /\ Len(p) \in Nat
    BY <1>2, <2>1, <2>2, Longer
  <2>4. /\ Route(Front(q), Node) /\ Last(Front(q)) \in Federating
        /\ Last(q) \in ToSet(Trust[Last(Front(q))])
    BY <1>1, <1>5, <2>2, <2>3 DEF Stops
  <2>5. Len(q) # 1
    BY <1>2, <2>3
  <2> QED BY <2>4, <2>5, SentReached
<1> HIDE DEF d, got, hop, children
<1>8. Reached(p, d)
  BY <1>4, <1>5, <1>6 DEF Reached, InReachOf
<1>9. Refused(p, d, health) /\ Covered(p, d, UpNodes)
  BY <1>4 DEF Refused, Covered
<1>10. \A q \in Paths : Whole(Head(q))' => Whole(Head(q))
  BY <1>1, <1>7, WholeKept
<1>11. \A q \in Paths' : \/ q \in Paths /\ request'[q] = request[q]
                         \/ /\ Reached(q, request'[q])
                            /\ Refused(q, request'[q], health)
                            /\ Covered(q, request'[q], UpNodes)
  BY <1>1, <1>7, <1>8, <1>9
<1> QED BY <1>1, <1>10, <1>11, ReachStep

LEMMA RefuseReach == ASSUME IInv, ReachInv, NEW p \in Paths, Refuse(p) PROVE ReachInv'
<1> DEFINE c == request[p]
           d == [c EXCEPT !.st = "refused"]
<1>1. /\ Paths' = Paths
      /\ request'[p] = d
      /\ \A q \in Paths \ {p} : request'[q] = request[q]
      /\ UNCHANGED <<health, late>>
      /\ health[Last(p)] = "down" \/ ~Admitted(p)
  BY DEF Refuse, Paths, IInv, TypeOK
<1>2. c \in RequestType(c)
  BY Facts
<1>3. d.st = "refused" /\ d.list = c.list /\ d.own = c.own /\ d.got = c.got
  BY <1>2 DEF RequestType
<1> HIDE DEF d
<1>4. Reached(p, d)
  BY <1>3 DEF ReachInv, Reached
<1>5. Refused(p, d, health)
  BY <1>1 DEF Refused
<1>6. Whole(Head(p)) => Covered(p, d, UpNodes)
  BY <1>3 DEF ReachInv, Covered
<1> QED BY <1>1, <1>4, <1>5, <1>6, WholeKept, ReachStep

LEMMA AnswerReach == ASSUME IInv, ReachInv, NEW p \in Paths, Answer(p) PROVE ReachInv'
<1> DEFINE c == request[p]
           all == Merged(c, Last(p))
           d == [c EXCEPT !.st = "answered", !.list = all]
<1>1. /\ Paths' = Paths
      /\ request'[p] = d
      /\ \A q \in Paths \ {p} : request'[q] = request[q]
      /\ UNCHANGED <<health, late>>
      /\ c.st = "running" /\ \A m \in DOMAIN c.got : c.got[m].st # "waiting"
  BY DEF Answer, Paths, IInv, TypeOK
<1>2. /\ p \in Seq(Node) /\ Short(p) /\ c \in RequestType(c)
      /\ RequestOK(p, c, since[Head(p)], rev)
  BY Facts
<1>3. d.st = "answered" /\ d.list = all /\ d.own = c.own /\ d.got = c.got
  BY <1>2 DEF RequestType
<1> HIDE DEF d
<1>4. Reached(p, c) /\ (Whole(Head(p)) => Covered(p, c, UpNodes))
  BY DEF ReachInv
<1>5. Reached(p, d)
  BY <1>1, <1>2, <1>3, <1>4, MergedInReach DEF Reached
<1>6. Refused(p, d, health)
  BY <1>3 DEF Refused
<1>7. ASSUME Whole(Head(p)) PROVE Covered(p, d, UpNodes)
  <2>1. Covers(all, p, UpNodes)
    BY <1>1, <1>2, <1>4, <1>7, MergedCovers
  <2> QED BY <1>3, <1>4, <1>7, <2>1 DEF Covered
<1> QED BY <1>1, <1>5, <1>6, <1>7, WholeKept, ReachStep

(* The sender of p learns how its fetch ended; a timeout ends the promise  *)
(* of its page.                                                            *)
LEMMA EndedReach ==
  ASSUME IInv, ReachInv, NEW p \in Paths, Awaited(p), NEW st \in {"answered", "failed"}, NEW list,
         InReachOf(Head(p), list),
         NEW whole \in BOOLEAN, whole => Whole(Head(p)),
         whole /\ st = "answered" => Covers(list, p, UpNodes),
         whole /\ st = "failed" => ~(Leads(Last(Asker(p)), Last(p)) /\ Last(p) \in UpNodes)
  PROVE  \A q \in Paths : \/ Ended(p, st, list)[q] = request[q]
                          \/ /\ Head(q) = Head(p)
                             /\ Reached(q, Ended(p, st, list)[q])
                             /\ Refused(q, Ended(p, st, list)[q], health)
                             /\ whole => Covered(q, Ended(p, st, list)[q], UpNodes)
<1> DEFINE a == Asker(p)
           m == Last(p)
           c == request[a]
           end == [st |-> st, left |-> 0, list |-> list]
           got == [c.got EXCEPT ![m] = end]
           d == [c EXCEPT !.got = got]
<1>1. a \in Paths /\ c.st = "running" /\ Head(a) = Head(p)
  BY Shorter, Kinds DEF Awaited, Asker, IInv
<1>2. Append(a, m) = p
  <2>1. p \in Seq(Node) /\ p # <<>> /\ ~Top(p)
    BY Facts DEF Awaited
  <2>2. PICK q \in Seq(Node), x \in Node : p = Append(q, x)
    BY <2>1, SequenceEmptyOrAppend
  <2>3. q # <<>>
    BY <2>1, <2>2 DEF Top
  <2> QED BY <2>2, <2>3, Longer DEF Asker
<1>3. c \in RequestType(c)
  BY <1>1, Facts
<1>4. end.st = st /\ end.list = list
  OBVIOUS
<1> HIDE DEF end
<1>5. DOMAIN got = DOMAIN c.got /\ \A k \in DOMAIN got : got[k] = IF k = m THEN end ELSE c.got[k]
  OBVIOUS
<1> HIDE DEF got
<1>6. d.st = c.st /\ d.list = c.list /\ d.own = c.own /\ d.got = got
  BY <1>3 DEF RequestType
<1>7. /\ Ended(p, st, list)[a] = d
      /\ \A q \in Paths \ {a} : Ended(p, st, list)[q] = request[q]
  BY <1>1 DEF Ended, Paths, d, got, end
<1> HIDE DEF d
<1>8. /\ Reached(a, c) /\ Refused(a, c, health)
      /\ whole => Covered(a, c, UpNodes)
  BY <1>1 DEF ReachInv
<1>9. Reached(a, d)
  BY <1>1, <1>4, <1>5, <1>6, <1>8 DEF Reached
<1>10. Refused(a, d, health)
  BY <1>6, <1>8 DEF Refused
<1>11. ASSUME whole PROVE Covered(a, d, UpNodes)
  <2>1. Covered(a, c, UpNodes)
    BY <1>8, <1>11
  <2>2. ASSUME NEW k \in DOMAIN got
        PROVE  /\ got[k].st = "answered" => Covers(got[k].list, Append(a, k), UpNodes)
               /\ got[k].st = "failed" => ~(Leads(Last(a), k) /\ k \in UpNodes)
    <3>1. CASE k = m
      BY <1>2, <1>4, <1>5, <1>11, <3>1
    <3>2. CASE k # m
      BY <1>5, <2>1, <3>2 DEF Covered
    <3> QED BY <3>1, <3>2
  <2> QED BY <1>1, <1>6, <2>2 DEF Covered
<1> QED BY <1>1, <1>7, <1>9, <1>10, <1>11

LEMMA ReceiveReach == ASSUME IInv, ReachInv, NEW p \in Paths, Receive(p) PROVE ReachInv'
<1> DEFINE list == request[p].list
           ended == Ended(p, "answered", list)
<1>1. /\ Awaited(p) /\ request[p].st = "answered"
      /\ request' = [q \in Paths \ {p} |-> ended[q]]
      /\ UNCHANGED <<health, late>>
  BY DEF Receive
<1>2. Reached(p, request[p]) /\ (Whole(Head(p)) => Covered(p, request[p], UpNodes))
  BY DEF ReachInv
<1>3. /\ InReachOf(Head(p), list)
      /\ Whole(Head(p)) => Covers(list, p, UpNodes)
  BY <1>1, <1>2 DEF Reached, Covered
<1>4. Whole(Head(p)) \in BOOLEAN
  BY DEF Whole
<1>5. \A q \in Paths : \/ ended[q] = request[q]
                       \/ /\ Head(q) = Head(p)
                          /\ Reached(q, ended[q])
                          /\ Refused(q, ended[q], health)
                          /\ Whole(Head(p)) => Covered(q, ended[q], UpNodes)
  BY <1>1, <1>3, <1>4, EndedReach
<1> HIDE DEF ended
<1>6. Paths' = Paths \ {p} /\ \A q \in Paths' : request'[q] = ended[q]
  BY <1>1 DEF Paths
<1>7. \A r : Whole(r)' => Whole(r)
  BY <1>1, <1>6, WholeKept
<1> QED BY <1>1, <1>5, <1>6, <1>7, ReachStep

LEMMA FailReach == ASSUME IInv, ReachInv, NEW p \in Paths, Fail(p) PROVE ReachInv'
<1> DEFINE ended == Ended(p, "failed", {})
<1>1. /\ Awaited(p) /\ request[p].st = "refused"
      /\ request' = [q \in Paths \ {p} |-> ended[q]]
      /\ UNCHANGED <<health, late>>
  BY DEF Fail
<1>2. ~(Leads(Last(Asker(p)), Last(p)) /\ Last(p) \in UpNodes)
  <2>1. health[Last(p)] = "down" \/ ~Admitted(p)
    BY <1>1 DEF ReachInv, Refused
  <2> QED BY <2>1 DEF Admitted, Leads, UpNodes
<1>3. InReachOf(Head(p), {}) /\ Whole(Head(p)) \in BOOLEAN
  BY DEF InReachOf, Whole
<1>4. \A q \in Paths : \/ ended[q] = request[q]
                       \/ /\ Head(q) = Head(p)
                          /\ Reached(q, ended[q])
                          /\ Refused(q, ended[q], health)
                          /\ Whole(Head(p)) => Covered(q, ended[q], UpNodes)
  BY <1>1, <1>2, <1>3, EndedReach
<1> HIDE DEF ended
<1>5. Paths' = Paths \ {p} /\ \A q \in Paths' : request'[q] = ended[q]
  BY <1>1 DEF Paths
<1>6. \A r : Whole(r)' => Whole(r)
  BY <1>1, <1>5, WholeKept
<1> QED BY <1>1, <1>4, <1>5, <1>6, ReachStep

LEMMA TimeOutReach == ASSUME IInv, ReachInv, NEW p \in Paths, TimeOut(p) PROVE ReachInv'
<1> DEFINE ended == Ended(p, "failed", {})
<1>1. /\ Awaited(p)
      /\ request' = ended
      /\ late' = late \union {Head(p)}
      /\ UNCHANGED health
  BY DEF TimeOut
<1>2. InReachOf(Head(p), {})
  BY DEF InReachOf
<1>3. \A q \in Paths : \/ ended[q] = request[q]
                       \/ /\ Head(q) = Head(p)
                          /\ Reached(q, ended[q])
                          /\ Refused(q, ended[q], health)
  BY <1>1, <1>2, EndedReach
<1>4. DOMAIN ended = Paths
  BY DEF Ended, Paths
<1> HIDE DEF ended
<1>5. Paths' = Paths /\ \A q \in Paths' : request'[q] = ended[q]
  BY <1>1, <1>4 DEF Paths
<1>6. \A r : Whole(r)' => Whole(r)
  BY <1>1, <1>5, WholeKept
<1>7. ~Whole(Head(p))'
  BY <1>1 DEF Whole
<1> QED BY <1>1, <1>3, <1>5, <1>6, <1>7, ReachStep

LEMMA DropReach == ASSUME ReachInv, NEW p \in Paths, Drop(p) PROVE ReachInv'
<1>1. /\ Paths' = Paths \ {p}
      /\ \A q \in Paths' : request'[q] = request[q]
      /\ UNCHANGED <<health, late>>
  BY DEF Drop, Without, Paths
<1> QED BY <1>1, WholeKept, ReachStep

LEMMA RenderReach == ASSUME IInv, ReachInv, NEW p \in Paths, Render(p) PROVE ReachInv'
<1>1. /\ Paths' = Paths \ {p}
      /\ \A q \in Paths' : request'[q] = request[q]
      /\ late' = late \ {Head(p)}
      /\ UNCHANGED health
      /\ Len(p) = 1
  BY DEF Render, Without, Paths, Top
<1>2. p = <<Head(p)>>
  <2>1. p \in Seq(Node) /\ p # <<>>
    BY Facts
  <2> QED BY <1>1, <2>1
<1>3. \A r : Whole(r)' => Whole(r)
  BY <1>1, <1>2 DEF Whole
<1> QED BY <1>1, <1>3, ReachStep

LEMMA TickReach == ASSUME IInv, ReachInv, Tick PROVE ReachInv'
<1> DEFINE got(q) == [m \in DOMAIN request[q].got |-> Older(q, m)]
           d(q) == [request[q] EXCEPT !.got = got(q)]
<1>1. /\ request' = [q \in Paths |-> d(q)]
      /\ UNCHANGED <<health, late>>
  BY DEF Tick
<1>2. Paths' = Paths /\ \A q \in Paths : request'[q] = d(q)
  BY <1>1 DEF Paths
<1>3. ASSUME NEW q \in Paths
      PROVE  /\ Reached(q, d(q)) /\ Refused(q, d(q), health)
             /\ Whole(Head(q)) => Covered(q, d(q), UpNodes)
  <2> DEFINE c == request[q]
  <2>1. c \in RequestType(c) /\ c.got \in [DOMAIN c.got -> Fetch]
    BY Facts DEF IInv, TypeOK
  <2>2. \A m \in DOMAIN c.got : got(q)[m].st = c.got[m].st /\ got(q)[m].list = c.got[m].list
    BY <2>1 DEF Older, Fetch
  <2>3. DOMAIN got(q) = DOMAIN c.got
    OBVIOUS
  <2> HIDE DEF got
  <2>4. d(q).st = c.st /\ d(q).list = c.list /\ d(q).own = c.own /\ d(q).got = got(q)
    BY <2>1 DEF RequestType
  <2> HIDE DEF d
  <2>5. Reached(q, d(q))
    BY <2>2, <2>3, <2>4 DEF ReachInv, Reached
  <2>6. Refused(q, d(q), health)
    BY <2>4 DEF ReachInv, Refused
  <2>7. Whole(Head(q)) => Covered(q, d(q), UpNodes)
    BY <2>2, <2>3, <2>4 DEF ReachInv, Covered
  <2> QED BY <2>5, <2>6, <2>7
<1> HIDE DEF d
<1>4. \A r : Whole(r)' => Whole(r)
  BY <1>1, <1>2, WholeKept
<1> QED BY <1>1, <1>2, <1>3, <1>4, ReachStep

(* A node that fails is owed to no page any more.                          *)
LEMMA BreakReach == ASSUME IInv, ReachInv, NEW n \in Node, Break(n) PROVE ReachInv'
<1>1. /\ UNCHANGED <<request, late>>
      /\ \A m \in Node : m # n => health'[m] = health[m]
      /\ health[n] = "up"
  BY DEF Break, IInv, TypeOK
<1>2. UpNodes' \subseteq UpNodes
  BY <1>1 DEF UpNodes
<1>3. ASSUME NEW p \in Paths
      PROVE  /\ Reached(p, request[p]) /\ Refused(p, request[p], health')
             /\ Whole(Head(p)) => Covered(p, request[p], UpNodes')
  <2>1. Last(p) \in Node /\ Refused(p, request[p], health)
    BY Kinds DEF IInv, ReachInv
  <2>2. Refused(p, request[p], health')
    BY <1>1, <2>1 DEF Refused
  <2>3. Whole(Head(p)) => Covered(p, request[p], UpNodes')
    BY <1>2, CoveredLess DEF ReachInv
  <2> QED BY <2>2, <2>3 DEF ReachInv
<1>4. \A r : Whole(r)' <=> Whole(r)
  BY <1>1 DEF Whole, Paths
<1> QED BY <1>1, <1>3, <1>4 DEF ReachInv, Paths

LEMMA ReachNext == IInv /\ ReachInv /\ [Next]_vars => ReachInv'
<1> SUFFICES ASSUME IInv, ReachInv, [Next]_vars PROVE ReachInv'
  OBVIOUS
<1>1. ASSUME NEW p \in Paths, Handle(p) PROVE ReachInv'
  BY <1>1, AnswerLocallyReach, FanOutReach, RefuseReach, AnswerReach DEF Handle
<1>2. ASSUME NEW p \in Paths, EndFetch(p) PROVE ReachInv'
  BY <1>2, ReceiveReach, FailReach, TimeOutReach, DropReach DEF EndFetch
<1>3. CASE UNCHANGED <<health, request, late>>
  BY <1>3 DEF ReachInv, Paths, Whole, UpNodes
<1>4. ASSUME NEW n \in Node, Change(n) PROVE ReachInv'
  BY <1>3, <1>4 DEF Change
<1>5. CASE UNCHANGED vars
  BY <1>3, <1>5 DEF vars
<1> QED
  BY <1>1, <1>2, <1>4, <1>5, AskReach, RenderReach, BreakReach, TickReach DEF Next
-----------------------------------------------------------------------------
(* The theorem.                                                            *)

(* A node that is up always renders its page; the page shows its own       *)
(* services, and only those of nodes within the hop budget; and if no      *)
(* fetch of the walk timed out it shows every service of every node that   *)
(* is up and to which nodes that are up lead (federation.py,               *)
(* aggregate_services; app.py, _aggregation_result).                       *)
THEOREM PagesAreComplete == Spec => []Complete
<1>1. Init => ReachInv
  BY DEF Init, ReachInv, Paths
<1>2. IInv /\ ReachInv => Complete
  <2> SUFFICES ASSUME IInv, ReachInv PROVE Complete
    OBVIOUS
  <2>1. ASSUME NEW p \in Paths, Top(p)
        PROVE  p = <<Head(p)>> /\ Last(p) = Head(p) /\ Head(p) \in Root /\ Head(p) \in Node
    <3>1. p \in Seq(Node) /\ p # <<>> /\ Len(p) = 1 /\ Head(p) \in Root
      BY <2>1, Facts, Kinds DEF IInv, Top
    <3>2. p = <<Head(p)>>
      BY <3>1
    <3> QED BY <3>1, <3>2, Parameters DEF Last
  <2>2. ASSUME NEW p \in Paths, Top(p), request[p].st = "refused" PROVE health[Head(p)] = "down"
    BY <2>1, <2>2 DEF ReachInv, Refused, Admitted
  <2>3. ASSUME NEW p \in Pages
        PROVE  LET page == {Key(e) : e \in request[p].list}
               IN  /\ Keys({Head(p)}) \subseteq page
                   /\ page \subseteq Keys(InReach[Head(p)])
                   /\ Head(p) \notin late => Keys(Near(Head(p), UpNodes)) \subseteq page
    <3> DEFINE list == request[p].list
               page == {Key(e) : e \in list}
               r == Head(p)
    <3>1. p \in Paths /\ Top(p) /\ request[p].st = "answered"
      BY DEF Pages, Answered
    <3>2. p = <<r>> /\ Last(p) = r /\ r \in Root /\ r \in Node
      BY <2>1, <3>1
    <3>3. \A N : \A k \in Keys(N) : \E n \in N : \E x \in Offers[n] : k = <<n, x>>
      BY DEF Keys
    <3>4. ASSUME NEW N, \A n \in N : Shows(n, list) PROVE Keys(N) \subseteq page
      <4> SUFFICES ASSUME NEW n \in N, NEW x \in Offers[n] PROVE <<n, x>> \in page
        BY <3>3
      <4>1. PICK e \in list : e.origin = n /\ e.name = x
        BY <3>4 DEF Shows
      <4> QED BY <4>1 DEF Key
    <3>5. Keys({r}) \subseteq page
      <4>1. Shows(r, list)
        BY <3>1, <3>2 DEF IInv, RequestOK, Progress
      <4> QED BY <3>4, <4>1
    <3>6. page \subseteq Keys(InReach[r])
      <4>1. InReach[r] = Near(r, Node)
        BY <3>2 DEF InReach
      <4> QED BY <3>1, <4>1 DEF ReachInv, Reached, InReachOf
    <3>7. ASSUME r \notin late PROVE Keys(Near(r, UpNodes)) \subseteq page
      <4>1. Covers(list, p, UpNodes)
        <5>1. Whole(r)
          BY <3>1, <3>2, <3>7 DEF Whole
        <5> QED BY <3>1, <5>1 DEF ReachInv, Covered
      <4>2. ASSUME NEW m \in Near(r, UpNodes) PROVE Shows(m, list)
        <5>1. UpNodes \in SUBSET Node
          BY DEF UpNodes
        <5>2. PICK q \in Seq(Node) : /\ Route(q, UpNodes) /\ Short(q) /\ IsInjective(q)
                                     /\ Head(q) = r /\ Last(q) = m
          BY <3>2, <5>1, SimpleRoute
        <5>3. q # <<>> /\ Steps(q, 1, UpNodes)
          BY <5>2 DEF Route
        <5>4. Len(p) = 1 /\ p[1] = r /\ q[1] = r /\ 1 <= Len(q)
          BY <3>2, <5>2, <5>3
        <5>5. Onward(p, q, UpNodes)
          BY <5>2, <5>3, <5>4 DEF Onward
        <5> QED BY <4>1, <5>2, <5>5 DEF Covers
      <4> QED BY <3>4, <4>2
    <3> QED BY <3>5, <3>6, <3>7
  <2> QED BY <2>2, <2>3 DEF Complete
<1> QED BY <1>1, <1>2, Invariant, ReachNext, PTL DEF Spec
=============================================================================
