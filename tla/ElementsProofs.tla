---------------------------- MODULE ElementsProofs ----------------------------
(***************************************************************************)
(* A theory of screens, for any elements: what the proofs about the pages  *)
(* of ui_kits compose a screen from.                                       *)
(***************************************************************************)
EXTENDS Elements, TLAPS, SequenceTheorems, FiniteSetTheorems

-----------------------------------------------------------------------------
(* A place is a sequence, of anything.                                     *)
IsPlace(p) == \E S : p \in Seq(S)

LEMMA FunctionIsPlace ==
  ASSUME NEW n \in Nat, NEW f, f = [i \in 1 .. n |-> f[i]]
  PROVE  IsPlace(f) /\ Len(f) = n
<1> DEFINE S == {f[i] : i \in 1 .. n}
<1>1. f \in [1 .. n -> S]
  OBVIOUS
<1> HIDE DEF S
<1>2. f \in Seq(S)
  BY <1>1, SeqDef, Zenon
<1>3. Len(f) = n
  BY <1>1, <1>2
<1> QED BY <1>2, <1>3 DEF IsPlace

LEMMA LengthOfPlace == ASSUME NEW p, IsPlace(p) PROVE Len(p) \in Nat
  BY DEF IsPlace

LEMMA Place0 == IsPlace(<<>>) /\ Len(<<>>) = 0
<1>1. <<>> \in Seq({})
  OBVIOUS
<1> QED BY <1>1 DEF IsPlace

LEMMA Place1 ==
  ASSUME NEW x
  PROVE  IsPlace(<<x>>) /\ Len(<<x>>) = 1 /\ Len(<<x>>) > 0 /\ <<x>>[1] = x
<1> DEFINE w == <<x>>
<1>1. w = [i \in DOMAIN w |-> w[i]] /\ DOMAIN w = 1 .. 1 /\ w[1] = x
  OBVIOUS
<1> HIDE DEF w
<1>2. w = [i \in 1 .. 1 |-> w[i]]
  BY <1>1
<1>3. IsPlace(w) /\ Len(w) = 1
  BY <1>2, FunctionIsPlace
<1>4. Len(w) > 0
  BY <1>3
<1> QED BY <1>1, <1>3, <1>4 DEF w

LEMMA Place2 ==
  ASSUME NEW x, NEW y
  PROVE  IsPlace(<<x, y>>) /\ Len(<<x, y>>) = 2 /\ <<x, y>>[1] = x /\ <<x, y>>[2] = y
<1> DEFINE w == <<x, y>>
<1>1. w = [i \in DOMAIN w |-> w[i]] /\ DOMAIN w = 1 .. 2 /\ w[1] = x /\ w[2] = y
  OBVIOUS
<1> HIDE DEF w
<1>2. w = [i \in 1 .. 2 |-> w[i]]
  BY <1>1
<1>3. IsPlace(w) /\ Len(w) = 2
  BY <1>2, FunctionIsPlace
<1> QED BY <1>1, <1>3 DEF w

LEMMA Place3 ==
  ASSUME NEW x, NEW y, NEW z
  PROVE  /\ IsPlace(<<x, y, z>>) /\ Len(<<x, y, z>>) = 3
         /\ <<x, y, z>>[1] = x /\ <<x, y, z>>[2] = y /\ <<x, y, z>>[3] = z
<1> DEFINE w == <<x, y, z>>
<1>1. w = [i \in DOMAIN w |-> w[i]] /\ DOMAIN w = 1 .. 3 /\ w[1] = x /\ w[2] = y /\ w[3] = z
  OBVIOUS
<1> HIDE DEF w
<1>2. w = [i \in 1 .. 3 |-> w[i]]
  BY <1>1
<1>3. IsPlace(w) /\ Len(w) = 3
  BY <1>2, FunctionIsPlace
<1> QED BY <1>1, <1>3 DEF w

(* One place is another one, or around it.                                 *)
Inside(p, q) == Len(p) <= Len(q) /\ \A i \in 1 .. Len(p) : p[i] = q[i]

LEMMA PrefixIsInside ==
  ASSUME NEW p, IsPlace(p), NEW q, IsPlace(q)
  PROVE  Sequence!IsPrefix(p, q) <=> Inside(p, q)
<1>1. PICK S : p \in Seq(S)
  BY DEF IsPlace
<1>2. PICK T : q \in Seq(T)
  BY DEF IsPlace
<1> QED BY <1>1, <1>2 DEF Sequence!IsPrefix, Inside

LEMMA InsideOrder ==
  ASSUME NEW p, IsPlace(p), NEW q, IsPlace(q), NEW r, IsPlace(r)
  PROVE  /\ Inside(p, q) /\ Inside(q, r) => Inside(p, r)
         /\ Inside(p, r) /\ Inside(q, r) => Inside(p, q) \/ Inside(q, p)
         /\ Inside(p, r) /\ Inside(q, r) /\ Len(p) <= Len(q) => Inside(p, q)
<1>1. Len(p) \in Nat /\ Len(q) \in Nat /\ Len(r) \in Nat
  BY LengthOfPlace
<1> QED BY <1>1 DEF Inside

LEMMA Joined ==
  ASSUME NEW p, IsPlace(p), NEW q, IsPlace(q)
  PROVE  /\ IsPlace(p \o q) /\ Len(p \o q) = Len(p) + Len(q)
         /\ \A i \in 1 .. Len(p) : (p \o q)[i] = p[i]
         /\ \A i \in 1 .. Len(q) : (p \o q)[Len(p) + i] = q[i]
<1>1. PICK S : p \in Seq(S)
  BY DEF IsPlace
<1>2. PICK T : q \in Seq(T)
  BY DEF IsPlace
<1>3. p \in Seq(S \union T) /\ q \in Seq(S \union T)
  BY <1>1, <1>2
<1>4. /\ p \o q \in Seq(S \union T) /\ Len(p \o q) = Len(p) + Len(q)
      /\ \A i \in 1 .. Len(p) : (p \o q)[i] = p[i]
  BY <1>3
<1>5. \A i \in 1 .. Len(q) : (p \o q)[Len(p) + i] = q[i]
  BY <1>3
<1> QED BY <1>4, <1>5 DEF IsPlace

LEMMA InsideJoined ==
  ASSUME NEW p, IsPlace(p), NEW q, IsPlace(q), NEW r, IsPlace(r)
  PROVE  Inside(r \o p, r \o q) <=> Inside(p, q)
<1>1. Len(p) \in Nat /\ Len(q) \in Nat /\ Len(r) \in Nat
  BY LengthOfPlace
<1> DEFINE rp == r \o p
           rq == r \o q
<1>2. /\ Len(rp) = Len(r) + Len(p) /\ Len(rq) = Len(r) + Len(q)
      /\ \A i \in 1 .. Len(r) : rp[i] = r[i] /\ rq[i] = r[i]
      /\ \A i \in 1 .. Len(p) : rp[Len(r) + i] = p[i]
      /\ \A i \in 1 .. Len(q) : rq[Len(r) + i] = q[i]
  BY Joined
<1> HIDE DEF rp, rq
<1>3. ASSUME Inside(rp, rq) PROVE Inside(p, q)
  <2>1. Len(p) <= Len(q)
    BY <1>1, <1>2, <1>3 DEF Inside
  <2>2. ASSUME NEW i \in 1 .. Len(p) PROVE p[i] = q[i]
    <3>1. Len(r) + i \in 1 .. Len(rp) /\ i \in 1 .. Len(q)
      BY <1>1, <1>2, <2>1
    <3> QED BY <1>2, <1>3, <3>1 DEF Inside
  <2> QED BY <2>1, <2>2 DEF Inside
<1>4. ASSUME Inside(p, q) PROVE Inside(rp, rq)
  <2>1. Len(rp) <= Len(rq)
    BY <1>1, <1>2, <1>4 DEF Inside
  <2>2. ASSUME NEW i \in 1 .. Len(rp) PROVE rp[i] = rq[i]
    <3>1. CASE i \in 1 .. Len(r)
      BY <1>2, <3>1
    <3>2. CASE i > Len(r)
      <4>1. i - Len(r) \in 1 .. Len(p) /\ i - Len(r) \in 1 .. Len(q) /\ Len(r) + (i - Len(r)) = i
        BY <1>1, <1>2, <1>4, <3>2 DEF Inside
      <4> QED BY <1>2, <1>4, <4>1 DEF Inside
    <3> QED BY <1>1, <3>1, <3>2
  <2> QED BY <2>1, <2>2 DEF Inside
<1> QED BY <1>3, <1>4 DEF rp, rq
-----------------------------------------------------------------------------
(* Parts of a screen.                                                      *)
Kinds == {"button", "area", "link", "input", "key", "mark"}
IsElement(e) ==
  /\ e \in [at : {e.at}, kind : Kinds, does : {e.does}, look : {e.look}, stops : BOOLEAN]
  /\ IsPlace(e.at)
IsPart(part) == \A e \in part : IsElement(e)

LEMMA StoppingOf ==
  ASSUME NEW e, IsElement(e)
  PROVE  Stopping(e) = [at |-> e.at, kind |-> e.kind, does |-> e.does, look |-> e.look, stops |-> TRUE]
<1>1. ASSUME NEW b, b \in BOOLEAN
      PROVE  [e EXCEPT !.stops = b]
               = [at |-> e.at, kind |-> e.kind, does |-> e.does, look |-> e.look, stops |-> b]
  BY DEF IsElement
<1>2. TRUE \in BOOLEAN
  OBVIOUS
<1> QED BY <1>1, <1>2, Zenon DEF Stopping

LEMMA ElementsAre ==
  ASSUME NEW at, IsPlace(at), NEW act, NEW look, NEW kind \in Kinds
  PROVE  /\ IsElement(Element(at, kind, act, look)) /\ IsElement(Stopping(Element(at, kind, act, look)))
         /\ Element(at, kind, act, look).at = at /\ Element(at, kind, act, look).kind = kind
         /\ Element(at, kind, act, look).does = act /\ Element(at, kind, act, look).look = look
         /\ ~Element(at, kind, act, look).stops
         /\ Stopping(Element(at, kind, act, look)).at = at
         /\ Stopping(Element(at, kind, act, look)).kind = kind
         /\ Stopping(Element(at, kind, act, look)).does = act
         /\ Stopping(Element(at, kind, act, look)).look = look
         /\ Stopping(Element(at, kind, act, look)).stops
<1> DEFINE rec(s) == [at |-> at, kind |-> kind, does |-> act, look |-> look, stops |-> s]
<1>1. Element(at, kind, act, look) = rec(FALSE)
  BY DEF Element
<1>2. \A s : rec(s).at = at /\ rec(s).kind = kind /\ rec(s).does = act /\ rec(s).look = look /\ rec(s).stops = s
  OBVIOUS
<1>3. IsElement(rec(TRUE)) /\ IsElement(rec(FALSE))
  BY DEF IsElement
<1>4. Stopping(rec(FALSE)) = rec(TRUE)
  BY <1>2, <1>3, StoppingOf
<1> HIDE DEF rec
<1>5. ~rec(FALSE).stops /\ rec(TRUE).stops
  BY <1>2
<1> QED BY <1>1, <1>2, <1>3, <1>4, <1>5

Moves(e, p) == [at |-> p \o e.at, kind |-> e.kind, does |-> e.does, look |-> e.look, stops |-> e.stops]

LEMMA BelowMoves ==
  ASSUME NEW part, IsPart(part), NEW p, IsPlace(p)
  PROVE  /\ Below(p, part) = {Moves(e, p) : e \in part}
         /\ IsPart(Below(p, part))
         /\ \A e \in part : /\ Moves(e, p).at = p \o e.at /\ Moves(e, p).kind = e.kind
                            /\ Moves(e, p).does = e.does /\ Moves(e, p).look = e.look
                            /\ Moves(e, p).stops = e.stops
                            /\ Clicked(Moves(e, p)) <=> Clicked(e)
<1>1. \A e \in part : [e EXCEPT !.at = p \o @] = Moves(e, p)
  <2> TAKE e \in part
  <2>1. IsElement(e) /\ IsPlace(p \o e.at)
    BY Joined DEF IsPart, IsElement
  <2>2. \A q : [e EXCEPT !.at = q]
          = [at |-> q, kind |-> e.kind, does |-> e.does, look |-> e.look, stops |-> e.stops]
    BY <2>1 DEF IsElement
  <2> QED BY <2>1, <2>2 DEF Moves
<1>2. Below(p, part) = {Moves(e, p) : e \in part}
  BY <1>1, Zenon DEF Below
<1>3. \A e \in part : /\ Moves(e, p).at = p \o e.at /\ Moves(e, p).kind = e.kind
                      /\ Moves(e, p).does = e.does /\ Moves(e, p).look = e.look
                      /\ Moves(e, p).stops = e.stops
  BY DEF Moves
<1>4. \A e \in part : IsElement(Moves(e, p))
  <2> TAKE e \in part
  <2>1. IsPlace(e.at) /\ e.kind \in Kinds /\ e.stops \in BOOLEAN /\ IsPlace(p \o e.at)
    BY Joined DEF IsPart, IsElement
  <2> QED BY <2>1 DEF IsElement, Moves
<1> QED BY <1>2, <1>3, <1>4 DEF IsPart, Clicked

(* Of two elements one around the other, both with a handler, the inner    *)
(* one keeps the click, or what is between them.                           *)
Acts(e) == Clicked(e) /\ e.does # NoAct
Calm(part) ==
  \A f, g \in part :
    Acts(f) /\ Acts(g) /\ Inside(f.at, g.at) =>
      \/ f = g
      \/ \E h \in part : Clicked(h) /\ h.stops /\ Inside(h.at, g.at) /\ Len(f.at) < Len(h.at)
Sound(part) == IsPart(part) /\ Calm(part)

LEMMA FiredOf ==
  ASSUME NEW part, IsPart(part), NEW e \in part
  PROVE  Fired(part, e) =
           IF ~Clicked(e) THEN {e}
           ELSE {f \in part : /\ Acts(f) /\ Inside(f.at, e.at)
                              /\ \A g \in part : Clicked(g) /\ Inside(g.at, e.at)
                                                  /\ Len(f.at) < Len(g.at) => ~g.stops}
<1>1. Around(part, e) = {f \in part : Clicked(f) /\ Inside(f.at, e.at)}
  BY PrefixIsInside DEF Around, IsPart, IsElement
<1>2. \A f \in part : Len(f.at) \in Nat
  BY LengthOfPlace DEF IsPart, IsElement
<1> QED BY <1>1, <1>2 DEF Fired, Acts

(* A click on a calm part runs one handler.                                *)
LEMMA CalmFiresOne ==
  ASSUME NEW part, Sound(part), NEW e \in part
  PROVE  Cardinality(Fired(part, e)) <= 1
<1>1. CASE ~Clicked(e)
  <2>1. Fired(part, e) = {e}
    BY <1>1 DEF Fired
  <2>2. Cardinality({e}) = 1
    BY FS_Singleton
  <2> QED BY <2>1, <2>2
<1>2. CASE Clicked(e)
  <2>1. ASSUME NEW f \in Fired(part, e), NEW g \in Fired(part, e), Inside(f.at, g.at)
        PROVE  f = g
    <3>1. /\ f \in part /\ Acts(f) /\ Inside(f.at, e.at)
          /\ g \in part /\ Acts(g) /\ Inside(g.at, e.at)
          /\ \A h \in part : Clicked(h) /\ Inside(h.at, e.at) /\ Len(f.at) < Len(h.at) => ~h.stops
      BY <1>2, FiredOf DEF Sound
    <3>2. SUFFICES ASSUME NEW h \in part, Clicked(h), h.stops, Inside(h.at, g.at), Len(f.at) < Len(h.at)
                   PROVE  FALSE
      BY <2>1, <3>1 DEF Sound, Calm
    <3>3. IsPlace(h.at) /\ IsPlace(g.at) /\ IsPlace(e.at)
      BY <3>1, <3>2 DEF Sound, IsPart, IsElement
    <3>4. Inside(h.at, e.at)
      BY <3>1, <3>2, <3>3, InsideOrder
    <3> QED BY <3>1, <3>2, <3>4
  <2>2. ASSUME NEW f \in Fired(part, e), NEW g \in Fired(part, e) PROVE f = g
    <3>1. Inside(f.at, e.at) /\ Inside(g.at, e.at) /\ f \in part /\ g \in part
      BY <1>2, FiredOf DEF Sound
    <3>2. IsPlace(f.at) /\ IsPlace(g.at) /\ IsPlace(e.at)
      BY <3>1 DEF Sound, IsPart, IsElement
    <3>3. Inside(f.at, g.at) \/ Inside(g.at, f.at)
      BY <3>1, <3>2, InsideOrder
    <3> QED BY <2>1, <3>3
  <2>3. Fired(part, e) = {} \/ \E x : Fired(part, e) = {x}
    BY <2>2
  <2>4. Cardinality({}) = 0 /\ \A x : Cardinality({x}) = 1
    BY FS_EmptySet, FS_Singleton, Zenon
  <2>5. CASE Fired(part, e) = {}
    BY <2>4, <2>5
  <2>6. ASSUME NEW x, Fired(part, e) = {x} PROVE Cardinality(Fired(part, e)) = 1
    BY <2>4, <2>6, Zenon
  <2> QED BY <2>3, <2>5, <2>6
<1> QED BY <1>1, <1>2

LEMMA SoundBelow ==
  ASSUME NEW part, Sound(part), NEW p, IsPlace(p)
  PROVE  Sound(Below(p, part))
<1> DEFINE moved == {Moves(e, p) : e \in part}
<1>1. Below(p, part) = moved /\ IsPart(moved)
  BY BelowMoves DEF Sound
<1>2. \A e \in part : /\ Moves(e, p).at = p \o e.at /\ Moves(e, p).does = e.does
                      /\ Moves(e, p).stops = e.stops /\ (Clicked(Moves(e, p)) <=> Clicked(e))
  BY BelowMoves DEF Sound
<1>3. \A e \in part : IsPlace(e.at) /\ Len(e.at) \in Nat /\ Len(p \o e.at) = Len(p) + Len(e.at)
  BY Joined, LengthOfPlace DEF Sound, IsPart, IsElement
<1>4. Len(p) \in Nat
  BY LengthOfPlace
<1>5. Calm(moved)
  <2> SUFFICES ASSUME NEW f0 \in part, NEW g0 \in part, Acts(Moves(f0, p)), Acts(Moves(g0, p)),
                      Inside(Moves(f0, p).at, Moves(g0, p).at)
               PROVE  \/ Moves(f0, p) = Moves(g0, p)
                      \/ \E h \in moved : /\ Clicked(h) /\ h.stops
                                          /\ Inside(h.at, Moves(g0, p).at)
                                          /\ Len(Moves(f0, p).at) < Len(h.at)
    BY DEF Calm
  <2>1. Acts(f0) /\ Acts(g0) /\ Inside(f0.at, g0.at)
    <3>1. Acts(f0) /\ Acts(g0) /\ Inside(p \o f0.at, p \o g0.at)
      BY <1>2 DEF Acts
    <3>2. IsPlace(f0.at) /\ IsPlace(g0.at)
      BY <1>3
    <3> QED BY <3>1, <3>2, InsideJoined
  <2>2. CASE f0 = g0
    BY <2>2
  <2>3. ASSUME NEW h0 \in part, Clicked(h0), h0.stops, Inside(h0.at, g0.at), Len(f0.at) < Len(h0.at)
        PROVE  /\ Moves(h0, p) \in moved /\ Clicked(Moves(h0, p)) /\ Moves(h0, p).stops
               /\ Inside(Moves(h0, p).at, Moves(g0, p).at) /\ Len(Moves(f0, p).at) < Len(Moves(h0, p).at)
    <3>1. Inside(p \o h0.at, p \o g0.at)
      BY <1>3, <2>3, InsideJoined
    <3>2. Len(p) + Len(f0.at) < Len(p) + Len(h0.at)
      BY <1>3, <1>4, <2>3
    <3> QED BY <1>2, <1>3, <2>3, <3>1, <3>2
  <2> QED BY <2>1, <2>2, <2>3 DEF Sound, Calm
<1> QED BY <1>1, <1>5 DEF Sound

(* Parts that do not reach into each other.                                *)
Apart(p, q) ==
  \A f \in p, g \in q : Acts(f) /\ Acts(g) => ~Inside(f.at, g.at) /\ ~Inside(g.at, f.at)

LEMMA SoundUnion ==
  ASSUME NEW parts, \A p \in parts : Sound(p), \A p, q \in parts : p # q => Apart(p, q)
  PROVE  Sound(UNION parts)
<1>1. IsPart(UNION parts)
  BY DEF Sound, IsPart
<1>2. Calm(UNION parts)
  <2> SUFFICES ASSUME NEW p \in parts, NEW q \in parts, NEW f \in p, NEW g \in q,
                      Acts(f), Acts(g), Inside(f.at, g.at)
               PROVE  \/ f = g
                      \/ \E h \in UNION parts : /\ Clicked(h) /\ h.stops
                                                /\ Inside(h.at, g.at) /\ Len(f.at) < Len(h.at)
    BY DEF Calm
  <2>1. p = q
    BY DEF Apart
  <2> QED BY <2>1 DEF Sound, Calm
<1> QED BY <1>1, <1>2 DEF Sound

LEMMA SoundPair ==
  ASSUME NEW p, NEW q, Sound(p), Sound(q), Apart(p, q)
  PROVE  Sound(p \union q)
<1>1. Apart(q, p)
  BY DEF Apart
<1>2. Sound(UNION {p, q})
  BY <1>1, SoundUnion
<1>3. UNION {p, q} = p \union q
  OBVIOUS
<1> QED BY <1>2, <1>3

(* Every element of the part is below a place that is named in heads.      *)
Under(part, heads) == \A e \in part : Len(e.at) > 0 /\ e.at[1] \in heads

LEMMA ApartHeads ==
  ASSUME NEW p, NEW q, NEW X, NEW Y, IsPart(p), IsPart(q), Under(p, X), Under(q, Y), X \intersect Y = {}
  PROVE  Apart(p, q)
<1>1. \A e \in p \union q : Len(e.at) \in Nat
  BY LengthOfPlace DEF IsPart, IsElement
<1> QED BY <1>1 DEF Apart, Under, Inside

LEMMA SoundHeads ==
  ASSUME NEW p, NEW q, NEW X, NEW Y, Sound(p), Sound(q), Under(p, X), Under(q, Y), X \intersect Y = {}
  PROVE  Sound(p \union q) /\ Under(p \union q, X \union Y)
<1>1. Apart(p, q)
  BY ApartHeads DEF Sound
<1> QED BY <1>1, SoundPair DEF Under

LEMMA UnderBelow ==
  ASSUME NEW part, IsPart(part), NEW p, IsPlace(p), Len(p) > 0
  PROVE  Under(Below(p, part), {p[1]})
<1>1. \A e \in part : Moves(e, p).at = p \o e.at /\ IsPlace(e.at)
  <2>1. \A e \in part : IsPlace(e.at)
    BY DEF IsPart, IsElement
  <2> QED BY <2>1, BelowMoves
<1>2. \A e \in part : Len(p \o e.at) = Len(p) + Len(e.at) /\ (p \o e.at)[1] = p[1]
  <2> TAKE e \in part
  <2>1. Len(p) \in Nat /\ Len(e.at) \in Nat /\ 1 \in 1 .. Len(p)
    BY <1>1, LengthOfPlace
  <2> QED BY <1>1, <2>1, Joined
<1>3. \A e \in part : Len(e.at) \in Nat /\ Len(p) \in Nat
  BY <1>1, LengthOfPlace
<1> QED BY <1>1, <1>2, <1>3, BelowMoves DEF Under

LEMMA ApartBelow ==
  ASSUME NEW p, NEW q, IsPart(p), IsPart(q), Apart(p, q), NEW at, IsPlace(at)
  PROVE  Apart(Below(at, p), Below(at, q))
<1>1. /\ Below(at, p) = {Moves(e, at) : e \in p} /\ Below(at, q) = {Moves(e, at) : e \in q}
      /\ \A e \in p \union q : /\ Moves(e, at).at = at \o e.at /\ (Clicked(Moves(e, at)) <=> Clicked(e))
                               /\ Moves(e, at).does = e.does /\ IsPlace(e.at)
  <2>1. \A e \in p \union q : IsPlace(e.at)
    BY DEF IsPart, IsElement
  <2> QED BY <2>1, BelowMoves
<1>2. \A e, f \in p \union q : Inside(at \o e.at, at \o f.at) <=> Inside(e.at, f.at)
  BY <1>1, InsideJoined
<1>3. SUFFICES ASSUME NEW e \in p, NEW f \in q, Acts(Moves(e, at)), Acts(Moves(f, at))
               PROVE  /\ ~Inside(Moves(e, at).at, Moves(f, at).at)
                      /\ ~Inside(Moves(f, at).at, Moves(e, at).at)
  BY <1>1 DEF Apart
<1>4. Acts(e) /\ Acts(f)
  BY <1>1, <1>3 DEF Acts
<1>5. ~Inside(e.at, f.at) /\ ~Inside(f.at, e.at)
  BY <1>4 DEF Apart
<1> QED BY <1>1, <1>2, <1>5

LEMMA SoundNothing == Sound({}) /\ \A X : Under({}, X)
  BY DEF Sound, IsPart, Calm, Under

LEMMA SoundWhen ==
  ASSUME NEW part, NEW c
  PROVE  /\ Sound(part) => Sound(When(c, part))
         /\ \A X : Under(part, X) => Under(When(c, part), X)
  BY SoundNothing DEF When

-----------------------------------------------------------------------------
(* How often a deed is offered, by elements of some kinds.                 *)
Offering(part, kinds, act) == {e \in part : e.kind \in kinds /\ e.does = act}
Once(part, kinds, act) == \E x : Offering(part, kinds, act) = {x}
Never(part, kinds, act) == Offering(part, kinds, act) = {}

LEMMA OfferedBelow ==
  ASSUME NEW part, IsPart(part), NEW p, IsPlace(p), NEW kinds, NEW act
  PROVE  /\ Once(part, kinds, act) => Once(Below(p, part), kinds, act)
         /\ Never(part, kinds, act) => Never(Below(p, part), kinds, act)
<1>1. Offering(Below(p, part), kinds, act) = {Moves(e, p) : e \in Offering(part, kinds, act)}
  BY BelowMoves DEF Offering
<1>2. \A x : Offering(part, kinds, act) = {x} => Offering(Below(p, part), kinds, act) = {Moves(x, p)}
  BY <1>1
<1>3. Offering(part, kinds, act) = {} => Offering(Below(p, part), kinds, act) = {}
  BY <1>1
<1> QED BY <1>2, <1>3 DEF Once, Never

LEMMA OfferedPair ==
  ASSUME NEW p, NEW q, NEW kinds, NEW act
  PROVE  /\ Never(p, kinds, act) /\ Never(q, kinds, act) => Never(p \union q, kinds, act)
         /\ Once(p, kinds, act) /\ Never(q, kinds, act) => Once(p \union q, kinds, act)
         /\ Never(p, kinds, act) /\ Once(q, kinds, act) => Once(p \union q, kinds, act)
<1>1. Offering(p \union q, kinds, act) = Offering(p, kinds, act) \union Offering(q, kinds, act)
  BY DEF Offering
<1> QED BY <1>1 DEF Once, Never

LEMMA OfferedUnion ==
  ASSUME NEW parts, NEW kinds, NEW act
  PROVE  /\ (\A p \in parts : Never(p, kinds, act)) => Never(UNION parts, kinds, act)
         /\ \A p \in parts :
              Once(p, kinds, act) /\ (\A q \in parts : q = p \/ Never(q, kinds, act))
                => Once(UNION parts, kinds, act)
<1>1. (\A p \in parts : Never(p, kinds, act)) => Never(UNION parts, kinds, act)
  BY DEF Never, Offering
<1>2. ASSUME NEW p \in parts, Once(p, kinds, act), \A q \in parts : q = p \/ Never(q, kinds, act)
      PROVE  Once(UNION parts, kinds, act)
  <2>1. Offering(UNION parts, kinds, act) = Offering(p, kinds, act)
    BY <1>2 DEF Never, Offering
  <2> QED BY <1>2, <2>1 DEF Once
<1> QED BY <1>1, <1>2

LEMMA OfferedWhen ==
  ASSUME NEW part, NEW c, NEW kinds, NEW act
  PROVE  Never(part, kinds, act) => Never(When(c, part), kinds, act)
  BY DEF Never, Offering, When

LEMMA OfferedCount ==
  ASSUME NEW part, NEW kinds, NEW act
  PROVE  /\ Once(part, kinds, act) => Cardinality(Offering(part, kinds, act)) = 1
         /\ Never(part, kinds, act) => Cardinality(Offering(part, kinds, act)) = 0
  BY FS_EmptySet, FS_Singleton, Zenon DEF Once, Never

-----------------------------------------------------------------------------
(* Nothing that can be clicked is in what has a handler.                   *)
Flat(part) ==
  /\ IsPart(part)
  /\ \A e \in part : ~e.stops
  /\ \A f, g \in part : Acts(f) /\ Clicked(g) /\ Inside(f.at, g.at) => f = g
Own(e) == IF Clicked(e) /\ e.does = NoAct THEN {} ELSE {e.does}

LEMMA InsideItself == \A p : IsPlace(p) => Inside(p, p)
  BY LengthOfPlace DEF Inside

LEMMA FlatDeeds ==
  ASSUME NEW part, Flat(part)
  PROVE  Deeds(part) = {<<e.kind, e.look, Own(e)>> : e \in part}
<1>1. ASSUME NEW e \in part PROVE {f.does : f \in Fired(part, e)} = Own(e)
  <2>1. CASE ~Clicked(e)
    BY <2>1 DEF Fired, Own
  <2>2. CASE Clicked(e) /\ e.does = NoAct
    <3>1. Fired(part, e) = {}
      BY <2>2, FiredOf DEF Flat, Acts
    <3> QED BY <2>2, <3>1 DEF Own
  <2>3. CASE Clicked(e) /\ e.does # NoAct
    <3>1. Inside(e.at, e.at)
      BY InsideItself DEF Flat, IsPart, IsElement
    <3>2. Fired(part, e) = {e}
      BY <2>3, <3>1, FiredOf DEF Flat, Acts
    <3> QED BY <2>3, <3>2 DEF Own
  <2> QED BY <2>1, <2>2, <2>3
<1> QED BY <1>1, Zenon DEF Deeds

(* The elements that take no click may be anywhere.                        *)
LEMMA SameDeeds ==
  ASSUME NEW p, NEW q, IsPart(p), IsPart(q),
         {e \in p : Clicked(e)} = {e \in q : Clicked(e)},
         \A e \in p : ~Clicked(e) => \E f \in q : ~Clicked(f) /\ f.kind = e.kind /\ f.look = e.look /\ f.does = e.does,
         \A e \in q : ~Clicked(e) => \E f \in p : ~Clicked(f) /\ f.kind = e.kind /\ f.look = e.look /\ f.does = e.does
  PROVE  Deeds(p) = Deeds(q)
<1> DEFINE Deed(part, e) == <<e.kind, e.look, {f.does : f \in Fired(part, e)}>>
<1>1. ASSUME NEW e \in p, Clicked(e) PROVE e \in q /\ Deed(p, e) = Deed(q, e)
  <2>1. e \in q
    BY <1>1
  <2>2. Fired(p, e) = Fired(q, e)
    <3>1. \A f : Clicked(f) => (f \in p <=> f \in q)
      OBVIOUS
    <3>2. /\ Fired(p, e) = {f \in p : /\ Acts(f) /\ Inside(f.at, e.at)
                                     /\ \A g \in p : Clicked(g) /\ Inside(g.at, e.at)
                                                       /\ Len(f.at) < Len(g.at) => ~g.stops}
          /\ Fired(q, e) = {f \in q : /\ Acts(f) /\ Inside(f.at, e.at)
                                     /\ \A g \in q : Clicked(g) /\ Inside(g.at, e.at)
                                                       /\ Len(f.at) < Len(g.at) => ~g.stops}
      BY <1>1, <2>1, FiredOf
    <3> QED BY <3>1, <3>2 DEF Acts
  <2> QED BY <2>1, <2>2
<1>2. \A e \in p \union q : ~Clicked(e) => Deed(p, e) = <<e.kind, e.look, {e.does}>> /\ Deed(q, e) = <<e.kind, e.look, {e.does}>>
  BY DEF Fired
<1>3. Deeds(p) = {Deed(p, e) : e \in p} /\ Deeds(q) = {Deed(q, e) : e \in q}
  BY Zenon DEF Deeds
<1> HIDE DEF Deed
<1>4. ASSUME NEW e \in p PROVE \E f \in q : Deed(p, e) = Deed(q, f)
  <2>1. CASE Clicked(e)
    BY <1>1, <2>1
  <2>2. CASE ~Clicked(e)
    <3>1. PICK f \in q : ~Clicked(f) /\ f.kind = e.kind /\ f.look = e.look /\ f.does = e.does
      BY <2>2
    <3>2. Deed(p, e) = <<e.kind, e.look, {e.does}>> /\ Deed(q, f) = <<f.kind, f.look, {f.does}>>
      BY <1>2, <2>2, <3>1
    <3> QED BY <3>1, <3>2
  <2> QED BY <2>1, <2>2
<1>5. ASSUME NEW e \in q PROVE \E f \in p : Deed(q, e) = Deed(p, f)
  <2>1. CASE Clicked(e)
    <3>1. e \in p
      BY <2>1
    <3> QED BY <1>1, <2>1, <3>1
  <2>2. CASE ~Clicked(e)
    <3>1. PICK f \in p : ~Clicked(f) /\ f.kind = e.kind /\ f.look = e.look /\ f.does = e.does
      BY <2>2
    <3>2. Deed(q, e) = <<e.kind, e.look, {e.does}>> /\ Deed(p, f) = <<f.kind, f.look, {f.does}>>
      BY <1>2, <2>2, <3>1
    <3> QED BY <3>1, <3>2
  <2> QED BY <2>1, <2>2
<1> QED BY <1>3, <1>4, <1>5, Zenon

-----------------------------------------------------------------------------
(* Sound parts that show no item.                                          *)
Shows == {"open", "attach", "promote"}
Idle(act) == \A n : \A v \in Shows : act # <<v, n>>
Plain(part) ==
  /\ Sound(part)
  /\ \A kinds, n : \A v \in Shows : Never(part, kinds, <<v, n>>)

(* The items of these names, and no other, can be shown, each by one       *)
(* element of these kinds.                                                 *)
Catalogue(part, kinds, verb, names) ==
  /\ Sound(part)
  /\ \A n : IF n \in names THEN Once(part, kinds, <<verb, n>>) ELSE Never(part, kinds, <<verb, n>>)

LEMMA IdleActs ==
  /\ Idle(NoAct)
  /\ \A x : Idle(<<x>>)
  /\ \A x, y : x \notin Shows => Idle(<<x, y>>)
  BY DEF Idle, NoAct

LEMMA ActsHere ==
  /\ "open" \in Shows /\ "attach" \in Shows /\ "promote" \in Shows
  /\ Idle(NoAct) /\ (\A x : Idle(<<x>>))
  /\ \A y : /\ Idle(<<"type", y>>) /\ Idle(<<"clear", y>>) /\ Idle(<<"show", y>>)
            /\ Idle(<<"close", y>>) /\ Idle(<<"remove", y>>) /\ Idle(<<"deregister", y>>)
            /\ Idle(<<"mode", y>>) /\ Idle(<<"tab", y>>) /\ Idle(<<"tier", y>>)
            /\ Idle(<<"bell", y>>) /\ Idle(<<"open here", y>>) /\ Idle(<<"new tab", y>>)
<1>1. /\ "type" \notin Shows /\ "clear" \notin Shows /\ "show" \notin Shows /\ "close" \notin Shows
      /\ "remove" \notin Shows /\ "deregister" \notin Shows /\ "mode" \notin Shows
      /\ "tab" \notin Shows /\ "tier" \notin Shows /\ "bell" \notin Shows
      /\ "open here" \notin Shows /\ "new tab" \notin Shows
  BY DEF Shows
<1>2. "open" \in Shows /\ "attach" \in Shows /\ "promote" \in Shows
  BY DEF Shows
<1> QED BY <1>1, <1>2, IdleActs, Zenon

LEMMA PlainIsCatalogue ==
  ASSUME NEW part, Plain(part), NEW kinds, NEW v \in Shows
  PROVE  Catalogue(part, kinds, v, {})
  BY DEF Plain, Catalogue

LEMMA OneElement ==
  ASSUME NEW at, IsPlace(at), NEW kind \in Kinds, NEW act, NEW look, NEW e,
         e = Element(at, kind, act, look) \/ e = Stopping(Element(at, kind, act, look))
  PROVE  /\ Sound({e}) /\ (Idle(act) => Plain({e}))
         /\ Len(at) > 0 => Under({e}, {at[1]})
<1>1. IsElement(e) /\ e.at = at /\ e.does = act
  BY ElementsAre
<1>2. Sound({e})
  BY <1>1 DEF Sound, IsPart, Calm
<1>3. Idle(act) => \A kinds, n : \A v \in Shows : Never({e}, kinds, <<v, n>>)
  BY <1>1 DEF Idle, Never, Offering
<1>4. Len(at) > 0 => Under({e}, {at[1]})
  BY <1>1 DEF Under
<1> QED BY <1>2, <1>3, <1>4 DEF Plain

LEMMA PlainAt1 ==
  ASSUME NEW x, NEW kind \in Kinds, NEW act, NEW look, Idle(act)
  PROVE  /\ Plain({Element(<<x>>, kind, act, look)})
         /\ Under({Element(<<x>>, kind, act, look)}, {x})
<1>1. IsPlace(<<x>>) /\ Len(<<x>>) > 0 /\ <<x>>[1] = x
  BY Place1, Zenon
<1> QED BY <1>1, OneElement

LEMMA PlainHere ==
  ASSUME NEW kind \in Kinds, NEW act, NEW look, Idle(act)
  PROVE  Plain({Element(<<>>, kind, act, look)})
  BY Place0, OneElement

LEMMA PlainNothing == Plain({}) /\ \A X : Under({}, X)
  BY SoundNothing DEF Plain, Never, Offering

LEMMA PlainWhen ==
  ASSUME NEW part, NEW c
  PROVE  /\ Plain(part) => Plain(When(c, part))
         /\ \A X : Under(part, X) => Under(When(c, part), X)
  BY PlainNothing DEF When

LEMMA CatalogueBelow ==
  ASSUME NEW part, NEW kinds, NEW verb, NEW names, Catalogue(part, kinds, verb, names),
         NEW p, IsPlace(p)
  PROVE  Catalogue(Below(p, part), kinds, verb, names)
<1>1. IsPart(part)
  BY DEF Catalogue, Sound
<1>2. Sound(Below(p, part))
  BY SoundBelow DEF Catalogue
<1>3. ASSUME NEW n
      PROVE  IF n \in names THEN Once(Below(p, part), kinds, <<verb, n>>)
             ELSE Never(Below(p, part), kinds, <<verb, n>>)
  BY <1>1, OfferedBelow DEF Catalogue
<1> QED BY <1>2, <1>3 DEF Catalogue

LEMMA PlainBelow ==
  ASSUME NEW part, Plain(part), NEW x
  PROVE  Plain(Below(<<x>>, part)) /\ Under(Below(<<x>>, part), {x})
<1>1. IsPlace(<<x>>) /\ Len(<<x>>) > 0 /\ <<x>>[1] = x
  BY Place1, Zenon
<1>2. IsPart(part)
  BY DEF Plain, Sound
<1>3. Sound(Below(<<x>>, part))
  BY <1>1, SoundBelow DEF Plain
<1>4. \A kinds, n : \A v \in Shows : Never(Below(<<x>>, part), kinds, <<v, n>>)
  BY <1>1, <1>2, OfferedBelow DEF Plain
<1>5. Under(Below(<<x>>, part), {x})
  BY <1>1, <1>2, UnderBelow
<1> QED BY <1>3, <1>4, <1>5 DEF Plain

LEMMA PlainHeads ==
  ASSUME NEW p, NEW q, NEW X, NEW Y, Plain(p), Plain(q), Under(p, X), Under(q, Y), X \intersect Y = {}
  PROVE  Plain(p \union q) /\ Under(p \union q, X \union Y)
  BY SoundHeads, OfferedPair DEF Plain

LEMMA PlainPair ==
  ASSUME NEW x, NEW y, x # y, NEW a, NEW b, Plain(a), Plain(b), Under(a, {x}), Under(b, {y})
  PROVE  Plain(a \union b) /\ Under(a \union b, {x} \union {y})
<1>1. {x} \intersect {y} = {}
  OBVIOUS
<1> QED BY <1>1, PlainHeads, Zenon

LEMMA PlainThree ==
  ASSUME NEW x, NEW y, NEW z, x # y, x # z, y # z,
         NEW a, NEW b, NEW c, Plain(a), Plain(b), Plain(c),
         Under(a, {x}), Under(b, {y}), Under(c, {z})
  PROVE  Plain(a \union b \union c) /\ Under(a \union b \union c, {x} \union {y} \union {z})
<1>1. ({x} \union {y}) \intersect {z} = {}
  OBVIOUS
<1>2. Plain(a \union b) /\ Under(a \union b, {x} \union {y})
  BY PlainPair, Zenon
<1> QED BY <1>1, <1>2, PlainHeads, Zenon

LEMMA PlainFour ==
  ASSUME NEW x, NEW y, NEW z, NEW u, x # y, x # z, x # u, y # z, y # u, z # u,
         NEW a, NEW b, NEW c, NEW d, Plain(a), Plain(b), Plain(c), Plain(d),
         Under(a, {x}), Under(b, {y}), Under(c, {z}), Under(d, {u})
  PROVE  /\ Plain(a \union b \union c \union d)
         /\ Under(a \union b \union c \union d, {x} \union {y} \union {z} \union {u})
<1>1. ({x} \union {y} \union {z}) \intersect {u} = {}
  OBVIOUS
<1>2. Plain(a \union b \union c) /\ Under(a \union b \union c, {x} \union {y} \union {z})
  BY PlainThree, Zenon
<1> QED BY <1>1, <1>2, PlainHeads, Zenon

LEMMA PlainFive ==
  ASSUME NEW x, NEW y, NEW z, NEW u, NEW v,
         x # y, x # z, x # u, x # v, y # z, y # u, y # v, z # u, z # v, u # v,
         NEW a, NEW b, NEW c, NEW d, NEW e,
         Plain(a), Plain(b), Plain(c), Plain(d), Plain(e),
         Under(a, {x}), Under(b, {y}), Under(c, {z}), Under(d, {u}), Under(e, {v})
  PROVE  /\ Plain(a \union b \union c \union d \union e)
         /\ Under(a \union b \union c \union d \union e,
                  {x} \union {y} \union {z} \union {u} \union {v})
<1>1. ({x} \union {y} \union {z} \union {u}) \intersect {v} = {}
  OBVIOUS
<1>2. /\ Plain(a \union b \union c \union d)
      /\ Under(a \union b \union c \union d, {x} \union {y} \union {z} \union {u})
  BY PlainFour, Zenon
<1> QED BY <1>1, <1>2, PlainHeads, Zenon

LEMMA PlainSix ==
  ASSUME NEW x, NEW y, NEW z, NEW u, NEW v, NEW w,
         x # y, x # z, x # u, x # v, y # z, y # u, y # v, z # u, z # v, u # v,
         x # w, y # w, z # w, u # w, v # w,
         NEW a, NEW b, NEW c, NEW d, NEW e, NEW f,
         Plain(a), Plain(b), Plain(c), Plain(d), Plain(e), Plain(f),
         Under(a, {x}), Under(b, {y}), Under(c, {z}), Under(d, {u}), Under(e, {v}), Under(f, {w})
  PROVE  Plain(a \union b \union c \union d \union e \union f)
<1>1. ({x} \union {y} \union {z} \union {u} \union {v}) \intersect {w} = {}
  OBVIOUS
<1>2. /\ Plain(a \union b \union c \union d \union e)
      /\ Under(a \union b \union c \union d \union e,
               {x} \union {y} \union {z} \union {u} \union {v})
  BY PlainFive, Zenon
<1> QED BY <1>1, <1>2, PlainHeads, Zenon

LEMMA CatalogueHeads ==
  ASSUME NEW p, NEW q, NEW X, NEW Y, Under(p, X), Under(q, Y), X \intersect Y = {},
         NEW kinds, NEW verb, NEW M1, NEW M2, M1 \intersect M2 = {},
         Catalogue(p, kinds, verb, M1), Catalogue(q, kinds, verb, M2)
  PROVE  Catalogue(p \union q, kinds, verb, M1 \union M2) /\ Under(p \union q, X \union Y)
<1>1. Sound(p \union q) /\ Under(p \union q, X \union Y)
  BY SoundHeads DEF Catalogue
<1>2. ASSUME NEW n
      PROVE  IF n \in M1 \union M2 THEN Once(p \union q, kinds, <<verb, n>>)
             ELSE Never(p \union q, kinds, <<verb, n>>)
  BY OfferedPair DEF Catalogue
<1> QED BY <1>1, <1>2 DEF Catalogue

LEMMA CataloguePlain ==
  ASSUME NEW p, NEW q, NEW X, NEW Y, Under(p, X), Under(q, Y), X \intersect Y = {},
         NEW kinds, NEW verb \in Shows, NEW names, Catalogue(p, kinds, verb, names), Plain(q)
  PROVE  /\ Catalogue(p \union q, kinds, verb, names) /\ Under(p \union q, X \union Y)
         /\ Catalogue(q \union p, kinds, verb, names) /\ Under(q \union p, X \union Y)
<1>1. Catalogue(q, kinds, verb, {})
  BY PlainIsCatalogue
<1>2. Catalogue(p \union q, kinds, verb, names \union {}) /\ Under(p \union q, X \union Y)
  BY <1>1, CatalogueHeads
<1>3. names \union {} = names /\ p \union q = q \union p
  OBVIOUS
<1> QED BY <1>2, <1>3, Zenon

(* Handlers at places that differ are not around each other.               *)
Differ(p, q) == \E i \in Nat : i \in 1 .. Len(p) /\ i \in 1 .. Len(q) /\ p[i] # q[i]

LEMMA FlatIsSound == \A part : Flat(part) => Sound(part)
  BY DEF Flat, Sound, Calm, Acts

LEMMA FlatIfDiffer ==
  ASSUME NEW part, IsPart(part), \A e \in part : ~e.stops,
         \A e, f \in part : Acts(e) /\ Clicked(f) => e = f \/ Differ(e.at, f.at)
  PROVE  Flat(part)
  BY DEF Flat, Differ, Inside

LEMMA SoundIfDiffer ==
  ASSUME NEW part, IsPart(part),
         \A e, f \in part : Acts(e) /\ Acts(f) => e = f \/ Differ(e.at, f.at)
  PROVE  Sound(part)
  BY DEF Sound, Calm, Differ, Inside

LEMMA KindsAre ==
  /\ "button" \in Kinds /\ "area" \in Kinds /\ "link" \in Kinds
  /\ "input" \in Kinds /\ "key" \in Kinds /\ "mark" \in Kinds
  BY DEF Kinds

(* What has no handler is not around anything.                             *)
Mute(part) == \A e \in part : ~Acts(e)

LEMMA MuteElement ==
  ASSUME NEW at, IsPlace(at), NEW kind \in Kinds, NEW act, NEW look,
         kind \in {"input", "key", "mark"} \/ act = NoAct
  PROVE  Mute({Element(at, kind, act, look)})
  BY ElementsAre DEF Mute, Acts, Clicked

LEMMA PlainBeside ==
  ASSUME NEW p, NEW q, Mute(q), Sound(p), Sound(q)
  PROVE  Sound(p \union q) /\ (Plain(p) /\ Plain(q) => Plain(p \union q))
<1>1. Apart(p, q)
  BY DEF Apart, Mute
<1>2. Sound(p \union q)
  BY <1>1, SoundPair
<1> QED BY <1>2, OfferedPair DEF Plain

LEMMA CatalogueBeside ==
  ASSUME NEW p, NEW q, Mute(q), Plain(q), NEW kinds, NEW verb \in Shows, NEW names,
         Catalogue(p, kinds, verb, names)
  PROVE  Catalogue(p \union q, kinds, verb, names) /\ Catalogue(q \union p, kinds, verb, names)
<1>1. Sound(p \union q)
  BY PlainBeside DEF Catalogue, Plain
<1>2. ASSUME NEW n
      PROVE  IF n \in names THEN Once(p \union q, kinds, <<verb, n>>)
             ELSE Never(p \union q, kinds, <<verb, n>>)
  BY OfferedPair DEF Catalogue, Plain
<1>3. Catalogue(p \union q, kinds, verb, names)
  BY <1>1, <1>2 DEF Catalogue
<1>4. p \union q = q \union p
  OBVIOUS
<1> QED BY <1>3, <1>4, Zenon

(* Parts at places that differ.                                            *)
LEMMA ApartAt ==
  ASSUME NEW p, IsPlace(p), NEW q, IsPlace(q), Differ(p, q), NEW a, IsPart(a), NEW b, IsPart(b)
  PROVE  Apart(Below(p, a), Below(q, b))
<1>1. PICK i \in Nat : i \in 1 .. Len(p) /\ i \in 1 .. Len(q) /\ p[i] # q[i]
  BY DEF Differ
<1>2. \A e \in a : IsPlace(e.at) /\ (p \o e.at)[i] = p[i] /\ i \in 1 .. Len(p \o e.at)
  BY <1>1, Joined, LengthOfPlace DEF IsPart, IsElement
<1>3. \A e \in b : IsPlace(e.at) /\ (q \o e.at)[i] = q[i] /\ i \in 1 .. Len(q \o e.at)
  BY <1>1, Joined, LengthOfPlace DEF IsPart, IsElement
<1>4. /\ \A f \in Below(p, a) : f.at[i] = p[i] /\ i \in 1 .. Len(f.at)
      /\ \A f \in Below(q, b) : f.at[i] = q[i] /\ i \in 1 .. Len(f.at)
  <2>1. \A f \in Below(p, a) : \E e \in a : f.at = p \o e.at
    <3>1. Below(p, a) = {Moves(e, p) : e \in a} /\ \A e \in a : Moves(e, p).at = p \o e.at
      BY BelowMoves
    <3> QED BY <3>1
  <2>2. \A f \in Below(q, b) : \E e \in b : f.at = q \o e.at
    <3>1. Below(q, b) = {Moves(e, q) : e \in b} /\ \A e \in b : Moves(e, q).at = q \o e.at
      BY BelowMoves
    <3> QED BY <3>1
  <2> QED BY <1>2, <1>3, <2>1, <2>2
<1> QED BY <1>1, <1>4 DEF Apart, Inside

(* A family of parts that do not reach into each other, with items of      *)
(* their own.                                                              *)
Family(parts, S, G) == (\A s \in S : G[s] \in parts) /\ \A p \in parts : \E s \in S : p = G[s]
Gather(names, S, N) == \A n : n \in names <=> \E s \in S : n \in N[s]

LEMMA Gathered ==
  ASSUME NEW S, NEW G, NEW parts, Family(parts, S, G),
         NEW N, NEW names, Gather(names, S, N), NEW kinds, NEW verb,
         \A s \in S : Catalogue(G[s], kinds, verb, N[s]),
         \A s, t \in S : s # t => Apart(G[s], G[t]) /\ N[s] \intersect N[t] = {}
  PROVE  Catalogue(UNION parts, kinds, verb, names)
<1>1. \A p \in parts : Sound(p)
  BY DEF Catalogue, Family
<1>2. \A p, q \in parts : p # q => Apart(p, q)
  BY DEF Family
<1>3. Sound(UNION parts)
  BY <1>1, <1>2, SoundUnion
<1>4. ASSUME NEW n \in names
      PROVE  Once(UNION parts, kinds, <<verb, n>>)
  <2>1. PICK s \in S : n \in N[s]
    BY DEF Gather
  <2>2. Once(G[s], kinds, <<verb, n>>) /\ G[s] \in parts
    BY <2>1 DEF Catalogue, Family
  <2>3. \A t \in S : t = s \/ Never(G[t], kinds, <<verb, n>>)
    BY <2>1 DEF Catalogue
  <2>4. \A q \in parts : q = G[s] \/ Never(q, kinds, <<verb, n>>)
    BY <2>3 DEF Family
  <2> QED BY <2>2, <2>4, OfferedUnion
<1>5. ASSUME NEW n, n \notin names
      PROVE  Never(UNION parts, kinds, <<verb, n>>)
  <2>1. \A q \in parts : Never(q, kinds, <<verb, n>>)
    BY <1>5 DEF Catalogue, Family, Gather
  <2> QED BY <2>1, OfferedUnion
<1> QED BY <1>3, <1>4, <1>5 DEF Catalogue

LEMMA UnderUnion ==
  ASSUME NEW parts, NEW X, \A p \in parts : Under(p, X)
  PROVE  Under(UNION parts, X)
  BY DEF Under

(* What keeps the clicks on it from what is around.                        *)
Shielded(part) ==
  \A e \in part : Acts(e) =>
    \E h \in part : Clicked(h) /\ h.stops /\ Inside(h.at, e.at) /\ Len(h.at) > 0

LEMMA AreaOver ==
  ASSUME NEW rest, Sound(rest), Shielded(rest), NEW act, NEW look
  PROVE  Sound({Element(<<>>, "area", act, look)} \union rest)
<1> DEFINE top == Element(<<>>, "area", act, look)
           all == {top} \union rest
<1>1. IsElement(top) /\ top.at = <<>> /\ Len(<<>>) = 0
  BY Place0, ElementsAre, KindsAre
<1> HIDE DEF top
<1>2. IsPart(all)
  BY <1>1 DEF Sound, IsPart
<1>3. \A e \in rest : Len(e.at) \in Nat /\ (Acts(e) => Len(e.at) > 0)
  BY LengthOfPlace DEF Shielded, Inside, Sound, IsPart, IsElement
<1>4. ASSUME NEW f \in all, NEW g \in all, Acts(f), Acts(g), Inside(f.at, g.at)
      PROVE  \/ f = g
             \/ \E h \in all : Clicked(h) /\ h.stops /\ Inside(h.at, g.at) /\ Len(f.at) < Len(h.at)
  <2>1. CASE f = top
    BY <1>1, <1>4, <2>1 DEF Shielded
  <2>2. CASE f # top /\ g = top
    BY <1>1, <1>3, <1>4, <2>2 DEF Inside
  <2>3. CASE f # top /\ g # top
    BY <1>4, <2>3 DEF Sound, Calm
  <2> QED BY <2>1, <2>2, <2>3
<1> HIDE DEF all
<1>5. Calm(all)
  BY <1>4, Zenon DEF Calm
<1>6. Sound(all)
  BY <1>2, <1>5 DEF Sound
<1> QED BY <1>6 DEF all, top

(* A tile or a row: what shows the item, and what is on it.                *)
LEMMA TileShows ==
  ASSUME NEW rest, Sound(rest), Shielded(rest), NEW look, NEW verb, NEW n, NEW kinds, "area" \in kinds,
         \A m : Never(rest, kinds, <<verb, m>>)
  PROVE  Catalogue({Element(<<>>, "area", <<verb, n>>, look)} \union rest, kinds, verb, {n})
<1> DEFINE top == Element(<<>>, "area", <<verb, n>>, look)
<1>1. top.kind = "area" /\ top.does = <<verb, n>>
  BY Place0, ElementsAre, KindsAre
<1>2. Sound({top} \union rest)
  BY AreaOver
<1> HIDE DEF top
<1>3. ASSUME NEW m
      PROVE  IF m \in {n} THEN Once({top} \union rest, kinds, <<verb, m>>)
             ELSE Never({top} \union rest, kinds, <<verb, m>>)
  <2>1. CASE m = n
    <3>1. Offering({top} \union rest, kinds, <<verb, m>>) = {top}
      BY <1>1, <2>1 DEF Never, Offering
    <3> QED BY <2>1, <3>1 DEF Once
  <2>2. CASE m # n
    <3>1. <<verb, m>> # <<verb, n>>
      BY <2>2
    <3> QED BY <1>1, <2>2, <3>1 DEF Never, Offering
  <2> QED BY <2>1, <2>2
<1> QED BY <1>2, <1>3 DEF Catalogue, top

-----------------------------------------------------------------------------
(* Places that are written out.                                            *)
LEMMA SamePlace ==
  ASSUME NEW p, IsPlace(p), NEW q, IsPlace(q), Len(p) = Len(q), \A i \in 1 .. Len(p) : p[i] = q[i]
  PROVE  p = q
<1>1. \A s : IsPlace(s) => s = [i \in 1 .. Len(s) |-> s[i]]
  BY DEF IsPlace
<1> QED BY <1>1

LEMMA JoinedPlaces ==
  (\A x : <<x>> \o <<>> = <<x>>) /\ \A x, y : <<x>> \o <<y>> = <<x, y>>
<1>1. ASSUME NEW x, NEW y
      PROVE  <<x>> \o <<>> = <<x>> /\ <<x>> \o <<y>> = <<x, y>>
  <2>1. /\ IsPlace(<<x>>) /\ Len(<<x>>) = 1 /\ <<x>>[1] = x
        /\ IsPlace(<<y>>) /\ Len(<<y>>) = 1 /\ <<y>>[1] = y
    BY Place1, Zenon
  <2>2. IsPlace(<<>>) /\ Len(<<>>) = 0
    BY Place0
  <2>3. IsPlace(<<x, y>>) /\ Len(<<x, y>>) = 2 /\ <<x, y>>[1] = x /\ <<x, y>>[2] = y
    BY Place2, Zenon
  <2> DEFINE p == <<x>>
             q == <<y>>
             r == <<x, y>>
             o == <<>>
             po == p \o o
             pq == p \o q
  <2>4. /\ IsPlace(po) /\ Len(po) = 1 /\ \A i \in 1 .. 1 : po[i] = p[i]
    BY <2>1, <2>2, Joined
  <2>5. /\ IsPlace(pq) /\ Len(pq) = 2 /\ (\A i \in 1 .. 1 : pq[i] = p[i])
        /\ \A i \in 1 .. 1 : pq[1 + i] = q[i]
    BY <2>1, Joined
  <2>6. p[1] = x /\ q[1] = y /\ r[1] = x /\ r[2] = y /\ Len(p) = 1 /\ Len(r) = 2
        /\ IsPlace(p) /\ IsPlace(r)
    BY <2>1, <2>3
  <2> HIDE DEF p, q, r, o, po, pq
  <2>7. po = p
    BY <2>4, <2>6, SamePlace
  <2>8. pq[1] = x /\ pq[2] = y
    BY <2>5, <2>6
  <2>9. pq = r
    <3>1. \A i \in 1 .. Len(pq) : pq[i] = r[i]
      BY <2>5, <2>6, <2>8
    <3> QED BY <2>5, <2>6, <3>1, SamePlace
  <2> QED BY <2>7, <2>9 DEF p, q, r, o, po, pq
<1> QED BY <1>1

LEMMA BelowOne ==
  ASSUME NEW p, IsPlace(p), NEW e, IsElement(e)
  PROVE  Below(p, {e}) = {Moves(e, p)}
<1>1. IsPart({e})
  BY DEF IsPart
<1>2. Below(p, {e}) = {Moves(f, p) : f \in {e}}
  BY <1>1, BelowMoves, Zenon
<1> QED BY <1>2

LEMMA BelowElement ==
  \A p, at, kind, act, look :
    IsPlace(p) /\ IsPlace(at) /\ kind \in Kinds
      => Below(p, {Element(at, kind, act, look)}) = {Element(p \o at, kind, act, look)}
<1>1. ASSUME NEW p, NEW at, NEW kind, NEW act, NEW look, IsPlace(p), IsPlace(at), kind \in Kinds
      PROVE  Below(p, {Element(at, kind, act, look)}) = {Element(p \o at, kind, act, look)}
  <2>1. Moves(Element(at, kind, act, look), p) = Element(p \o at, kind, act, look)
    BY DEF Moves, Element
  <2>2. IsElement(Element(at, kind, act, look))
    BY <1>1, ElementsAre
  <2> DEFINE e == Element(at, kind, act, look)
             f == Element(p \o at, kind, act, look)
  <2>3. IsElement(e) /\ Moves(e, p) = f
    BY <2>1, <2>2
  <2> HIDE DEF e, f
  <2>4. Below(p, {e}) = {f}
    BY <1>1, <2>3, BelowOne, Zenon
  <2> QED BY <2>4 DEF e, f
<1> QED BY <1>1

LEMMA BelowStopping ==
  \A p, at, kind, act, look :
    IsPlace(p) /\ IsPlace(at) /\ kind \in Kinds
      => Below(p, {Stopping(Element(at, kind, act, look))})
           = {Stopping(Element(p \o at, kind, act, look))}
<1>1. ASSUME NEW p, NEW at, NEW kind, NEW act, NEW look, IsPlace(p), IsPlace(at), kind \in Kinds
      PROVE  Below(p, {Stopping(Element(at, kind, act, look))})
               = {Stopping(Element(p \o at, kind, act, look))}
  <2> DEFINE stopped(q) == [at |-> q, kind |-> kind, does |-> act, look |-> look, stops |-> TRUE]
  <2>1. ASSUME NEW q, IsPlace(q) PROVE Stopping(Element(q, kind, act, look)) = stopped(q)
    <3> DEFINE e == Element(q, kind, act, look)
    <3>1. IsElement(e) /\ e.at = q /\ e.kind = kind /\ e.does = act /\ e.look = look
      BY <1>1, <2>1, ElementsAre
    <3> HIDE DEF e
    <3>2. Stopping(e) = [at |-> e.at, kind |-> e.kind, does |-> e.does, look |-> e.look, stops |-> TRUE]
      BY <3>1, StoppingOf
    <3>3. Stopping(e) = stopped(q)
      BY <3>1, <3>2, Zenon
    <3> QED BY <3>3 DEF e
  <2>2. /\ Stopping(Element(at, kind, act, look)) = stopped(at)
        /\ Stopping(Element(p \o at, kind, act, look)) = stopped(p \o at)
    BY <1>1, <2>1, Joined
  <2>3. IsElement(Stopping(Element(at, kind, act, look)))
    BY <1>1, ElementsAre
  <2>4. Moves(stopped(at), p) = stopped(p \o at)
    BY DEF Moves
  <2> DEFINE e == Stopping(Element(at, kind, act, look))
             f == Stopping(Element(p \o at, kind, act, look))
  <2>5. IsElement(e) /\ Moves(e, p) = f
    BY <2>2, <2>3, <2>4, Zenon
  <2> HIDE DEF e, f
  <2>6. Below(p, {e}) = {f}
    BY <1>1, <2>5, BelowOne, Zenon
  <2> QED BY <2>6 DEF e, f
<1> QED BY <1>1

LEMMA BelowParts ==
  /\ \A p, a, b : Below(p, a \union b) = Below(p, a) \union Below(p, b)
  /\ \A p : Below(p, {}) = {}
  /\ \A p, a, c : Below(p, When(c, a)) = When(c, Below(p, a))
  BY DEF Below, When

LEMMA DifferAt ==
  ASSUME NEW x, NEW y, x # y, NEW c
  PROVE  Differ(<<x>>, <<y>>) /\ Differ(<<c, x>>, <<c, y>>)
<1>1. /\ Len(<<x>>) = 1 /\ <<x>>[1] = x /\ Len(<<y>>) = 1 /\ <<y>>[1] = y
      /\ Len(<<c, x>>) = 2 /\ <<c, x>>[2] = x /\ Len(<<c, y>>) = 2 /\ <<c, y>>[2] = y
  BY Place1, Place2, Zenon
<1>2. 1 \in Nat /\ 2 \in Nat /\ 1 \in 1 .. 1 /\ 2 \in 1 .. 2
  OBVIOUS
<1>3. Differ(<<x>>, <<y>>)
  BY <1>1, <1>2, Zenon DEF Differ
<1>4. Differ(<<c, x>>, <<c, y>>)
  BY <1>1, <1>2, Zenon DEF Differ
<1> QED BY <1>3, <1>4

(* Rows at the names of their items.                                       *)
Listing(parts, S, P, G, names, kinds, verb) ==
  /\ Family(parts, S, G)
  /\ \A s, t \in S : s.name = t.name => s = t
  /\ \A s \in S : IsPlace(P[s])
  /\ \A s, t \in S : s.name # t.name => Differ(P[s], P[t])
  /\ \A s \in S : \E row : G[s] = Below(P[s], row) /\ Catalogue(row, kinds, verb, {s.name})
  /\ \A n : n \in names <=> \E s \in S : n = s.name

LEMMA RowsByName ==
  ASSUME NEW S, NEW P, NEW G, NEW parts, NEW kinds, NEW verb, NEW names,
         Listing(parts, S, P, G, names, kinds, verb)
  PROVE  Catalogue(UNION parts, kinds, verb, names)
<1> DEFINE N == [s \in S |-> {s.name}]
<1>1. Gather(names, S, N) /\ \A s \in S : N[s] = {s.name}
  BY DEF Gather, Listing
<1> HIDE DEF N
<1>2. ASSUME NEW s \in S
      PROVE  /\ Catalogue(G[s], kinds, verb, N[s]) /\ IsPlace(P[s])
             /\ \E row : G[s] = Below(P[s], row) /\ IsPart(row)
  <2>1. PICK row : G[s] = Below(P[s], row) /\ Catalogue(row, kinds, verb, {s.name})
    BY DEF Listing
  <2>2. IsPart(row) /\ IsPlace(P[s])
    BY <2>1 DEF Catalogue, Sound, Listing
  <2>3. Catalogue(G[s], kinds, verb, N[s])
    <3>1. Catalogue(Below(P[s], row), kinds, verb, {s.name})
      BY <2>1, <2>2, CatalogueBelow
    <3> QED BY <1>1, <2>1, <3>1, Zenon
  <2> QED BY <2>1, <2>2, <2>3
<1>3. ASSUME NEW s \in S, NEW t \in S, s # t PROVE Apart(G[s], G[t]) /\ N[s] \intersect N[t] = {}
  <2>1. s.name # t.name
    BY <1>3 DEF Listing
  <2>2. N[s] \intersect N[t] = {}
    BY <1>1, <2>1
  <2>3. Apart(G[s], G[t])
    BY <1>2, <2>1, ApartAt DEF Listing
  <2> QED BY <2>2, <2>3
<1> QED BY <1>1, <1>2, <1>3, Gathered DEF Listing

(* A section for each of some things, with the items that belong to it.    *)
Sectioned(parts, S, c, G, N, names, kinds, verb) ==
  /\ Family(parts, S, G) /\ Gather(names, S, N)
  /\ \A s \in S : \E section :
       G[s] = Below(<<c, s>>, section) /\ Catalogue(section, kinds, verb, N[s])
  /\ \A s, t \in S : s # t => N[s] \intersect N[t] = {}

LEMMA Sections ==
  ASSUME NEW S, NEW c, NEW G, NEW parts, NEW N, NEW names, NEW kinds, NEW verb,
         Sectioned(parts, S, c, G, N, names, kinds, verb)
  PROVE  Catalogue(UNION parts, kinds, verb, names) /\ Under(UNION parts, {c})
<1> DEFINE at(s) == <<c, s>>
<1>1. \A s : IsPlace(at(s)) /\ Len(at(s)) > 0 /\ at(s)[1] = c
  <2>1. \A s : IsPlace(at(s)) /\ Len(at(s)) = 2 /\ at(s)[1] = c
    BY Place2, Zenon
  <2> HIDE DEF at
  <2> QED BY <2>1
<1>2. \A s, t : s # t => Differ(at(s), at(t))
  BY DifferAt, Zenon
<1>3. \A s \in S : \E section : G[s] = Below(at(s), section) /\ Catalogue(section, kinds, verb, N[s])
  BY DEF Sectioned
<1> HIDE DEF at
<1>4. ASSUME NEW s \in S
      PROVE  /\ Catalogue(G[s], kinds, verb, N[s]) /\ Under(G[s], {c})
             /\ \E section : G[s] = Below(at(s), section) /\ IsPart(section)
  <2>1. PICK section : G[s] = Below(at(s), section) /\ Catalogue(section, kinds, verb, N[s])
    BY <1>3
  <2>2. IsPart(section)
    BY <2>1 DEF Catalogue, Sound
  <2>3. Under(G[s], {c})
    BY <1>1, <2>1, <2>2, UnderBelow
  <2> QED BY <1>1, <2>1, <2>2, <2>3, CatalogueBelow
<1>5. \A s, t \in S : s # t => Apart(G[s], G[t])
  BY <1>1, <1>2, <1>4, ApartAt
<1>6. Catalogue(UNION parts, kinds, verb, names)
  BY <1>4, <1>5, Gathered DEF Sectioned
<1>7. \A p \in parts : Under(p, {c})
  BY <1>4 DEF Family, Sectioned
<1> QED BY <1>6, <1>7, UnderUnion

(* Parts that show no item and do not reach into each other.               *)
LEMMA PlainFamily ==
  ASSUME NEW S, NEW G, NEW parts, Family(parts, S, G),
         \A s \in S : Plain(G[s]),
         \A s, t \in S : s # t => Apart(G[s], G[t])
  PROVE  Plain(UNION parts)
<1>1. \A p \in parts : Plain(p)
  BY DEF Family
<1>2. \A p, q \in parts : p # q => Apart(p, q)
  BY DEF Family
<1>3. Sound(UNION parts)
  BY <1>1, <1>2, SoundUnion DEF Plain
<1>4. \A kinds, n : \A v \in Shows : Never(UNION parts, kinds, <<v, n>>)
  BY <1>1, OfferedUnion DEF Plain
<1> QED BY <1>3, <1>4 DEF Plain

(* The addresses of a service.                                             *)
LEMMA AddressesPlain ==
  ASSUME NEW links
  PROVE  /\ Plain({Element(<<"address", l>>, "link", <<"new tab">>, "") : l \in links})
         /\ Under({Element(<<"address", l>>, "link", <<"new tab">>, "") : l \in links}, {"address"})
<1> DEFINE at(l) == <<"address", l>>
           link(l) == Element(at(l), "link", <<"new tab">>, "")
           all == {link(l) : l \in links}
<1>1. \A l : IsPlace(at(l)) /\ Len(at(l)) = 2 /\ at(l)[1] = "address"
  BY Place2, Zenon
<1> HIDE DEF at
<1>2. \A l : IsElement(link(l)) /\ link(l).at = at(l) /\ link(l).does = <<"new tab">>
  <2>1. ASSUME NEW q, IsPlace(q)
        PROVE  LET e == Element(q, "link", <<"new tab">>, "")
               IN IsElement(e) /\ e.at = q /\ e.does = <<"new tab">>
    <3>1. IsElement(Element(q, "link", <<"new tab">>, ""))
      BY <2>1, ElementsAre, KindsAre
    <3> QED BY <3>1 DEF Element
  <2> QED BY <1>1, <2>1
<1> HIDE DEF link
<1>3. Under(all, {"address"})
  <2>1. \A e \in all : Len(e.at) = 2 /\ e.at[1] = "address"
    BY <1>1, <1>2, Zenon
  <2> QED BY <2>1 DEF Under
<1>4. IsPart(all)
  BY <1>2 DEF IsPart
<1>5. \A k, l : k # l => Differ(at(k), at(l))
  BY DifferAt, Zenon DEF at
<1>6. \A e, f \in all : e = f \/ Differ(e.at, f.at)
  BY <1>2, <1>5
<1>7. Sound(all)
  BY <1>4, <1>6, SoundIfDiffer
<1>8. Idle(<<"new tab">>)
  BY IdleActs
<1>9. \A kinds, n : \A v \in Shows : Never(all, kinds, <<v, n>>)
  BY <1>2, <1>8 DEF Never, Offering, Idle
<1>10. Plain(all) /\ Under(all, {"address"})
  BY <1>3, <1>7, <1>9 DEF Plain
<1> QED BY <1>10 DEF link, at

(* A button that keeps its click.                                          *)
LEMMA StoppingButton ==
  \A x, act :
    LET e == Stopping(Element(<<x>>, "button", act, ""))
    IN IsElement(e) /\ e.at = <<x>> /\ e.kind = "button" /\ e.does = act /\ e.stops
<1>1. ASSUME NEW x, NEW act
      PROVE  LET e == Stopping(Element(<<x>>, "button", act, ""))
             IN IsElement(e) /\ e.at = <<x>> /\ e.kind = "button" /\ e.does = act /\ e.stops
  <2> DEFINE p == <<x>>
             kind == "button"
             look == ""
             e == Stopping(Element(p, kind, act, look))
  <2>1. IsPlace(p) /\ kind \in Kinds
    BY Place1, KindsAre
  <2> HIDE DEF p, kind, look
  <2>2. IsElement(e) /\ e.at = p /\ e.kind = kind /\ e.does = act /\ e.stops
    BY <2>1, ElementsAre
  <2> QED BY <2>2 DEF p, kind, look
<1> QED BY <1>1

-----------------------------------------------------------------------------
(* Flat parts, and what is to be seen of them.                             *)
LEMMA FlatOne ==
  ASSUME NEW at, IsPlace(at), NEW kind \in Kinds, NEW act, NEW look
  PROVE  /\ Flat({Element(at, kind, act, look)})
         /\ Len(at) > 0 => Under({Element(at, kind, act, look)}, {at[1]})
<1> DEFINE e == Element(at, kind, act, look)
<1>1. IsElement(e) /\ ~e.stops /\ e.at = at
  BY ElementsAre
<1> HIDE DEF e
<1>2. Flat({e}) /\ (Len(at) > 0 => Under({e}, {at[1]}))
  BY <1>1 DEF Flat, IsPart, Under
<1> QED BY <1>2 DEF e

LEMMA FlatAt1 ==
  ASSUME NEW x, NEW kind \in Kinds, NEW act, NEW look
  PROVE  /\ Flat({Element(<<x>>, kind, act, look)})
         /\ Under({Element(<<x>>, kind, act, look)}, {x})
<1>1. IsPlace(<<x>>) /\ Len(<<x>>) > 0 /\ <<x>>[1] = x
  BY Place1, Zenon
<1> QED BY <1>1, FlatOne

LEMMA FlatHeads ==
  ASSUME NEW p, NEW q, NEW X, NEW Y, Flat(p), Flat(q), Under(p, X), Under(q, Y), X \intersect Y = {}
  PROVE  Flat(p \union q) /\ Under(p \union q, X \union Y)
<1>1. \A e \in p, f \in q : ~Inside(e.at, f.at) /\ ~Inside(f.at, e.at)
  BY LengthOfPlace DEF Under, Inside, Flat, IsPart, IsElement
<1>2. Under(p \union q, X \union Y)
  BY DEF Under
<1>3. IsPart(p \union q)
  BY DEF Flat, IsPart
<1> QED BY <1>1, <1>2, <1>3 DEF Flat

LEMMA FlatWhen ==
  ASSUME NEW part, NEW c, Flat(part)
  PROVE  Flat(When(c, part)) /\ \A X : Under(part, X) => Under(When(c, part), X)
  BY DEF Flat, When, IsPart, Under

LEMMA FlatBelow ==
  ASSUME NEW part, Flat(part), NEW x
  PROVE  Flat(Below(<<x>>, part)) /\ Under(Below(<<x>>, part), {x})
<1> DEFINE p == <<x>>
<1>1. IsPlace(p) /\ Len(p) > 0 /\ p[1] = x
  BY Place1, Zenon
<1> HIDE DEF p
<1>2. IsPart(part)
  BY DEF Flat
<1>3. Under(Below(p, part), {x})
  BY <1>1, <1>2, UnderBelow
<1>4. /\ Below(p, part) = {Moves(e, p) : e \in part} /\ IsPart(Below(p, part))
      /\ \A e \in part : /\ Moves(e, p).at = p \o e.at /\ Moves(e, p).does = e.does
                         /\ Moves(e, p).stops = e.stops /\ (Clicked(Moves(e, p)) <=> Clicked(e))
  BY <1>1, <1>2, BelowMoves
<1>5. ASSUME NEW e \in part, NEW f \in part, Acts(Moves(e, p)), Clicked(Moves(f, p)),
             Inside(Moves(e, p).at, Moves(f, p).at)
      PROVE  e = f
  <2>1. IsPlace(e.at) /\ IsPlace(f.at)
    BY <1>2 DEF IsPart, IsElement
  <2>2. Inside(e.at, f.at)
    BY <1>1, <1>4, <1>5, <2>1, InsideJoined
  <2>3. Acts(e) /\ Clicked(f)
    BY <1>4, <1>5 DEF Acts
  <2> QED BY <2>2, <2>3 DEF Flat
<1>6. \A e \in Below(p, part) : ~e.stops
  BY <1>4 DEF Flat
<1>7. \A e, f \in Below(p, part) : Acts(e) /\ Clicked(f) /\ Inside(e.at, f.at) => e = f
  BY <1>4, <1>5
<1>8. Flat(Below(p, part)) /\ Under(Below(p, part), {x})
  BY <1>3, <1>4, <1>6, <1>7 DEF Flat
<1> QED BY <1>8 DEF p

Looks(part) == {<<e.kind, e.look, Own(e)>> : e \in part}

LEMMA DeedsAreLooks == \A part : Flat(part) => Deeds(part) = Looks(part)
  BY FlatDeeds DEF Looks

LEMMA LooksOf ==
  /\ \A p, q : Looks(p \union q) = Looks(p) \union Looks(q)
  /\ Looks({}) = {}
  /\ \A x, part : IsPart(part) => Looks(Below(<<x>>, part)) = Looks(part)
<1>1. (\A p, q : Looks(p \union q) = Looks(p) \union Looks(q)) /\ Looks({}) = {}
  BY DEF Looks
<1>2. ASSUME NEW x, NEW part, IsPart(part) PROVE Looks(Below(<<x>>, part)) = Looks(part)
  <2> DEFINE p == <<x>>
  <2>1. IsPlace(p)
    BY Place1
  <2> HIDE DEF p
  <2>2. /\ Below(p, part) = {Moves(e, p) : e \in part}
        /\ \A e \in part : /\ Moves(e, p).kind = e.kind /\ Moves(e, p).does = e.does
                           /\ Moves(e, p).look = e.look
                           /\ (Clicked(Moves(e, p)) <=> Clicked(e))
    BY <1>2, <2>1, BelowMoves
  <2>3. \A e \in part : Own(Moves(e, p)) = Own(e)
    BY <2>2, Zenon DEF Own
  <2>4. \A e \in part : <<Moves(e, p).kind, Moves(e, p).look, Own(Moves(e, p))>> = <<e.kind, e.look, Own(e)>>
    BY <2>2, <2>3, Zenon
  <2>5. Looks(Below(p, part)) = Looks(part)
    BY <2>2, <2>4 DEF Looks
  <2> QED BY <2>5 DEF p
<1> QED BY <1>1, <1>2

LEMMA QuietIsPlain ==
  ASSUME NEW part, Sound(part), \A e \in part : Idle(e.does)
  PROVE  Plain(part)
  BY DEF Plain, Never, Offering, Idle

LEMMA FlatIsPart == \A part : (Flat(part) \/ Plain(part) \/ Sound(part)) => IsPart(part)
  BY DEF Flat, Plain, Sound

LEMMA Singles ==
  /\ \A a, b : {a, b} = {a} \union {b}
  /\ \A a, b, c : {a, b, c} = {a} \union {b} \union {c}
  /\ \A a, b, c, d : {a, b, c, d} = {a} \union {b} \union {c} \union {d}
  /\ \A a, b, c, d, e : {a, b, c, d, e} = {a} \union {b} \union {c} \union {d} \union {e}
  /\ \A a, b, c : {} \union a = a /\ a \union b = b \union a
                  /\ a \union (b \union c) = a \union b \union c
  OBVIOUS

LEMMA IdleElement ==
  ASSUME NEW at, NEW kind, NEW act, NEW look, Idle(act)
  PROVE  \A e \in {Element(at, kind, act, look)} : Idle(e.does)
  BY DEF Element

LEMMA IdleBelow ==
  ASSUME NEW part, IsPart(part), \A e \in part : Idle(e.does), NEW x
  PROVE  \A e \in Below(<<x>>, part) : Idle(e.does)
<1> DEFINE p == <<x>>
<1>1. IsPlace(p)
  BY Place1
<1> HIDE DEF p
<1>2. /\ Below(p, part) = {Moves(e, p) : e \in part}
      /\ \A e \in part : Moves(e, p).does = e.does
  BY <1>1, BelowMoves
<1>3. \A e \in Below(p, part) : Idle(e.does)
  BY <1>2, Zenon
<1> QED BY <1>3 DEF p

(* An element that is written out with its place.                          *)
LEMMA BelowAt1 ==
  \A x, y : \A kind \in Kinds : \A act, look :
    Below(<<x>>, {Element(<<y>>, kind, act, look)}) = {Element(<<x, y>>, kind, act, look)}
<1>1. ASSUME NEW x, NEW y, NEW kind \in Kinds, NEW act, NEW look
      PROVE  Below(<<x>>, {Element(<<y>>, kind, act, look)}) = {Element(<<x, y>>, kind, act, look)}
  <2>1. IsPlace(<<x>>) /\ IsPlace(<<y>>)
    BY Place1
  <2>2. <<x>> \o <<y>> = <<x, y>>
    BY JoinedPlaces
  <2>3. Below(<<x>>, {Element(<<y>>, kind, act, look)}) = {Element(<<x>> \o <<y>>, kind, act, look)}
    BY <2>1, BelowElement
  <2> QED BY <2>2, <2>3
<1> QED BY <1>1

-----------------------------------------------------------------------------
(* A dialog: what is in it, beside the button that closes it, over a       *)
(* backdrop that does so too.                                              *)
Dialog(close, fields) ==
  {Element(<<"backdrop">>, "area", close, "")}
  \union Below(<<"dialog">>, {Element(<<"close">>, "button", close, "")} \union fields)

LEMMA DialogIs ==
  \A close, fields :
    Dialog(close, fields)
      = {Element(<<"backdrop">>, "area", close, ""), Element(<<"dialog", "close">>, "button", close, "")}
        \union Below(<<"dialog">>, fields)
<1>1. \A x : \A kind \in Kinds : \A act, look :
        Below(<<"dialog">>, {Element(<<x>>, kind, act, look)}) = {Element(<<"dialog", x>>, kind, act, look)}
  BY BelowAt1
<1>2. ASSUME NEW close, NEW fields
      PROVE  Dialog(close, fields)
      = {Element(<<"backdrop">>, "area", close, ""), Element(<<"dialog", "close">>, "button", close, "")}
        \union Below(<<"dialog">>, fields)
  <2> DEFINE d == <<"dialog">>
             c == {Element(<<"close">>, "button", close, "")}
  <2>1. Below(d, c) = {Element(<<"dialog", "close">>, "button", close, "")}
    BY <1>1, KindsAre
  <2> HIDE DEF d, c
  <2>2. Below(d, c \union fields) = Below(d, c) \union Below(d, fields)
    BY BelowParts
  <2>3. Dialog(close, fields) = {Element(<<"backdrop">>, "area", close, "")} \union Below(d, c \union fields)
    BY DEF Dialog, d, c
  <2>4. \A a, b, r : {a} \union ({b} \union r) = {a, b} \union r
    OBVIOUS
  <2> QED BY <2>1, <2>2, <2>3, <2>4, Zenon DEF d
<1> QED BY <1>2

(* The elements of a part at the top of it.                                *)
Tops(part, X) == \A e \in part : \E x \in X : e.at = <<x>>

LEMMA TopsBelow ==
  ASSUME NEW part, IsPart(part), NEW X, Tops(part, X)
  PROVE  \A e \in Below(<<"dialog">>, part) : \E x \in X : e.at = <<"dialog", x>>
<1> DEFINE d == <<"dialog">>
<1>1. IsPlace(d) /\ \A x : d \o <<x>> = <<"dialog", x>>
  BY Place1, JoinedPlaces
<1> HIDE DEF d
<1>2. Below(d, part) = {Moves(e, d) : e \in part} /\ \A e \in part : Moves(e, d).at = d \o e.at
  BY <1>1, BelowMoves
<1>3. ASSUME NEW e \in part PROVE \E x \in X : Moves(e, d).at = <<"dialog", x>>
  <2>1. PICK x \in X : e.at = <<x>>
    BY DEF Tops
  <2> QED BY <1>1, <1>2, <2>1
<1>4. \A e \in Below(d, part) : \E x \in X : e.at = <<"dialog", x>>
  BY <1>2, <1>3
<1> QED BY <1>4 DEF d

LEMMA TopsOf ==
  /\ \A x, X : x \in X => \A kind, act, look : Tops({Element(<<x>>, kind, act, look)}, X)
  /\ \A X : \A p, q : Tops(p, X) /\ Tops(q, X) => Tops(p \union q, X)
  /\ \A X : \A p, c : Tops(p, X) => Tops(When(c, p), X)
<1>1. ASSUME NEW x, NEW X, x \in X, NEW kind, NEW act, NEW look PROVE Tops({Element(<<x>>, kind, act, look)}, X)
  <2>1. Element(<<x>>, kind, act, look).at = <<x>>
    BY DEF Element
  <2> QED BY <1>1, <2>1, Zenon DEF Tops
<1>2. \A X : \A p, q : Tops(p, X) /\ Tops(q, X) => Tops(p \union q, X)
  BY DEF Tops
<1>3. \A X : \A p, c : Tops(p, X) => Tops(When(c, p), X)
  BY DEF Tops, When
<1> QED BY <1>1, <1>2, <1>3

LEMMA DialogFlat ==
  ASSUME NEW close, NEW fields, Flat(fields), NEW X, Under(fields, X), "close" \notin X
  PROVE  /\ Flat(Dialog(close, fields))
         /\ Looks(Dialog(close, fields)) = Looks({Element(<<"backdrop">>, "area", close, "")})
              \union (Looks({Element(<<"close">>, "button", close, "")}) \union Looks(fields))
         /\ Idle(close) /\ (\A e \in fields : Idle(e.does)) => Plain(Dialog(close, fields))
<1> DEFINE back == {Element(<<"backdrop">>, "area", close, "")}
           button == {Element(<<"close">>, "button", close, "")}
           inner == button \union fields
<1>1. Flat(back) /\ Under(back, {"backdrop"}) /\ Flat(button) /\ Under(button, {"close"})
  BY FlatAt1, KindsAre
<1>2. Idle(close) => (\A e \in back : Idle(e.does)) /\ (\A e \in button : Idle(e.does))
  BY IdleElement
<1>3. Dialog(close, fields) = back \union Below(<<"dialog">>, inner)
  BY DEF Dialog
<1> HIDE DEF back, button
<1>4. {"close"} \intersect X = {} /\ {"backdrop"} \intersect {"dialog"} = {}
  OBVIOUS
<1>5. Flat(inner)
  BY <1>1, <1>4, FlatHeads, Zenon
<1>6. Idle(close) /\ (\A e \in fields : Idle(e.does)) => \A e \in inner : Idle(e.does)
  BY <1>2
<1>7. Looks(inner) = Looks(button) \union Looks(fields)
  BY LooksOf
<1> HIDE DEF inner
<1>8. Flat(Below(<<"dialog">>, inner)) /\ Under(Below(<<"dialog">>, inner), {"dialog"})
  BY <1>5, FlatBelow
<1>9. Flat(Dialog(close, fields))
  BY <1>1, <1>3, <1>4, <1>8, FlatHeads, Zenon
<1>10. IsPart(inner)
  BY <1>5 DEF Flat
<1>11. Looks(Dialog(close, fields)) = Looks(back) \union Looks(inner)
  <2>1. Looks(Below(<<"dialog">>, inner)) = Looks(inner)
    BY <1>10, LooksOf
  <2>2. Looks(back \union Below(<<"dialog">>, inner)) = Looks(back) \union Looks(Below(<<"dialog">>, inner))
    BY LooksOf
  <2> QED BY <1>3, <2>1, <2>2
<1>12. ASSUME Idle(close), \A e \in fields : Idle(e.does) PROVE Plain(Dialog(close, fields))
  <2>1. \A e \in Below(<<"dialog">>, inner) : Idle(e.does)
    BY <1>6, <1>10, <1>12, IdleBelow
  <2>2. \A e \in Dialog(close, fields) : Idle(e.does)
    BY <1>2, <1>3, <1>12, <2>1
  <2> QED BY <1>9, <2>2, FlatIsSound, QuietIsPlain
<1> QED BY <1>7, <1>9, <1>11, <1>12 DEF back, button

LEMMA DialogsAgree ==
  ASSUME NEW close, NEW f, Flat(f), NEW X, Under(f, X), "close" \notin X,
         NEW g, Flat(g), NEW Y, Under(g, Y), "close" \notin Y, Looks(f) = Looks(g)
  PROVE  Deeds(Dialog(close, f)) = Deeds(Dialog(close, g))
<1>1. Flat(Dialog(close, f)) /\ Flat(Dialog(close, g))
  BY DialogFlat
<1>2. Looks(Dialog(close, f)) = Looks({Element(<<"backdrop">>, "area", close, "")})
              \union (Looks({Element(<<"close">>, "button", close, "")}) \union Looks(f))
  BY DialogFlat, Zenon
<1>3. Looks(Dialog(close, g)) = Looks({Element(<<"backdrop">>, "area", close, "")})
              \union (Looks({Element(<<"close">>, "button", close, "")}) \union Looks(g))
  BY DialogFlat, Zenon
<1> QED BY <1>1, <1>2, <1>3, DeedsAreLooks, Zenon

LEMMA PlacesOf ==
  /\ \A at, kind, act, look : Element(at, kind, act, look).at = at
  /\ \A at : \A kind \in Kinds : \A act, look :
       IsPlace(at) => Stopping(Element(at, kind, act, look)).at = at
<1>1. \A at, kind, act, look : Element(at, kind, act, look).at = at
  BY DEF Element
<1>2. ASSUME NEW at, NEW kind \in Kinds, NEW act, NEW look, IsPlace(at)
      PROVE  Stopping(Element(at, kind, act, look)).at = at
  BY <1>2, ElementsAre
<1> QED BY <1>1, <1>2

LEMMA Without ==
  ASSUME NEW p, NEW a, NEW b, \A e \in a : e.at # p, \A e \in b : e.at = p
  PROVE  {e \in a \union b : e.at # p} = a
  OBVIOUS

LEMMA BelowAt2 ==
  \A x, y, z : \A kind \in Kinds : \A act, look :
    Below(<<x>>, {Element(<<y, z>>, kind, act, look)}) = {Element(<<x, y, z>>, kind, act, look)}
<1>1. ASSUME NEW x, NEW y, NEW z, NEW kind \in Kinds, NEW act, NEW look
      PROVE  Below(<<x>>, {Element(<<y, z>>, kind, act, look)}) = {Element(<<x, y, z>>, kind, act, look)}
  <2> DEFINE p == <<x>>
             q == <<y, z>>
             r == <<x, y, z>>
             pq == p \o q
  <2>1. /\ IsPlace(p) /\ Len(p) = 1 /\ p[1] = x
        /\ IsPlace(q) /\ Len(q) = 2 /\ q[1] = y /\ q[2] = z
        /\ IsPlace(r) /\ Len(r) = 3 /\ r[1] = x /\ r[2] = y /\ r[3] = z
    BY Place1, Place2, Place3, Zenon
  <2> HIDE DEF p, q, r
  <2>2. /\ IsPlace(pq) /\ Len(pq) = 3 /\ (\A i \in 1 .. 1 : pq[i] = p[i])
        /\ \A i \in 1 .. 2 : pq[1 + i] = q[i]
    <3>1. IsPlace(p) /\ IsPlace(q)
      BY <2>1
    <3>2. /\ IsPlace(pq) /\ Len(pq) = Len(p) + Len(q)
          /\ (\A i \in 1 .. Len(p) : pq[i] = p[i]) /\ \A i \in 1 .. Len(q) : pq[Len(p) + i] = q[i]
      BY <3>1, Joined
    <3> HIDE DEF pq
    <3> QED BY <2>1, <3>2
  <2> HIDE DEF pq
  <2>3. pq[1] = x /\ pq[2] = y /\ pq[3] = z
    BY <2>1, <2>2
  <2>4. pq = r
    <3>1. \A i \in 1 .. Len(pq) : pq[i] = r[i]
      BY <2>1, <2>2, <2>3
    <3> QED BY <2>1, <2>2, <3>1, SamePlace
  <2>5. Below(p, {Element(q, kind, act, look)}) = {Element(p \o q, kind, act, look)}
    BY <2>1, BelowElement
  <2>6. Below(p, {Element(q, kind, act, look)}) = {Element(r, kind, act, look)}
    BY <2>4, <2>5 DEF pq
  <2> QED BY <2>6 DEF p, q, r
<1> QED BY <1>1

LEMMA BelowAt0 ==
  \A x : \A kind \in Kinds : \A act, look :
    Below(<<x>>, {Element(<<>>, kind, act, look)}) = {Element(<<x>>, kind, act, look)}
<1>1. ASSUME NEW x, NEW kind \in Kinds, NEW act, NEW look
      PROVE  Below(<<x>>, {Element(<<>>, kind, act, look)}) = {Element(<<x>>, kind, act, look)}
  <2> DEFINE p == <<x>>
             o == <<>>
  <2>1. IsPlace(p) /\ IsPlace(o) /\ p \o o = p
    BY Place1, Place0, JoinedPlaces
  <2> HIDE DEF p, o
  <2>2. IsPlace(p) /\ IsPlace(o) /\ kind \in Kinds
    BY <1>1, <2>1
  <2>3. Below(p, {Element(o, kind, act, look)}) = {Element(p \o o, kind, act, look)}
    BY <2>2, BelowElement
  <2>4. Below(p, {Element(o, kind, act, look)}) = {Element(p, kind, act, look)}
    BY <2>1, <2>3, Zenon
  <2> QED BY <2>4 DEF p, o
<1> QED BY <1>1

(* A field may be anywhere.                                                *)
LEMMA SameDeedsBut ==
  \A C, a, b : IsPart(C) /\ IsPlace(a) /\ IsPlace(b) =>
    \A act, look : Deeds(C \union {Element(a, "input", act, look)}) = Deeds(C \union {Element(b, "input", act, look)})
<1>1. ASSUME NEW C, NEW a, NEW b, NEW act, NEW look, IsPart(C), IsPlace(a), IsPlace(b)
      PROVE  Deeds(C \union {Element(a, "input", act, look)}) = Deeds(C \union {Element(b, "input", act, look)})
  <2> DEFINE k == "input"
             e == Element(a, k, act, look)
             f == Element(b, k, act, look)
  <2>1. k \in Kinds /\ k = "input"
    BY KindsAre
  <2> HIDE DEF k
  <2>2. /\ IsElement(e) /\ e.kind = k /\ e.does = act /\ e.look = look
        /\ IsElement(f) /\ f.kind = k /\ f.does = act /\ f.look = look
    BY <1>1, <2>1, ElementsAre
  <2> HIDE DEF e, f
  <2>3. ~Clicked(e) /\ ~Clicked(f)
    BY <2>1, <2>2 DEF Clicked
  <2>4. IsPart(C \union {e}) /\ IsPart(C \union {f})
    BY <1>1, <2>2 DEF IsPart
  <2>5. {g \in C \union {e} : Clicked(g)} = {g \in C \union {f} : Clicked(g)}
    BY <2>3
  <2>6. /\ \A g \in C \union {e} : ~Clicked(g) => \E h \in C \union {f} :
             ~Clicked(h) /\ h.kind = g.kind /\ h.look = g.look /\ h.does = g.does
        /\ \A g \in C \union {f} : ~Clicked(g) => \E h \in C \union {e} :
             ~Clicked(h) /\ h.kind = g.kind /\ h.look = g.look /\ h.does = g.does
    BY <2>2, <2>3
  <2> DEFINE p == C \union {e}
             q == C \union {f}
  <2>7. /\ IsPart(p) /\ IsPart(q) /\ {g \in p : Clicked(g)} = {g \in q : Clicked(g)}
        /\ \A g \in p : ~Clicked(g) => \E h \in q :
             ~Clicked(h) /\ h.kind = g.kind /\ h.look = g.look /\ h.does = g.does
        /\ \A g \in q : ~Clicked(g) => \E h \in p :
             ~Clicked(h) /\ h.kind = g.kind /\ h.look = g.look /\ h.does = g.does
    BY <2>4, <2>5, <2>6, Zenon
  <2> HIDE DEF p, q
  <2>8. Deeds(p) = Deeds(q)
    BY <2>7, SameDeeds
  <2> QED BY <2>8 DEF p, q, e, f, k
<1> QED BY <1>1

(* What neither promotes nor attaches anything.                            *)
Silent(part) == \A n : ~Offers(part, <<"promote", n>>) /\ ~Offers(part, <<"attach", n>>)

LEMMA SilentParts ==
  /\ \A p : Plain(p) => Silent(p)
  /\ \A p, q : Silent(p) /\ Silent(q) => Silent(p \union q)
  /\ \A p, at : IsPart(p) /\ IsPlace(at) /\ Silent(p) => Silent(Below(at, p))
  /\ \A parts : (\A p \in parts : Silent(p)) => Silent(UNION parts)
  /\ \A p, c : Silent(p) => Silent(When(c, p))
<1>1. ASSUME NEW p, Plain(p) PROVE Silent(p)
  <2>1. IsPart(p) /\ \A n : Never(p, Kinds, <<"promote", n>>) /\ Never(p, Kinds, <<"attach", n>>)
    BY <1>1, ActsHere DEF Plain, Sound
  <2> QED BY <2>1 DEF Silent, Offers, Never, Offering, IsPart, IsElement
<1>2. ASSUME NEW p, NEW at, IsPart(p), IsPlace(at), Silent(p) PROVE Silent(Below(at, p))
  <2>1. Below(at, p) = {Moves(e, at) : e \in p} /\ \A e \in p : Moves(e, at).does = e.does
    BY <1>2, BelowMoves
  <2> QED BY <1>2, <2>1 DEF Silent, Offers
<1>3. /\ \A p, q : Silent(p) /\ Silent(q) => Silent(p \union q)
      /\ \A parts : (\A p \in parts : Silent(p)) => Silent(UNION parts)
      /\ \A p, c : Silent(p) => Silent(When(c, p))
  BY DEF Silent, Offers, When
<1> QED BY <1>1, <1>2, <1>3

(* Buttons beside each other, one for each of some choices.                *)
Pills(T, P, K, V) == {Element(P[t], "button", K[t], V[t]) : t \in T}

LEMMA PillsFlat ==
  ASSUME NEW T, NEW P, NEW K, NEW V,
         \A t \in T : IsPlace(P[t]),
         \A s, t \in T : s # t => Differ(P[s], P[t])
  PROVE  /\ Flat(Pills(T, P, K, V))
         /\ (\A t \in T : Idle(K[t])) => \A e \in Pills(T, P, K, V) : Idle(e.does)
         /\ \A X : (\A t \in T : Len(P[t]) > 0 /\ P[t][1] \in X) => Under(Pills(T, P, K, V), X)
<1> DEFINE pill(t) == Element(P[t], "button", K[t], V[t])
           all == {pill(t) : t \in T}
<1>1. \A t \in T : IsElement(pill(t)) /\ pill(t).at = P[t] /\ pill(t).does = K[t] /\ ~pill(t).stops
  BY ElementsAre, KindsAre
<1> HIDE DEF pill
<1>2. IsPart(all) /\ \A e \in all : ~e.stops
  BY <1>1 DEF IsPart
<1>3. \A e, f \in all : e = f \/ Differ(e.at, f.at)
  BY <1>1
<1>4. Flat(all)
  BY <1>2, <1>3, FlatIfDiffer
<1>5. (\A t \in T : Idle(K[t])) => \A e \in all : Idle(e.does)
  BY <1>1
<1>6. \A X : (\A t \in T : Len(P[t]) > 0 /\ P[t][1] \in X) => Under(all, X)
  BY <1>1 DEF Under
<1> QED BY <1>4, <1>5, <1>6 DEF Pills, pill

LEMMA PillsLook ==
  ASSUME NEW T, NEW P, NEW Q, NEW K, NEW V
  PROVE  Looks(Pills(T, P, K, V)) = Looks(Pills(T, Q, K, V))
<1> DEFINE p(t) == Element(P[t], "button", K[t], V[t])
           q(t) == Element(Q[t], "button", K[t], V[t])
           look(e) == <<e.kind, e.look, Own(e)>>
<1>1. \A t : p(t).kind = q(t).kind /\ p(t).look = q(t).look /\ p(t).does = q(t).does
  BY DEF Element
<1> HIDE DEF p, q
<1>2. \A t : look(p(t)) = look(q(t))
  BY <1>1 DEF Own, Clicked
<1>3. /\ Looks({p(t) : t \in T}) = {look(p(t)) : t \in T}
      /\ Looks({q(t) : t \in T}) = {look(q(t)) : t \in T}
  BY DEF Looks
<1> HIDE DEF look
<1>4. {look(p(t)) : t \in T} = {look(q(t)) : t \in T}
  BY <1>2
<1>5. Looks({p(t) : t \in T}) = Looks({q(t) : t \in T})
  BY <1>3, <1>4
<1> QED BY <1>5, Zenon DEF Pills, p, q

LEMMA BelowHere ==
  \A p : IsPlace(p) => \A kind \in Kinds : \A act, look :
    Below(p, {Element(<<>>, kind, act, look)}) = {Element(p, kind, act, look)}
<1>1. ASSUME NEW p, IsPlace(p), NEW kind \in Kinds, NEW act, NEW look
      PROVE  Below(p, {Element(<<>>, kind, act, look)}) = {Element(p, kind, act, look)}
  <2> DEFINE o == <<>>
             po == p \o o
  <2>1. IsPlace(o) /\ Len(o) = 0
    BY Place0
  <2> HIDE DEF o
  <2>2. IsPlace(p) /\ IsPlace(o)
    BY <1>1, <2>1
  <2>3. IsPlace(po) /\ Len(po) = Len(p) + Len(o) /\ \A i \in 1 .. Len(p) : po[i] = p[i]
    BY <2>2, Joined
  <2> HIDE DEF po
  <2>4. Len(po) = Len(p)
    BY <1>1, <2>1, <2>3, LengthOfPlace
  <2>5. po = p
    BY <1>1, <2>3, <2>4, SamePlace
  <2>6. IsPlace(p) /\ IsPlace(o) /\ kind \in Kinds
    BY <1>1, <2>1
  <2>7. Below(p, {Element(o, kind, act, look)}) = {Element(p \o o, kind, act, look)}
    BY <2>6, BelowElement
  <2>8. Below(p, {Element(o, kind, act, look)}) = {Element(p, kind, act, look)}
    BY <2>5, <2>7, Zenon DEF po
  <2> QED BY <2>8 DEF o
<1> QED BY <1>1

(* A family of parts of one button each.                                   *)
LEMMA PillsTogether ==
  ASSUME NEW T, NEW P, NEW K, NEW V, \A t \in T : IsPlace(P[t])
  PROVE  UNION {Below(P[t], {Element(<<>>, "button", K[t], V[t])}) : t \in T} = Pills(T, P, K, V)
<1> DEFINE pill(t) == Element(P[t], "button", K[t], V[t])
           part(t) == Below(P[t], {Element(<<>>, "button", K[t], V[t])})
<1>1. \A kind \in Kinds : \A t \in T :
        Below(P[t], {Element(<<>>, kind, K[t], V[t])}) = {Element(P[t], kind, K[t], V[t])}
  BY BelowHere, Zenon
<1>2. \A t \in T : part(t) = {pill(t)}
  BY <1>1, KindsAre, Zenon
<1> HIDE DEF pill, part
<1>3. UNION {part(t) : t \in T} = {pill(t) : t \in T}
  BY <1>2
<1> QED BY <1>3, Zenon DEF Pills, pill, part
=============================================================================
