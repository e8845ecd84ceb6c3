------------------------------ MODULE Elements ------------------------------
(***************************************************************************)
(* What a page of React components offers its user: elements, each with    *)
(* the place it has in the tree (a path, whose prefixes are the elements   *)
(* around it), what its handler does, and what its look tells.  Elements   *)
(* with no handler, no event of their own and nothing to tell are left     *)
(* out, and so is where an element is drawn: any of them may be used.      *)
(***************************************************************************)
EXTENDS Naturals, Sequences, FiniteSets

Sequence == INSTANCE SequencesExt

(* An act is what a handler does, <<name, argument>>; NoAct is no handler. *)
NoAct == <<>>
None == "none"

Element(at, kind, does, look) ==
  [at |-> at, kind |-> kind, does |-> does, look |-> look, stops |-> FALSE]

Button(at, act) == Element(at, "button", act, "")      \* a <button>
Area(at, act, look) == Element(at, "area", act, look)  \* any other onClick
NewTab(at) == Element(at, "link", <<"new tab">>, "")   \* <a target="_blank">
Input(at, act) == Element(at, "input", act, "")        \* onChange
Key(at, act) == Element(at, "key", act, "")            \* onKeyDown
Mark(at, look) == Element(at, "mark", NoAct, look)     \* only seen

(* The handler calls stopPropagation.                                      *)
Stopping(e) == [e EXCEPT !.stops = TRUE]

When(condition, part) == IF condition THEN part ELSE {}

(* The elements below a place, moved to it.                                *)
Below(at, part) == {[e EXCEPT !.at = at \o @] : e \in part}

(* The handlers a click on an element runs: its own and those around it,   *)
(* from the inside out, up to one that stops the event.                    *)
Clicked(e) == e.kind \in {"button", "area", "link"}
Around(screen, e) == {f \in screen : Clicked(f) /\ Sequence!IsPrefix(f.at, e.at)}
Fired(screen, e) ==
  IF ~Clicked(e) THEN {e}
  ELSE {f \in Around(screen, e) :
          /\ f.does # NoAct
          /\ \A g \in Around(screen, e) : Len(g.at) > Len(f.at) => ~g.stops}

Offers(screen, act) == \E e \in screen : e.does = act
MarkedBy(screen, look) == {e \in screen : e.look = look}

(* What a part of a screen is to its user, wherever it is put: what can be *)
(* done on which kind of element, and what is to be seen.                  *)
Deeds(part) == {<<e.kind, e.look, {f.does : f \in Fired(part, e)}>> : e \in part}
=============================================================================
