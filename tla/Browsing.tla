------------------------------ MODULE Browsing ------------------------------
(***************************************************************************)
(* What every page of the design system promises about its list: one of    *)
(* the listed items is open, or none; an item leaves the list only if it   *)
(* may be removed, and is then not left open; and nothing comes back.      *)
(***************************************************************************)
CONSTANTS Removable,     \* the items that may be removed
          Nothing        \* what is open when no item is

VARIABLES listed,        \* the items of the list
          open           \* the item that is open

Choose(n) == n \in listed /\ open' = n /\ UNCHANGED listed
Leave == open' = Nothing /\ UNCHANGED listed
Remove(n) ==
  /\ n \in listed \intersect Removable
  /\ listed' = listed \ {n}
  /\ open' = IF open = n THEN Nothing ELSE open

Init == open = Nothing
Next == Leave \/ \E n \in listed : Choose(n) \/ Remove(n)
Spec == Init /\ [][Next]_<<listed, open>>
=============================================================================
