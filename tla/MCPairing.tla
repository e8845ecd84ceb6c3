------------------------------ MODULE MCPairing ------------------------------
(* Instances of Pairing for TLC.  One run follows all three loads over the *)
(* same constants: where sections do not overlap two of the nodes pair;    *)
(* one attempt at a time, time passes and a process dies as well; where    *)
(* sections overlap every node pairs with every other.                     *)
EXTENDS Pairing

CONSTANT Bystander       \* the nodes that pair only where sections overlap

BystandersIdle ==
  /\ \A a \in Attempt : Bystander \intersect {attempt[a].from, attempt[a].to} = {}
  /\ \A n \in Bystander : DOMAIN codes[n] = {} /\ ~removal[n].busy

MCNext == /\ Next
          /\ overlap # "sections" => BystandersIdle'
          /\ overlap # "none" => clock' = 0 /\ restarts' = 0

MCSpec == Init /\ [][MCNext]_vars /\ Fairness

(* Attempts that overlap between their store sections only.                *)
AttemptsSpec == /\ Init
                /\ overlap = "attempts"
                /\ [][Next]_vars
=============================================================================
