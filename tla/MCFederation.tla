---------------------------- MODULE MCFederation ----------------------------
(* Small instances of Federation for TLC.  The graph of one run has two    *)
(* parts that do not know each other, and one of them is read at a time:   *)
(* a mesh, three nodes that all trust each other, whose catalogues change, *)
(* and a branch, a line that is longer than the hop budget with a node at  *)
(* its side, read from both ends.                                          *)
EXTENDS Federation

CONSTANTS m1, m2, m3, n1, n2, n3, n4, n5, web, db

Mesh == {m1, m2, m3}

(* n5 does not trust back.                                                 *)
Line == (n1 :> <<n2>>) @@ (n2 :> <<n1, n3>>) @@ (n3 :> <<n2>>)
Graph == (m1 :> <<m2, m3>>) @@ (m2 :> <<m3, m1>>) @@ (m3 :> <<m1, m2>>) @@
         (n1 :> <<n2>>) @@ (n2 :> <<n3, n5, n1>>) @@ (n3 :> <<n4, n2>>) @@ (n4 :> <<n3>>) @@ (n5 :> <<>>)

(* Nodes may offer services of the same name.                              *)
Mixed == [n \in Node |-> IF n = m1 THEN {web, db} ELSE {web}]

(* Pages of the branch wait for each other's threads.                      *)
Threads == [n \in Node |-> IF n \in Mesh THEN 2 ELSE 1]

Untouched(nodes) == /\ \A p \in Paths : Head(p) \notin nodes
                    /\ \A n \in nodes : health[n] = "up" /\ rev[n] = 0

(* One catalogue changes, or one node fails.                               *)
OneChange == \A n, m \in Node :
               rev[n] # 0 => /\ n \in Mesh
                             /\ health[m] = "up"
                             /\ rev[m] # 0 => n = m

MCNext == /\ Next
          /\ Untouched(Mesh)' \/ Untouched(Node \ Mesh)'
          /\ OneChange'

MCSpec == Init /\ [][MCNext]_vars /\ Fairness
=============================================================================
