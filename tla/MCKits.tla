------------------------------- MODULE MCKits -------------------------------
(* The four pages of ui_kits on a few items each.                          *)
EXTENDS Kits

MCText == {"", " ", "mux"}
MCBlank == {"", " "}
MCMatches == [t \in {"mux"} |-> {"muxterm", "r-411"}]
MCMatchesOk == [t \in {"mux"} |-> {"r-411", "r-412"}]

MCNode == {"node-a", "node-b"}
Plain == [origin |-> "node-a", view |-> "iframe", dynamic |-> FALSE, attention |-> 0,
          docs |-> FALSE, links |-> {"Tailnet"}, health |-> "up"]
Named(name) == [f \in {"name"} \union DOMAIN Plain |-> IF f = "name" THEN name ELSE Plain[f]]
MCService ==
  {[Named("status") EXCEPT !.view = "json"],
   [Named("muxterm") EXCEPT !.dynamic = TRUE, !.attention = 1, !.health = "down"],
   [Named("grafana") EXCEPT !.view = "auto", !.origin = "node-b", !.docs = TRUE]}

MCRun == {[name |-> "r-412", attention |-> 2], [name |-> "r-411", attention |-> 0]}
MCKept == {"", "Light", "sepia"}

MCSession ==
  {[name |-> "api", device |-> "macbook", bell |-> 0],
   [name |-> "deploy", device |-> "macbook", bell |-> 2],
   [name |-> "logs", device |-> "nuc", bell |-> 0]}
MCDevice == {"macbook", "nuc"}
MCZoom == {100, 110}
=============================================================================
