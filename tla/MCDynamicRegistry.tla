-------------------------- MODULE MCDynamicRegistry --------------------------
(* Small instances of DynamicRegistry for TLC.  One run follows both loads *)
(* of the service, each over a part of the configuration's constants:      *)
(* alone, time passes and the process may die at any step; racing, the     *)
(* requests of two threads about one name interleave freely.               *)
EXTENDS DynamicRegistry

CONSTANTS t1, t2, n1, n2, s1

AloneBound == \A t \in Threads : call[t].ttl \in {1, NoTtl}

RacingBound ==
  /\ clock <= 1
  /\ crashes = 0
  /\ \A t \in Threads : call[t] # NoCall => call[t].name = n1 /\ call[t].ttl \in {0, NoTtl}

MCNext == Next /\ IF alone THEN AloneBound' ELSE RacingBound'

MCSpec == /\ Init
          /\ [][MCNext]_vars
          /\ \A t \in Threads : WF_vars(Step(t) /\ UNCHANGED alone)

(* Racing requests, with the constants as the configuration gives them.    *)
RacingSpec == /\ Init
              /\ ~alone
              /\ [][Next]_vars
=============================================================================
