--------------------------- MODULE ServiceRegistry ---------------------------
(***************************************************************************)
(* What the dynamic registry promises a client (registry.py, lines 5-22):  *)
(* one set of entries, changed by one indivisible operation at a time.  A  *)
(* persistent entry leaves only through Deregister (or is replaced by a    *)
(* registration of its own name); an entry with a ttl also leaves when it  *)
(* is found expired.  An operation's time stamp was taken some time before *)
(* the operation takes effect, never after, and a heartbeat never moves an *)
(* entry's deadline backwards.                                             *)
(***************************************************************************)
EXTENDS RegistryEntries

VARIABLES clock,     \* the wall clock of the node
          entries    \* the registry

avars == <<clock, entries>>

TypeOK == /\ clock \in Times
          /\ entries \subseteq Entry

Init == /\ clock = 0
        /\ entries = {}

Register(name, ttl, at) ==
  /\ entries' = Upserted(entries, Stamped(name, ttl, at))
  /\ UNCHANGED clock

Deregister(name) ==
  /\ name \in NamesOf(entries)
  /\ entries' = Without(entries, name)
  /\ UNCHANGED clock

Heartbeat(name, at) ==
  /\ name \in NamesOf(entries)
  /\ \A e \in Named(entries, name) : e.beat <= at
  /\ entries' = Beaten(entries, name, at)
  /\ UNCHANGED clock

(* Any read removes what had expired when it looked.                       *)
Prune(at) ==
  /\ \E e \in entries : IsExpired(e, at)
  /\ entries' = Live(entries, at)
  /\ UNCHANGED clock

Tick == /\ clock < MaxTime
        /\ clock' = clock + 1
        /\ UNCHANGED entries

Next == \/ Tick
        \/ \E at \in 0 .. clock :
             \/ Prune(at)
             \/ \E name \in Names :
                  \/ Heartbeat(name, at)
                  \/ \E ttl \in Ttls \union {NoTtl} : Register(name, ttl, at)
        \/ \E name \in Names : Deregister(name)

Spec == Init /\ [][Next]_avars
=============================================================================
