--------------------------- MODULE RegistryEntries ---------------------------
(***************************************************************************)
(* The data of the dynamic service registry: what one record of            *)
(* registry.json is and the pure functions registry.py applies to a list   *)
(* of them.  An entry keeps the fields the registry's behaviour depends    *)
(* on: its name, its time to live and its last heartbeat.  The descriptive *)
(* fields (port, url, tags, icon, ...) and registered_at are carried along *)
(* by every operation without being looked at, and are left out.  A list   *)
(* of entries is a set: nothing depends on its order.                      *)
(***************************************************************************)
EXTENDS Integers

CONSTANTS Names,     \* names of dynamic services
          Ttls,      \* times to live a caller may ask for, in clock units
          NoTtl,     \* "ttl": null, a persistent entry
          MaxTime    \* bound on the clock

ASSUME EntryAssumption == /\ Ttls \subseteq Int
                          /\ NoTtl \notin Int
                          /\ MaxTime \in Nat

Times == 0 .. MaxTime

(* DynamicService; register_service stamps last_heartbeat itself.          *)
Entry == [name : Names, ttl : Ttls \union {NoTtl}, beat : Times]

(* Mutant: last_heartbeat holds the deadline instead of the time.          *)
StampedDeadline(name, ttl, at) ==
  [name |-> name, ttl |-> ttl, beat |-> IF ttl = NoTtl THEN at ELSE at + ttl + 1]

Stamped(name, ttl, at) == [name |-> name, ttl |-> ttl, beat |-> at]

(* Mutant: a missing ttl is read as zero.                                  *)
IsExpiredNullIsZero(e, now) ==
  now - e.beat > IF e.ttl = NoTtl THEN 0 ELSE e.ttl

(* Strictly later than the ttl: an entry read exactly at its deadline is   *)
(* still alive.                                                            *)
IsExpired(e, now) == e.ttl # NoTtl /\ now - e.beat > e.ttl

Live(list, now) == {e \in list : ~IsExpired(e, now)}

Named(list, name) == {e \in list : e.name = name}

Without(list, name) == list \ Named(list, name)

Upserted(list, e) == Without(list, e.name) \union {e}

Beaten(list, name, at) ==
  Without(list, name) \union {[e EXCEPT !.beat = at] : e \in Named(list, name)}

NamesOf(list) == {e.name : e \in list}

UniqueNames(list) == \A e, f \in list : e.name = f.name => e = f
=============================================================================
