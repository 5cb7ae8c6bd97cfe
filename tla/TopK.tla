-------------------------------- MODULE TopK --------------------------------
(***************************************************************************)
(* The counter of cmd/pglogwatch/topk.go: groups by key, a bounded number  *)
(* of them, the least frequent given up for a new one.                     *)
(*                                                                         *)
(* A counter is [groups, dropped]: groups maps a key to its count, total   *)
(* and worst value.  A full counter gives up any of its least frequent     *)
(* groups, for the order in which Go ranges over a map is not determined.  *)
(***************************************************************************)
EXTENDS Integers, FiniteSets

CONSTANTS
  NoKey,          \* the empty key
  TrackingFactor  \* trackingFactor

ASSUME TopKAssumption == TrackingFactor \in Nat \ {0}

Limit(top) == top * TrackingFactor

Group == [count : Nat \ {0}, total : Nat, worst : Nat]

Keys(c) == DOMAIN c.groups

IsCounter(c) ==
  /\ DOMAIN c = {"groups", "dropped"}
  /\ IsFiniteSet(Keys(c))
  /\ c.groups \in [Keys(c) -> Group]
  /\ c.dropped \in Nat

NewCounter == [groups |-> [k \in {} |-> 0], dropped |-> 0]

NewGroup(value) == [count |-> 1, total |-> value, worst |-> value]

Observe(g, value) ==
  [count |-> g.count + 1,
   total |-> g.total + value,
   worst |-> IF value > g.worst THEN value ELSE g.worst]

\* The groups evictSmallest may find the least frequent.
Smallest(c) ==
  {k \in Keys(c) : \A l \in Keys(c) : c.groups[k].count <= c.groups[l].count}

\* The empty key doubles as "no victim", so its group is never given up.
Evicted(c, victim) ==
  IF victim = NoKey THEN c
  ELSE [groups |-> [k \in Keys(c) \ {victim} |-> c.groups[k]],
        dropped |-> c.dropped + 1]

Inserted(c, key, value) ==
  [c EXCEPT !.groups = [k \in Keys(c) \cup {key} |->
                          IF k = key THEN NewGroup(value) ELSE c.groups[k]]]

\* Mutant: the new group takes over the count of the one it replaces.
Added_Inherits(c, key, value, limit) ==
  IF key \in Keys(c)
  THEN {[c EXCEPT !.groups[key] = Observe(@, value)]}
  ELSE IF Cardinality(Keys(c)) < limit THEN {Inserted(c, key, value)}
  ELSE {[Inserted(Evicted(c, victim), key, value) EXCEPT
           !.groups[key].count = c.groups[victim].count + 1] :
        victim \in Smallest(c)}

\* What add may leave of a counter.
Added(c, key, value, limit) ==
  IF key \in Keys(c)
  THEN {[c EXCEPT !.groups[key] = Observe(@, value)]}
  ELSE IF Cardinality(Keys(c)) < limit THEN {Inserted(c, key, value)}
  ELSE {Inserted(Evicted(c, victim), key, value) : victim \in Smallest(c)}

\* What a report shows: the n first by measure.  Equal ones are told apart by
\* their keys in the code, which no property needs.
Foremost(set, n, Measure(_)) ==
  {chosen \in SUBSET set :
     /\ Cardinality(chosen) = IF Cardinality(set) < n THEN Cardinality(set) ELSE n
     /\ \A k \in chosen, l \in set \ chosen : Measure(k) >= Measure(l)}

Top(c, n) == Foremost(Keys(c), n, LAMBDA k : c.groups[k].count)
BySlowest(c, n) == Foremost(Keys(c), n, LAMBDA k : c.groups[k].worst)
ByTotal(c, n) == Foremost(Keys(c), n, LAMBDA k : c.groups[k].total)
=============================================================================
