--------------------------- MODULE OffsetStoreUse ---------------------------
(***************************************************************************)
(* The offset store on its own: any sequence of Get and Set calls, with    *)
(* history variables that say what the callers are entitled to find.       *)
(***************************************************************************)
EXTENDS OffsetStore, FiniteSets

CONSTANT MaxOffset   \* bound on the offsets the callers store

ASSUME OffsetAssumption == MaxOffset \in Nat

VARIABLES
  store,   \* the store value
  latest,  \* history: the offset last Set for a path, 0 if never
  since    \* history: the other paths Set, or found by Get, since p was

vars == <<store, latest, since>>

Init ==
  /\ store = EmptyStore
  /\ latest = [p \in Paths |-> 0]
  /\ since = [p \in Paths |-> {}]

\* p has just been used: it starts afresh, and every other path saw it pass.
Used(p) == since' = [q \in Paths |-> IF q = p THEN {} ELSE since[q] \cup {p}]

Get(p) ==
  /\ store' = AfterGet(store, p)
  /\ IF p \in Tracked(store) THEN Used(p) ELSE UNCHANGED since
  /\ UNCHANGED latest

Set(p, o) ==
  /\ store' = AfterSet(store, p, o)
  /\ latest' = [latest EXCEPT ![p] = o]
  /\ Used(p)

Next == \E p \in Paths : Get(p) \/ \E o \in 1..MaxOffset : Set(p, o)

Spec == Init /\ [][Next]_vars
-----------------------------------------------------------------------------
(***************************************************************************)
(* The type invariant of memoryOffsetStore and of the history variables.   *)
(***************************************************************************)
TypeOK ==
  /\ store.order \in Seq(Paths)
  /\ store.offset \in [Paths -> 0..MaxOffset]
  /\ latest \in [Paths -> 0..MaxOffset]
  /\ since \in [Paths -> SUBSET Paths]

(***************************************************************************)
(* IFC-007: the store is bounded, and its list and its map agree -- no     *)
(* path appears twice, and a path off the list keeps no offset.            *)
(***************************************************************************)
BoundedAndConsistent ==
  /\ Len(store.order) <= MaxTracked
  /\ \A i, j \in 1..Len(store.order) :
        store.order[i] = store.order[j] => i = j
  /\ \A p \in Paths : p \notin Tracked(store) => store.offset[p] = 0

(***************************************************************************)
(* The offset of a path is the last one Set for it unless at least         *)
(* MaxTracked other paths were used since: eviction takes the least        *)
(* recently used path and no other.  A caller that cycles through at most  *)
(* MaxTracked paths is never told to start a file over.                    *)
(***************************************************************************)
RecentlyUsedSurvives ==
  \A p \in Paths :
     Cardinality(since[p]) < MaxTracked => OffsetOf(store, p) = latest[p]
=============================================================================
