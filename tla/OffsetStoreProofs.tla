------------------------- MODULE OffsetStoreProofs -------------------------
(***************************************************************************)
(* Proofs about the bounded offset store, for every set of paths and every *)
(* capacity: its list and its map never disagree, and a path loses its     *)
(* offset only after MaxTracked other paths were used.                     *)
(***************************************************************************)
EXTENDS OffsetStoreUse, FiniteSetTheorems, TLAPS

\* The order in which entries would be evicted names no path twice.
Distinct(order) ==
  \A i, j \in 1..Len(order) : order[i] = order[j] => i = j

StoreTyped(s) ==
  /\ s.order \in Seq(Paths)
  /\ s.offset \in [Paths -> 0..MaxOffset]
  /\ s = [order |-> s.order, offset |-> s.offset]

(***************************************************************************)
(* m is old after a use of p: p is first, and what is ahead of any other   *)
(* path is p or was ahead of it before.                                    *)
(***************************************************************************)
UsedFirst(m, old, p) ==
  /\ Len(m) >= 1 /\ m[1] = p
  /\ \A j \in 2..Len(m) : \E k \in 1..Len(old) :
       /\ m[j] = old[k] /\ old[k] # p
       /\ \A i \in 1..(j - 1) : m[i] = p \/ \E h \in 1..(k - 1) : m[i] = old[h]

(***************************************************************************)
(* The place of a tracked path is a place of the list.                     *)
(***************************************************************************)
LEMMA PlaceOfTracked ==
  ASSUME NEW s, NEW p \in Tracked(s)
  PROVE  Place(s, p) \in 1..Len(s.order) /\ s.order[Place(s, p)] = p
  BY DEF Place, Tracked

(***************************************************************************)
(* MoveToFront permutes the list: p comes first, the paths that were ahead *)
(* of it follow, and the rest stays where it was.                          *)
(***************************************************************************)
LEMMA MoveToFrontPermutes ==
  ASSUME NEW s, StoreTyped(s), Distinct(s.order), NEW p \in Tracked(s)
  PROVE  /\ MoveToFront(s, p) \in Seq(Paths)
         /\ Len(MoveToFront(s, p)) = Len(s.order)
         /\ Distinct(MoveToFront(s, p))
         /\ {MoveToFront(s, p)[i] : i \in 1..Len(s.order)} = Tracked(s)
         /\ UsedFirst(MoveToFront(s, p), s.order, p)
  <1> DEFINE n == Len(s.order)
             k == Place(s, p)
             m == MoveToFront(s, p)
  <1>1. n \in Nat /\ k \in 1..n /\ s.order[k] = p
    BY PlaceOfTracked DEF StoreTyped
  <1>2. \A i \in 1..n : s.order[i] \in Paths
    BY DEF StoreTyped
  <1>3. m = [i \in 1..n |-> IF i = 1 THEN s.order[k]
                             ELSE IF i <= k THEN s.order[i-1] ELSE s.order[i]]
    BY <1>1 DEF MoveToFront
  <1> HIDE DEF m, k, n
  <1>4. \A i \in 1..n : m[i] = IF i = 1 THEN s.order[k]
                               ELSE IF i <= k THEN s.order[i-1] ELSE s.order[i]
    BY <1>3
  <1>5. \A i \in 1..n : m[i] \in Paths
    BY <1>1, <1>2, <1>4
  <1>6. m \in Seq(Paths) /\ Len(m) = n
    BY <1>1, <1>3, <1>5
  <1>7. Distinct(m)
    BY <1>1, <1>4, <1>6 DEF Distinct, n
  <1>8. ASSUME NEW j \in 1..n
        PROVE  \E i \in 1..n : m[i] = s.order[j]
    <2>1. CASE j = k
      BY <2>1, <1>1, <1>4
    <2>2. CASE j < k
      <3>1. j + 1 \in 1..n /\ m[j + 1] = s.order[j]
        BY <2>2, <1>1, <1>4
      <3> QED BY <3>1
    <2>3. CASE j > k
      BY <2>3, <1>1, <1>4
    <2> QED BY <2>1, <2>2, <2>3, <1>1
  <1>9. ASSUME NEW i \in 1..n
        PROVE  \E j \in 1..n : m[i] = s.order[j]
    BY <1>1, <1>4
  <1>10. {m[i] : i \in 1..n} = Tracked(s)
    <2>1. Tracked(s) = {s.order[j] : j \in 1..n}
      BY DEF Tracked, n
    <2>2. \A j \in 1..n : \E i \in 1..n : m[i] = s.order[j]
      BY <1>8
    <2>3. \A i \in 1..n : \E j \in 1..n : m[i] = s.order[j]
      BY <1>9
    <2>4. ASSUME NEW x \in Tracked(s)
          PROVE  x \in {m[i] : i \in 1..n}
      <3>1. PICK j \in 1..n : x = s.order[j]
        BY <2>1
      <3>2. PICK i \in 1..n : m[i] = s.order[j]
        BY <2>2
      <3> QED BY <3>1, <3>2
    <2>5. ASSUME NEW x \in {m[i] : i \in 1..n}
          PROVE  x \in Tracked(s)
      <3>1. PICK i \in 1..n : x = m[i]
        OBVIOUS
      <3>2. PICK j \in 1..n : m[i] = s.order[j]
        BY <2>3
      <3> QED BY <3>1, <3>2, <2>1
    <2> QED BY <2>4, <2>5
  <1>11. m[1] = p
    BY <1>1, <1>4
  <1>12. ASSUME NEW j \in 2..n
         PROVE  \E h \in 1..n :
                  /\ m[j] = s.order[h] /\ s.order[h] # p
                  /\ \A i \in 1..(j - 1) :
                       m[i] = p \/ \E g \in 1..(h - 1) : m[i] = s.order[g]
    <2>1. \A i \in 1..n : s.order[i] = p => i = k
      BY <1>1 DEF Distinct, n
    <2>2. CASE j <= k
      <3>1. j - 1 \in 1..n /\ m[j] = s.order[j - 1] /\ s.order[j - 1] # p
        BY <2>1, <2>2, <1>1, <1>4
      <3>2. ASSUME NEW i \in 2..(j - 1)
            PROVE  i - 1 \in 1..((j - 1) - 1) /\ m[i] = s.order[i - 1]
        BY <2>2, <1>1, <1>4
      <3> QED BY <3>1, <3>2, <1>11, <1>1
    <2>3. CASE j > k
      <3>1. j \in 1..n /\ m[j] = s.order[j] /\ s.order[j] # p
        BY <2>1, <2>3, <1>1, <1>4
      <3>2. ASSUME NEW i \in 2..(j - 1)
            PROVE  \E g \in 1..(j - 1) : m[i] = s.order[g]
        <4>1. CASE i <= k
          BY <4>1, <1>1, <1>4
        <4>2. CASE i > k
          BY <4>2, <1>1, <1>4
        <4> QED BY <4>1, <4>2, <1>1
      <3>3. \A i \in 1..(j - 1) :
              m[i] = p \/ \E g \in 1..(j - 1) : m[i] = s.order[g]
        BY <3>2, <1>11, <1>1
      <3> QED BY <3>1, <3>3
    <2> QED BY <2>2, <2>3, <1>1
  <1>13. UsedFirst(m, s.order, p)
    BY <1>1, <1>6, <1>11, <1>12 DEF UsedFirst, n
  <1> QED BY <1>6, <1>7, <1>10, <1>13 DEF m, n

(***************************************************************************)
(* PushFront puts a new path first and moves the list back by one.         *)
(***************************************************************************)
LEMMA PushFrontExtends ==
  ASSUME NEW s, StoreTyped(s), Distinct(s.order),
         NEW p \in Paths, p \notin Tracked(s)
  PROVE  /\ PushFront(s, p) \in Seq(Paths)
         /\ Len(PushFront(s, p)) = Len(s.order) + 1
         /\ Distinct(PushFront(s, p))
         /\ PushFront(s, p)[1] = p
         /\ \A i \in 2..(Len(s.order) + 1) : PushFront(s, p)[i] = s.order[i - 1]
         /\ \A i \in 1..Len(s.order) : s.order[i] # p
  <1> DEFINE n == Len(s.order)
             m == PushFront(s, p)
  <1>1. n \in Nat /\ \A i \in 1..n : s.order[i] \in Paths
    BY DEF StoreTyped
  <1>2. m = [i \in 1..(n + 1) |-> IF i = 1 THEN p ELSE s.order[i-1]]
    BY DEF PushFront
  <1>3. \A i \in 1..n : s.order[i] # p
    BY DEF Tracked
  <1> HIDE DEF m
  <1>4. m \in Seq(Paths) /\ Len(m) = n + 1
    BY <1>1, <1>2
  <1>5. m[1] = p /\ \A i \in 2..(n + 1) : m[i] = s.order[i - 1]
    BY <1>1, <1>2
  <1>6. Distinct(m)
    <2> SUFFICES ASSUME NEW i \in 1..(n + 1), NEW j \in 1..(n + 1), i < j
                 PROVE  m[i] # m[j]
      BY <1>1, <1>4 DEF Distinct
    <2>1. j \in 2..(n + 1) /\ j - 1 \in 1..n /\ m[j] = s.order[j - 1]
      BY <1>1, <1>5
    <2>2. CASE i = 1
      BY <1>3, <1>5, <2>1, <2>2
    <2>3. CASE i # 1
      <3>1. i - 1 \in 1..n /\ i - 1 # j - 1 /\ m[i] = s.order[i - 1]
        BY <1>1, <1>5, <2>3
      <3> QED BY <2>1, <3>1 DEF Distinct
    <2> QED BY <2>2, <2>3
  <1> QED BY <1>3, <1>4, <1>5, <1>6 DEF m

-----------------------------------------------------------------------------
(***************************************************************************)
(* The list and the map of a store agree, and the list is within bounds.   *)
(***************************************************************************)
Consistent(s) ==
  /\ StoreTyped(s)
  /\ Len(s.order) <= MaxTracked
  /\ Distinct(s.order)
  /\ \A q \in Paths : q \notin Tracked(s) => s.offset[q] = 0

\* t is s after a use of p that gave p the offset o.
Uses(s, t, p, o) ==
  /\ Consistent(t)
  /\ UsedFirst(t.order, s.order, p)
  /\ t.offset[p] = o
  /\ \A q \in Tracked(t) : q # p => q \in Tracked(s) /\ t.offset[q] = s.offset[q]
  /\ \A q \in Tracked(s) \ Tracked(t) :
       /\ p \notin Tracked(s) /\ q # p
       /\ Len(s.order) = MaxTracked /\ q = s.order[MaxTracked]

(***************************************************************************)
(* A hit moves its path to the front and changes nothing else.             *)
(***************************************************************************)
LEMMA GetUses ==
  ASSUME NEW s, Consistent(s), NEW p \in Paths, p \in Tracked(s)
  PROVE  Uses(s, AfterGet(s, p), p, s.offset[p])
  <1> DEFINE m == MoveToFront(s, p)
             t == AfterGet(s, p)
  <1>1. /\ m \in Seq(Paths) /\ Len(m) = Len(s.order) /\ Distinct(m)
        /\ {m[i] : i \in 1..Len(s.order)} = Tracked(s)
        /\ UsedFirst(m, s.order, p)
    BY MoveToFrontPermutes DEF Consistent
  <1> HIDE DEF m
  <1>2. t = [order |-> m, offset |-> s.offset]
    BY DEF AfterGet, m, Consistent, StoreTyped
  <1>3. t.order = m /\ t.offset = s.offset
    BY <1>2
  <1>4. Tracked(t) = Tracked(s)
    BY <1>1, <1>3 DEF Tracked
  <1> HIDE DEF t
  <1>5. Consistent(t)
    BY <1>1, <1>2, <1>3, <1>4 DEF Consistent, StoreTyped
  <1> QED BY <1>1, <1>3, <1>4, <1>5 DEF Uses, t

(***************************************************************************)
(* Set gives its path the offset and the first place; it drops no path but *)
(* the last one of a full list.                                            *)
(***************************************************************************)
LEMMA SetUses ==
  ASSUME NEW s, Consistent(s), NEW p \in Paths, NEW o \in 0..MaxOffset
  PROVE  Uses(s, AfterSet(s, p, o), p, o)
  <1> DEFINE t == AfterSet(s, p, o)
             n == Len(s.order)
  <1> USE TrackedAssumption, OffsetAssumption
  <1>0. /\ n \in Nat /\ n <= MaxTracked /\ s.offset \in [Paths -> 0..MaxOffset]
        /\ StoreTyped(s) /\ Distinct(s.order)
        /\ Tracked(s) = {s.order[i] : i \in 1..n}
        /\ \A i \in 1..n : s.order[i] \in Paths
    BY DEF Consistent, StoreTyped, Tracked
  <1>1. CASE p \in Tracked(s)
    <2> DEFINE m == MoveToFront(s, p)
    <2>1. /\ m \in Seq(Paths) /\ Len(m) = n /\ Distinct(m)
          /\ {m[i] : i \in 1..n} = Tracked(s)
          /\ UsedFirst(m, s.order, p)
      BY <1>1, MoveToFrontPermutes DEF Consistent
    <2> HIDE DEF m
    <2>2. t.order = m /\ t.offset = [s.offset EXCEPT ![p] = o]
          /\ t = [order |-> t.order, offset |-> t.offset]
      BY <1>1 DEF AfterSet, m
    <2>3. Tracked(t) = Tracked(s)
      BY <2>1, <2>2 DEF Tracked
    <2> HIDE DEF t
    <2>4. StoreTyped(t)
      BY <2>1, <2>2, <1>0 DEF StoreTyped
    <2>5. Consistent(t)
      BY <1>0, <1>1, <2>1, <2>2, <2>3, <2>4 DEF Consistent
    <2>6. t.offset[p] = o /\ \A q \in Paths : q # p => t.offset[q] = s.offset[q]
      BY <1>0, <2>2
    <2>7. Tracked(s) \subseteq Paths
      BY <1>0
    <2> QED BY <2>1, <2>2, <2>3, <2>5, <2>6, <2>7 DEF Uses, t
  <1>2. CASE p \notin Tracked(s)
    <2> DEFINE f == PushFront(s, p)
    <2>1. /\ f \in Seq(Paths) /\ Len(f) = n + 1 /\ Distinct(f) /\ f[1] = p
          /\ \A i \in 2..(n + 1) : f[i] = s.order[i - 1]
          /\ \A i \in 1..n : s.order[i] # p
      BY <1>2, PushFrontExtends DEF Consistent
    <2> HIDE DEF f
    <2> DEFINE l == IF n < MaxTracked THEN n + 1 ELSE n
               g == t.order
    <2>2. l \in Nat /\ l >= 1 /\ l <= MaxTracked /\ l <= n + 1 /\ n <= l
      BY <1>0
    <2>3. g \in Seq(Paths) /\ Len(g) = l /\ \A i \in 1..l : g[i] = f[i]
      <3>1. CASE n < MaxTracked
        BY <3>1, <1>2, <2>1 DEF AfterSet, f
      <3>2. CASE ~(n < MaxTracked)
        <4>1. n = MaxTracked /\ g = [i \in 1..MaxTracked |-> f[i]]
          BY <3>2, <1>0, <1>2 DEF AfterSet, f
        <4>2. \A i \in 1..MaxTracked : f[i] \in Paths
          BY <4>1, <2>1, <1>0
        <4> QED BY <4>1, <4>2, <3>2, <1>0
      <3> QED BY <3>1, <3>2
    <2>4. g[1] = p /\ \A i \in 2..l : i - 1 \in 1..n /\ g[i] = s.order[i - 1]
      BY <2>1, <2>2, <2>3, <1>0
    <2>5. Distinct(g)
      BY <2>1, <2>2, <2>3, <1>0 DEF Distinct
    <2>6. /\ t = [order |-> g, offset |-> t.offset]
          /\ t.offset \in [Paths -> 0..MaxOffset]
          /\ t.offset[p] = o
          /\ \A q \in Paths : q # p =>
               t.offset[q] = IF n = MaxTracked /\ q = s.order[n] THEN 0 ELSE s.offset[q]
      <3>1. CASE n < MaxTracked
        <4>1. t = [order |-> PushFront(s, p), offset |-> [s.offset EXCEPT ![p] = o]]
          BY <3>1, <1>2 DEF AfterSet
        <4> QED BY <4>1, <3>1, <1>0
      <3>2. CASE ~(n < MaxTracked)
        <4>1. t = [order  |-> [i \in 1..MaxTracked |-> PushFront(s, p)[i]],
                   offset |-> [s.offset EXCEPT ![s.order[n]] = 0, ![p] = o]]
          BY <3>2, <1>2 DEF AfterSet
        <4>2. n = MaxTracked /\ s.order[n] \in Paths
          BY <3>2, <1>0
        <4>3. t.offset = [s.offset EXCEPT ![s.order[n]] = 0, ![p] = o]
          BY <4>1
        <4>4. t = [order |-> g, offset |-> t.offset]
          BY <4>1
        <4> HIDE DEF t
        <4> QED BY <4>2, <4>3, <4>4, <1>0
      <3> QED BY <3>1, <3>2
    <2>7. n = MaxTracked => s.order[n] \in Tracked(s)
      BY <1>0
    <2> HIDE DEF t, l
    <2>8. Tracked(t) = {p} \cup {s.order[i] : i \in 1..(l - 1)}
      <3>1. ASSUME NEW q \in Tracked(t)
            PROVE  q = p \/ q \in {s.order[i] : i \in 1..(l - 1)}
        <4>1. PICK i \in 1..l : q = g[i]
          BY <2>3 DEF Tracked
        <4>2. CASE i = 1
          BY <4>1, <4>2, <2>4
        <4>3. CASE i # 1
          <5>1. i \in 2..l /\ i - 1 \in 1..(l - 1)
            BY <4>3, <2>2
          <5>2. g[i] = s.order[i - 1]
            BY <5>1, <2>4
          <5> QED BY <4>1, <5>1, <5>2
        <4> QED BY <4>2, <4>3
      <3>2. ASSUME NEW i \in 1..(l - 1)
            PROVE  s.order[i] \in Tracked(t)
        <4>1. i + 1 \in 2..l /\ (i + 1) - 1 = i
          BY <2>2
        <4>2. g[i + 1] = s.order[i]
          BY <4>1, <2>4
        <4>3. i + 1 \in 1..l
          BY <2>2
        <4> QED BY <4>2, <4>3, <2>3 DEF Tracked
      <3>3. p \in Tracked(t)
        BY <2>2, <2>3, <2>4 DEF Tracked
      <3> QED BY <3>1, <3>2, <3>3
    <2>9. \A q \in Tracked(s) \ Tracked(t) : n = MaxTracked /\ q = s.order[n]
      <3> SUFFICES ASSUME NEW i \in 1..n, s.order[i] \notin Tracked(t)
                   PROVE  n = MaxTracked /\ i = n
        BY <1>0
      <3>1. i \notin 1..(l - 1)
        BY <2>8
      <3> QED BY <3>1, <1>0, <2>2 DEF l
    <2>10. n = MaxTracked => s.order[n] \notin Tracked(t)
      <3> SUFFICES ASSUME n = MaxTracked PROVE s.order[n] \notin Tracked(t)
        OBVIOUS
      <3>1. l - 1 = n - 1 /\ n \in 1..n
        BY <1>0 DEF l
      <3>2. \A i \in 1..(n - 1) : s.order[i] # s.order[n]
        BY <1>0, <3>1 DEF Distinct
      <3>3. s.order[n] # p
        BY <2>1, <3>1
      <3> QED BY <2>8, <3>1, <3>2, <3>3
    <2>11. Consistent(t)
      <3>1. StoreTyped(t)
        BY <2>3, <2>6 DEF StoreTyped
      <3>2. ASSUME NEW q \in Paths, q \notin Tracked(t)
            PROVE  t.offset[q] = 0
        <4>1. q # p
          BY <3>2, <2>8
        <4>2. CASE q \in Tracked(s)
          BY <4>1, <4>2, <3>2, <2>6, <2>9
        <4>3. CASE q \notin Tracked(s)
          BY <4>1, <4>3, <2>6, <1>0, <2>7 DEF Consistent
        <4> QED BY <4>2, <4>3
      <3> QED BY <3>1, <3>2, <2>2, <2>3, <2>5 DEF Consistent
    <2>12. UsedFirst(g, s.order, p)
      <3> SUFFICES ASSUME NEW j \in 2..l
                   PROVE  \E k \in 1..n :
                     /\ g[j] = s.order[k] /\ s.order[k] # p
                     /\ \A i \in 1..(j - 1) :
                          g[i] = p \/ \E h \in 1..(k - 1) : g[i] = s.order[h]
        BY <2>2, <2>3, <2>4 DEF UsedFirst
      <3>1. j - 1 \in 1..n /\ g[j] = s.order[j - 1] /\ s.order[j - 1] # p
        BY <2>1, <2>4
      <3>2. ASSUME NEW i \in 1..(j - 1)
            PROVE  g[i] = p \/ \E h \in 1..((j - 1) - 1) : g[i] = s.order[h]
        <4>1. CASE i = 1
          BY <4>1, <2>4
        <4>2. CASE i # 1
          <5>1. i \in 2..l /\ i - 1 \in 1..((j - 1) - 1)
            BY <4>2, <2>2
          <5> QED BY <5>1, <2>4
        <4> QED BY <4>1, <4>2
      <3> QED BY <3>1, <3>2
    <2>13. ASSUME NEW q \in Tracked(t), q # p
           PROVE  q \in Tracked(s) /\ t.offset[q] = s.offset[q]
      <3>1. q \in Tracked(s) /\ q \in Paths
        BY <2>13, <2>2, <2>8, <1>0
      <3> QED BY <3>1, <2>6, <2>10, <2>13
    <2>14. p \notin Tracked(s) /\ \A q \in Tracked(s) : q # p
      BY <1>2
    <2> QED BY <2>6, <2>9, <2>11, <2>12, <2>13, <2>14 DEF Uses, t
  <1> QED BY <1>1, <1>2

-----------------------------------------------------------------------------
(***************************************************************************)
(* The inductive invariant.  A path keeps its offset as long as it is on   *)
(* the list, every path ahead of it was used since, and one that has       *)
(* fallen off the list has seen MaxTracked others pass.                    *)
(***************************************************************************)
HistoryTyped ==
  /\ latest \in [Paths -> 0..MaxOffset]
  /\ since \in [Paths -> SUBSET Paths]
  /\ \A p \in Paths : IsFiniteSet(since[p])

TrackedIsLatest == \A p \in Tracked(store) : store.offset[p] = latest[p]

AheadWasUsed ==
  \A j \in 1..Len(store.order) : \A i \in 1..(j - 1) :
    store.order[i] \in since[store.order[j]]

EvictedIsOld ==
  \A p \in Paths :
    p \notin Tracked(store) =>
      latest[p] = 0 \/ Cardinality(since[p]) >= MaxTracked

IInv ==
  /\ Consistent(store) /\ HistoryTyped
  /\ TrackedIsLatest /\ AheadWasUsed /\ EvictedIsOld

(***************************************************************************)
(* The paths of a list of distinct paths are as many as it is long.        *)
(***************************************************************************)
LEMMA DistinctCount ==
  ASSUME NEW f, NEW n \in Nat, NEW S,
         \A i, j \in 1..n : f[i] = f[j] => i = j,
         \A i \in 1..n : f[i] \in S,
         \A x \in S : \E i \in 1..n : f[i] = x
  PROVE  IsFiniteSet(S) /\ Cardinality(S) = n
  <1> DEFINE g == [i \in 1..n |-> f[i]]
  <1>1. g \in [1..n -> S] /\ \A x \in S : \E i \in 1..n : g[i] = x
    OBVIOUS
  <1>2. \A i, j \in 1..n : g[i] = g[j] => i = j
    OBVIOUS
  <1> HIDE DEF g
  <1>3. g \in Surjection(1..n, S)
    BY <1>1 DEF Surjection
  <1>4. g \in Injection(1..n, S)
    BY <1>1, <1>2 DEF Injection, IsInjective
  <1>5. IsFiniteSet(1..n) /\ Cardinality(1..n) = n
    BY FS_Interval
  <1> QED BY <1>3, <1>4, <1>5, FS_Surjection

(***************************************************************************)
(* A path that leaves the list when p comes in has seen the MaxTracked - 1 *)
(* paths that were ahead of it, and now p.                                 *)
(***************************************************************************)
LEMMA EvictedHasSeen ==
  ASSUME NEW order \in Seq(Paths), Distinct(order), Len(order) = MaxTracked,
         NEW seen \in SUBSET Paths, IsFiniteSet(seen),
         \A i \in 1..(MaxTracked - 1) : order[i] \in seen,
         NEW p, \A i \in 1..MaxTracked : order[i] # p
  PROVE  Cardinality(seen \cup {p}) >= MaxTracked
  <1> USE TrackedAssumption
  <1> DEFINE m == MaxTracked - 1
             S == {order[i] : i \in 1..m}
  <1>1. m \in Nat /\ m + 1 = MaxTracked
    OBVIOUS
  <1>2. \A i, j \in 1..m : order[i] = order[j] => i = j
    BY DEF Distinct
  <1> HIDE DEF m
  <1>3. IsFiniteSet(S) /\ Cardinality(S) = m
    <2>1. (\A i \in 1..m : order[i] \in S) /\ \A x \in S : \E i \in 1..m : order[i] = x
      OBVIOUS
    <2> HIDE DEF S
    <2> QED BY <1>1, <1>2, <2>1, DistinctCount
  <1>4. p \notin S
    BY <1>1
  <1>5. Cardinality(S \cup {p}) = m + 1
    BY <1>3, <1>4, FS_AddElement
  <1>6. IsFiniteSet(seen \cup {p})
    BY FS_AddElement
  <1>7. S \cup {p} \subseteq seen \cup {p}
    BY <1>1 DEF m
  <1>8. /\ Cardinality(S \cup {p}) <= Cardinality(seen \cup {p})
        /\ Cardinality(seen \cup {p}) \in Nat
    BY <1>6, <1>7, FS_Subset, FS_CardinalityType
  <1> QED BY <1>1, <1>5, <1>8

(***************************************************************************)
(* An empty store, never used, satisfies the invariant.                    *)
(***************************************************************************)
LEMMA InitIsConsistent == Init => IInv
  <1> SUFFICES ASSUME Init PROVE IInv
    OBVIOUS
  <1> USE TrackedAssumption, OffsetAssumption
  <1>1. store.order = <<>> /\ store.offset = [p \in Paths |-> 0]
        /\ store = [order |-> store.order, offset |-> store.offset]
    BY DEF Init, EmptyStore
  <1>2. Len(store.order) = 0 /\ store.order \in Seq(Paths)
    BY <1>1
  <1>3. Tracked(store) = {}
    BY <1>2 DEF Tracked
  <1>4. Consistent(store)
    BY <1>1, <1>2 DEF Consistent, StoreTyped, Distinct
  <1>5. HistoryTyped
    BY FS_EmptySet DEF Init, HistoryTyped
  <1> QED BY <1>2, <1>3, <1>4, <1>5
          DEF Init, IInv, TrackedIsLatest, AheadWasUsed, EvictedIsOld

(***************************************************************************)
(* A use of a path, by a hit of Get or by Set, keeps the invariant.        *)
(***************************************************************************)
LEMMA UseKeepsConsistency ==
  ASSUME IInv, NEW p \in Paths, NEW o \in 0..MaxOffset,
         Uses(store, store', p, o), latest' = [latest EXCEPT ![p] = o], Used(p)
  PROVE  IInv'
  <1> USE TrackedAssumption, OffsetAssumption
  <1>1. HistoryTyped /\ Consistent(store) /\ Consistent(store')
    BY DEF IInv, Uses
  <1>2. /\ since' = [q \in Paths |-> IF q = p THEN {} ELSE since[q] \cup {p}]
        /\ \A q \in Paths : since[q] \in SUBSET Paths /\ IsFiniteSet(since[q])
    BY <1>1 DEF HistoryTyped, Used
  <1>3. HistoryTyped'
    <2>1. \A q \in Paths : IsFiniteSet(since'[q])
      BY <1>2, FS_EmptySet, FS_AddElement
    <2>2. latest' \in [Paths -> 0..MaxOffset]
      BY <1>1 DEF HistoryTyped
    <2> QED BY <1>2, <2>1, <2>2 DEF HistoryTyped
  <1>4. /\ store.order \in Seq(Paths) /\ store'.order \in Seq(Paths)
        /\ Tracked(store) \subseteq Paths /\ Tracked(store') \subseteq Paths
    <2>1. store.order \in Seq(Paths) /\ store'.order \in Seq(Paths)
      BY <1>1 DEF Consistent, StoreTyped
    <2>2. Tracked(store) \subseteq Paths
      BY <2>1 DEF Tracked
    <2>3. Tracked(store') \subseteq Paths
      BY <2>1 DEF Tracked
    <2> QED BY <2>1, <2>2, <2>3
  <1>5. TrackedIsLatest'
    <2> SUFFICES ASSUME NEW q \in Tracked(store')
                 PROVE  store'.offset[q] = latest'[q]
      BY DEF TrackedIsLatest, Tracked
    <2>1. CASE q = p
      BY <2>1, <1>1 DEF Uses, HistoryTyped
    <2>2. CASE q # p
      <3>1. q \in Tracked(store) /\ store'.offset[q] = store.offset[q]
        BY <2>2 DEF Uses
      <3>2. latest'[q] = latest[q]
        BY <2>2, <1>1, <1>4 DEF HistoryTyped
      <3> QED BY <3>1, <3>2 DEF IInv, TrackedIsLatest
    <2> QED BY <2>1, <2>2
  <1>6. AheadWasUsed'
    <2> SUFFICES ASSUME NEW j \in 1..Len(store'.order), NEW i \in 1..(j - 1)
                 PROVE  store'.order[i] \in since'[store'.order[j]]
      BY DEF AheadWasUsed
    <2>1. Len(store'.order) \in Nat /\ j \in 2..Len(store'.order)
      BY <1>4
    <2>2. PICK k \in 1..Len(store.order) :
            /\ store'.order[j] = store.order[k] /\ store.order[k] # p
            /\ \A h \in 1..(j - 1) :
                 \/ store'.order[h] = p
                 \/ \E g \in 1..(k - 1) : store'.order[h] = store.order[g]
      BY <2>1 DEF Uses, UsedFirst
    <2>3. store.order[k] \in Paths
      BY <1>4
    <2>4. since'[store.order[k]] = since[store.order[k]] \cup {p}
      BY <1>2, <2>2, <2>3
    <2>5. \A g \in 1..(k - 1) : store.order[g] \in since[store.order[k]]
      BY DEF IInv, AheadWasUsed
    <2> QED BY <2>2, <2>4, <2>5
  <1>7. EvictedIsOld'
    <2> SUFFICES ASSUME NEW q \in Paths, q \notin Tracked(store'), latest'[q] # 0
                 PROVE  Cardinality(since'[q]) >= MaxTracked
      BY DEF EvictedIsOld, Tracked
    <2>1. q # p
      <3>1. 1 \in 1..Len(store'.order) /\ store'.order[1] = p
        BY <1>4 DEF Uses, UsedFirst
      <3>2. p \in Tracked(store')
        BY <3>1 DEF Tracked
      <3> QED BY <3>2
    <2>2. since'[q] = since[q] \cup {p} /\ latest'[q] = latest[q]
      BY <2>1, <1>1, <1>2 DEF HistoryTyped
    <2>3. CASE q \in Tracked(store)
      <3>1. /\ p \notin Tracked(store)
            /\ Len(store.order) = MaxTracked /\ q = store.order[MaxTracked]
        BY <2>3 DEF Uses
      <3>2. \A i \in 1..(MaxTracked - 1) : store.order[i] \in since[q]
        BY <3>1 DEF IInv, AheadWasUsed
      <3>3. \A i \in 1..MaxTracked : store.order[i] # p
        BY <3>1 DEF Tracked
      <3>4. Distinct(store.order)
        BY <1>1 DEF Consistent
      <3> QED BY <3>1, <3>2, <3>3, <3>4, <2>2, <1>2, <1>4, EvictedHasSeen
    <2>4. CASE q \notin Tracked(store)
      <3>1. Cardinality(since[q]) >= MaxTracked
        BY <2>2, <2>4 DEF IInv, EvictedIsOld
      <3>2. IsFiniteSet(since[q]) /\ IsFiniteSet(since[q] \cup {p})
        BY <1>2, FS_AddElement
      <3>3. /\ Cardinality(since[q]) <= Cardinality(since[q] \cup {p})
            /\ Cardinality(since[q]) \in Nat
            /\ Cardinality(since[q] \cup {p}) \in Nat
        BY <3>2, FS_Subset, FS_CardinalityType
      <3> QED BY <3>1, <3>3, <2>2
    <2> QED BY <2>3, <2>4
  <1> QED BY <1>1, <1>3, <1>5, <1>6, <1>7 DEF IInv

(***************************************************************************)
(* The invariant holds throughout: a miss of Get changes nothing, and a    *)
(* hit is a use that sets the offset the path already has.                 *)
(***************************************************************************)
THEOREM StoreInvariant == Spec => []IInv
  <1> USE TrackedAssumption, OffsetAssumption
  <1>1. Init => IInv
    BY InitIsConsistent
  <1>2. IInv /\ [Next]_vars => IInv'
    <2> SUFFICES ASSUME IInv, [Next]_vars PROVE IInv'
      OBVIOUS
    <2>1. CASE UNCHANGED vars
      BY <2>1 DEF vars, IInv, Consistent, StoreTyped, HistoryTyped,
                  TrackedIsLatest, AheadWasUsed, EvictedIsOld, Tracked
    <2>2. ASSUME NEW p \in Paths, Get(p) PROVE IInv'
      <3>1. CASE p \notin Tracked(store)
        <4>1. UNCHANGED vars
          BY <2>2, <3>1 DEF Get, AfterGet, vars
        <4> QED BY <4>1, <2>1
                DEF vars, IInv, Consistent, StoreTyped, HistoryTyped,
                    TrackedIsLatest, AheadWasUsed, EvictedIsOld, Tracked
      <3>2. CASE p \in Tracked(store)
        <4>1. Uses(store, store', p, store.offset[p]) /\ Used(p) /\ latest' = latest
          BY <2>2, <3>2, GetUses DEF IInv, Get
        <4>2. store.offset[p] = latest[p] /\ latest[p] \in 0..MaxOffset
              /\ latest \in [Paths -> 0..MaxOffset]
          BY <3>2 DEF IInv, TrackedIsLatest, HistoryTyped
        <4>3. latest' = [latest EXCEPT ![p] = store.offset[p]]
          BY <4>1, <4>2
        <4> QED BY <4>1, <4>2, <4>3, UseKeepsConsistency
      <3> QED BY <3>1, <3>2
    <2>3. ASSUME NEW p \in Paths, NEW o \in 1..MaxOffset, Set(p, o) PROVE IInv'
      <3>1. o \in 0..MaxOffset
        OBVIOUS
      <3>2. Uses(store, store', p, o) /\ Used(p) /\ latest' = [latest EXCEPT ![p] = o]
        BY <2>3, <3>1, SetUses DEF IInv, Set
      <3> QED BY <3>1, <3>2, UseKeepsConsistency
    <2> QED BY <2>1, <2>2, <2>3 DEF Next
  <1> QED BY <1>1, <1>2, PTL DEF Spec

(***************************************************************************)
(* memoryOffsetStore keeps its types.                                      *)
(***************************************************************************)
THEOREM StoreTypeCorrect == Spec => []TypeOK
  <1>1. IInv => TypeOK
    BY DEF IInv, Consistent, StoreTyped, HistoryTyped, TypeOK
  <1> QED BY <1>1, StoreInvariant, PTL

(***************************************************************************)
(* IFC-007: the list never outgrows its bound, never names a path twice,   *)
(* and a path off the list keeps no offset.                                *)
(***************************************************************************)
THEOREM StoreIsBounded == Spec => []BoundedAndConsistent
  <1>1. IInv => BoundedAndConsistent
    BY DEF IInv, Consistent, Distinct, BoundedAndConsistent
  <1> QED BY <1>1, StoreInvariant, PTL

(***************************************************************************)
(* A path whose offset reads differently from what was last Set for it has *)
(* seen at least MaxTracked other paths used since.                        *)
(***************************************************************************)
THEOREM StoreKeepsRecent == Spec => []RecentlyUsedSurvives
  <1> USE TrackedAssumption
  <1>1. IInv => RecentlyUsedSurvives
    <2> SUFFICES ASSUME IInv, NEW p \in Paths, Cardinality(since[p]) < MaxTracked
                 PROVE  store.offset[p] = latest[p]
      BY DEF RecentlyUsedSurvives, OffsetOf
    <2>1. CASE p \in Tracked(store)
      BY <2>1 DEF IInv, TrackedIsLatest
    <2>2. CASE p \notin Tracked(store)
      <3>1. store.offset[p] = 0
        BY <2>2 DEF IInv, Consistent
      <3>2. latest[p] = 0 \/ Cardinality(since[p]) >= MaxTracked
        BY <2>2 DEF IInv, EvictedIsOld
      <3>3. Cardinality(since[p]) \in Nat
        BY FS_CardinalityType DEF IInv, HistoryTyped
      <3> QED BY <3>1, <3>2, <3>3
    <2> QED BY <2>1, <2>2
  <1> QED BY <1>1, StoreInvariant, PTL
=============================================================================
