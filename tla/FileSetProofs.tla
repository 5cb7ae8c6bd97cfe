--------------------------- MODULE FileSetProofs ---------------------------
(***************************************************************************)
(* Proofs about the FileSet reader, for any number of paths, files, bytes, *)
(* any read and buffer size, and any store capacity.                       *)
(***************************************************************************)
EXTENDS FileSet, FiniteSetTheorems, SequenceTheorems, WellFoundedInduction, TLAPS

(***************************************************************************)
(* The inductive strengthening of the type invariant: which of the session *)
(* variables say something at which point of the reader.                   *)
(***************************************************************************)
SessionShape ==
  /\ cur.path # 0 <=> cur.ino # 0
  /\ pc \in {"fill", "eof"} => cur.path # 0
  /\ pc \in {"scan", "open"} => cur.path = 0 /\ pending = <<>>
  /\ cur.path = 0 /\ ~flush => pending = <<>>
  /\ pc = "open" => target.path \in Paths
  /\ cur.path # 0 => Len(pending) <= cur.pos

\* TypeOK leaves the shape of the records it looks into to this conjunct.
StoreShape == store = [order |-> store.order, offset |-> store.offset]

TypeInv == TypeOK /\ StoreShape /\ SessionShape

(***************************************************************************)
(* The n elements of a sequence that follow its first a.                   *)
(***************************************************************************)
LEMMA Slice ==
  ASSUME NEW S, NEW s \in Seq(S), NEW a \in Nat, NEW n \in Nat, a + n <= Len(s)
  PROVE  /\ SubSeq(s, a + 1, a + n) \in Seq(S)
         /\ Len(SubSeq(s, a + 1, a + n)) = n
         /\ \A i \in 1..n : SubSeq(s, a + 1, a + n)[i] = s[a + i]
  <1> DEFINE b == a + 1
             c == a + n
  <1>1. /\ b \in Int /\ c \in Int /\ (c - b) + 1 = n /\ (b > c => n = 0)
        /\ \A i \in 1..n : (b + i) - 1 = a + i
    OBVIOUS
  <1>2. ASSUME NEW i \in b..c PROVE s[i] \in S
    <2>1. i \in 1..Len(s)
      OBVIOUS
    <2> QED BY <2>1
  <1> HIDE DEF b, c
  <1>3. /\ SubSeq(s, b, c) \in Seq(S) /\ Len(SubSeq(s, b, c)) = n
        /\ \A i \in 1..n : SubSeq(s, b, c)[i] = s[(b + i) - 1]
    BY <1>1, <1>2, SubSeqProperties
  <1> QED BY <1>1, <1>3 DEF b, c

(***************************************************************************)
(* The store operators keep the types of a store.                          *)
(***************************************************************************)
LEMMA AfterSetTyped ==
  ASSUME NEW s, s.order \in Seq(Paths), s.offset \in [Paths -> Nat],
         NEW p \in Paths, NEW o \in Nat
  PROVE  /\ AfterSet(s, p, o).order \in Seq(Paths)
         /\ AfterSet(s, p, o).offset \in [Paths -> Nat]
         /\ AfterSet(s, p, o) = [order  |-> AfterSet(s, p, o).order,
                                 offset |-> AfterSet(s, p, o).offset]
         /\ AfterSet(s, p, o).offset[p] = o
         /\ \A q \in Paths :
              q # p => AfterSet(s, p, o).offset[q] \in {0, s.offset[q]}
  <1> USE TrackedAssumption
  <1> DEFINE n == Len(s.order)
             t == AfterSet(s, p, o)
  <1>1. n \in Nat /\ \A i \in 1..n : s.order[i] \in Paths
    OBVIOUS
  <1>2. CASE p \in Tracked(s)
    <2> DEFINE m == MoveToFront(s, p)
    <2>1. t = [order |-> m, offset |-> [s.offset EXCEPT ![p] = o]]
      BY <1>2 DEF AfterSet
    <2>2. m \in Seq(Paths)
      <3>1. m = [i \in 1..n |-> IF i = 1 THEN p
                                ELSE IF i <= Place(s, p) THEN s.order[i-1]
                                ELSE s.order[i]]
        BY DEF MoveToFront
      <3>2. \A i \in 1..n : m[i] \in Paths
        BY <3>1, <1>1
      <3> QED BY <3>1, <3>2, <1>1
    <2> HIDE DEF m
    <2>3. t.order = m /\ t.offset = [s.offset EXCEPT ![p] = o]
      BY <2>1
    <2> HIDE DEF t
    <2> QED BY <2>1, <2>2, <2>3 DEF t
  <1>3. CASE p \notin Tracked(s)
    <2> DEFINE f == PushFront(s, p)
    <2>1. f \in Seq(Paths) /\ Len(f) = n + 1 /\ \A i \in 1..(n + 1) : f[i] \in Paths
      <3>1. f = [i \in 1..(n + 1) |-> IF i = 1 THEN p ELSE s.order[i-1]]
        BY DEF PushFront
      <3>2. \A i \in 1..(n + 1) : f[i] \in Paths
        BY <3>1, <1>1
      <3> QED BY <3>1, <3>2, <1>1
    <2> HIDE DEF f
    <2>2. CASE n < MaxTracked
      <3>1. t = [order |-> f, offset |-> [s.offset EXCEPT ![p] = o]]
        BY <1>3, <2>2 DEF AfterSet, f
      <3> HIDE DEF t
      <3>2. t.order = f /\ t.offset = [s.offset EXCEPT ![p] = o]
        BY <3>1
      <3> QED BY <2>1, <3>1, <3>2 DEF t
    <2>3. CASE ~(n < MaxTracked)
      <3>1. t = [order  |-> [i \in 1..MaxTracked |-> f[i]],
                 offset |-> [s.offset EXCEPT ![s.order[n]] = 0, ![p] = o]]
        BY <1>3, <2>3 DEF AfterSet, f
      <3> HIDE DEF t
      <3>2. /\ t.order = [i \in 1..MaxTracked |-> f[i]]
            /\ t.offset = [s.offset EXCEPT ![s.order[n]] = 0, ![p] = o]
        BY <3>1
      <3>3. [i \in 1..MaxTracked |-> f[i]] \in Seq(Paths)
        BY <2>1, <2>3, <1>1
      <3>4. s.order[n] \in Paths
        BY <2>3, <1>1
      <3>5. /\ t.offset \in [Paths -> Nat] /\ t.offset[p] = o
            /\ \A q \in Paths : q # p => t.offset[q] \in {0, s.offset[q]}
        <4> DEFINE last == s.order[n]
        <4>1. t.offset = [s.offset EXCEPT ![last] = 0, ![p] = o]
          BY <3>2
        <4>2. last \in Paths
          BY <3>4
        <4> HIDE DEF last, n
        <4>3. [s.offset EXCEPT ![last] = 0] \in [Paths -> Nat]
          BY <4>2
        <4> QED BY <4>1, <4>2, <4>3
      <3>6. t = [order |-> t.order, offset |-> t.offset]
        BY <3>1, <3>2
      <3> QED BY <3>2, <3>3, <3>5, <3>6 DEF t
    <2> QED BY <2>2, <2>3
  <1> QED BY <1>2, <1>3

\* A Get leaves a well-typed store behind.
LEMMA AfterGetTyped ==
  ASSUME NEW s, s.order \in Seq(Paths), s.offset \in [Paths -> Nat],
         s = [order |-> s.order, offset |-> s.offset], NEW p \in Paths
  PROVE  /\ AfterGet(s, p).order \in Seq(Paths)
         /\ AfterGet(s, p).offset = s.offset
         /\ AfterGet(s, p) = [order  |-> AfterGet(s, p).order,
                              offset |-> AfterGet(s, p).offset]
  <1> DEFINE n == Len(s.order)
             m == MoveToFront(s, p)
             t == AfterGet(s, p)
  <1>1. n \in Nat /\ \A i \in 1..n : s.order[i] \in Paths
    OBVIOUS
  <1>2. CASE p \notin Tracked(s)
    BY <1>2 DEF AfterGet
  <1>3. CASE p \in Tracked(s)
    <2>1. m = [i \in 1..n |-> IF i = 1 THEN p
                              ELSE IF i <= Place(s, p) THEN s.order[i-1]
                              ELSE s.order[i]]
      BY DEF MoveToFront
    <2>2. m \in Seq(Paths)
      <3>1. \A i \in 1..n : m[i] \in Paths
        BY <2>1, <1>1
      <3> QED BY <3>1, <2>1, <1>1
    <2> HIDE DEF m
    <2>3. t = [order |-> m, offset |-> s.offset]
      BY <1>3 DEF AfterGet, m
    <2> QED BY <2>2, <2>3
  <1> QED BY <1>2, <1>3
-----------------------------------------------------------------------------
(***************************************************************************)
(* The identity of an existing file has the type of an identity, and so    *)
(* has the empty one.                                                      *)
(***************************************************************************)
LEMMA IdentifyTyped ==
  ASSUME TypeOK, NEW p \in Existing
  PROVE  /\ Identify(p) \in Identities
         /\ ContentOf(p) \in Seq(Byte) /\ Len(ContentOf(p)) \in Nat
  <1> USE FileSetAssumption
  <1>1. p \in Paths /\ dir[p] \in Inodes /\ ContentOf(p) \in Seq(Byte)
    BY DEF TypeOK, Existing, ContentOf, Inodes
  <1>2. Len(ContentOf(p)) \in Nat
    BY <1>1
  <1> DEFINE m == MinOf(HeadSize, Len(ContentOf(p)))
  <1>3. m \in 0..Len(ContentOf(p))
    BY <1>2 DEF MinOf
  <1> HIDE DEF m
  <1>4. SubSeq(ContentOf(p), 1, m) \in Seq(Byte)
    BY <1>1, <1>3
  <1> QED BY <1>1, <1>2, <1>4 DEF Identify, Identities, m

\* The store a process starts with is well typed.
LEMMA EmptyTyped ==
  /\ NoId \in Identities
  /\ NoFile \in [path : {0} \cup Paths, ino : {0} \cup Inodes, id : Identities, pos : Nat]
  /\ NoTarget \in [path : {0} \cup Paths, offset : Nat, id : Identities]
  /\ EmptyStore.order \in Seq(Paths) /\ EmptyStore.offset \in [Paths -> Nat]
  /\ EmptyStore = [order |-> EmptyStore.order, offset |-> EmptyStore.offset]
  /\ NoFile.path = 0 /\ NoFile.ino = 0
  BY DEF NoId, NoFile, NoTarget, EmptyStore, Identities

\* 0 names no path and no file.
LEMMA ZeroIsNothing == 0 \notin Paths /\ 0 \notin Inodes /\ Paths \subseteq Nat
  <1>1. Cardinality(Paths) \in Nat /\ Paths = 1..Cardinality(Paths)
    BY FS_CardinalityType, FileSetAssumption
  <1> QED BY <1>1, FileSetAssumption DEF Inodes

\* A set of numbers has a least element.
LEMMA LeastOf ==
  ASSUME NEW S, S \subseteq Nat, S # {}
  PROVE  Min(S) \in S /\ \A y \in S : Min(S) <= y
  <1> DEFINE R == OpToRel(<, Nat)
  <1>1. R = {ss \in Nat \X Nat : ss[1] < ss[2]}
    BY DEF OpToRel
  <1>2. IsWellFoundedOn(R, Nat)
    BY NatLessThanWellFounded
  <1> HIDE DEF R
  <1>3. PICK x \in S : \A y \in S : ~(<<y, x>> \in R)
    BY <1>2, WFMin
  <1>4. ASSUME NEW y \in S PROVE x <= y
    <2>1. <<y, x>> \in Nat \X Nat /\ ~(<<y, x>> \in R)
      BY <1>3
    <2>2. ~(y < x)
      BY <2>1, <1>1
    <2> QED BY <2>2
  <1>5. \E z \in S : \A y \in S : z <= y
    BY <1>4
  <1> QED BY <1>5, Zenon DEF Min

\* A bounded set of numbers has a greatest one.
LEMMA GreatestOf ==
  ASSUME NEW n \in Nat, NEW S, S \subseteq 1..n, S # {}
  PROVE  Max(S) \in S /\ \A y \in S : y <= Max(S)
  <1> DEFINE T == {n - x : x \in S}
  <1>1. T \subseteq Nat /\ T # {}
    <2>1. \A x \in S : n - x \in Nat
      OBVIOUS
    <2> QED BY <2>1
  <1>2. Min(T) \in T /\ \A y \in T : Min(T) <= y
    BY <1>1, LeastOf
  <1>3. PICK x \in S : n - x = Min(T)
    BY <1>2
  <1>4. ASSUME NEW y \in S PROVE y <= x
    <2>1. n - y \in T
      OBVIOUS
    <2>2. n - x <= n - y
      BY <2>1, <1>2, <1>3
    <2> QED BY <2>2
  <1>5. \E z \in S : \A y \in S : z >= y
    BY <1>4
  <1>6. Max(S) \in S /\ \A y \in S : Max(S) >= y
    BY <1>5, Zenon DEF Max
  <1> QED BY <1>6

(***************************************************************************)
(* What the server does keeps the types.                                   *)
(***************************************************************************)
LEMMA ServerKeepsTypes ==
  ASSUME TypeInv, Server
  PROVE  TypeInv'
  <1> USE FileSetAssumption DEF TypeInv
  <1>0. /\ active \in Paths /\ dir[active] \in Inodes /\ \A i \in Inodes : i # 0
        /\ \A p \in Existing : p \in Paths /\ dir[p] \in Inodes
        /\ 0 \notin Paths
    <2>1. active \in Existing /\ dir \in [Paths -> {0} \cup Inodes]
      BY DEF TypeOK
    <2> QED BY <2>1, ZeroIsNothing DEF Existing
  <1> USE DEF SessionShape, StoreShape, server, fileSet, reader
  <1>1. CASE Append1
    <2>1. PICK nl \in BOOLEAN :
            disk' = [disk EXCEPT ![dir[active]] =
                       Append(@, [id |-> written + 1, nl |-> nl])]
      BY <1>1 DEF Append1
    <2>2. written + 1 \in 1..MaxBytes
      BY <1>1 DEF Append1, TypeOK
    <2>3. [id |-> written + 1, nl |-> nl] \in Byte
      BY <2>2 DEF Byte
    <2>4. Append(disk[dir[active]], [id |-> written + 1, nl |-> nl]) \in Seq(Byte)
      BY <2>3, <1>0 DEF TypeOK
    <2>5. disk' \in [Inodes -> Seq(Byte)]
      BY <2>1, <2>4, <1>0 DEF TypeOK
    <2>6. UNCHANGED <<dir, active, fileSet, reader, out>> /\ written' = written + 1
      BY <1>1 DEF Append1
    <2>7. written' \in 0..MaxBytes /\ active' \in Existing'
      BY <2>2, <2>6 DEF TypeOK, Existing
    <2>8. TypeOK'
      BY <2>5, <2>6, <2>7 DEF TypeOK
    <2> QED BY <2>6, <2>8
  <1>2. CASE Rotate
    <2>1. PICK i \in FreeInodes : dir' = [dir EXCEPT ![active + 1] = i]
      BY <1>2 DEF Rotate
    <2>2. i \in Inodes /\ active + 1 \in Paths /\ active' = active + 1
      BY <1>2 DEF Rotate, FreeInodes
    <2>3. dir' \in [Paths -> {0} \cup Inodes] /\ active' \in {p \in Paths : dir'[p] # 0}
      BY <2>1, <2>2, <1>0 DEF TypeOK
    <2> QED BY <2>3, <1>2 DEF Rotate, TypeOK, Existing
  <1>3. CASE Rename
    <2>1. PICK i \in FreeInodes : dir' = [dir EXCEPT ![active] = i]
      BY <1>3 DEF Rename
    <2>2. i \in Inodes
      BY DEF FreeInodes
    <2>3. dir' \in [Paths -> {0} \cup Inodes] /\ active \in {p \in Paths : dir'[p] # 0}
      BY <2>1, <2>2, <1>0 DEF TypeOK
    <2> QED BY <2>3, <1>3 DEF Rename, TypeOK, Existing
  <1>4. CASE Truncate
    <2>1. disk' \in [Inodes -> Seq(Byte)]
      BY <1>4, <1>0 DEF Truncate, TypeOK
    <2> QED BY <2>1, <1>4 DEF Truncate, TypeOK, Existing
  <1>5. CASE Reuse
    <2>1. PICK p \in Existing \ {active} :
            active' = p /\ disk' = [disk EXCEPT ![dir[p]] = <<>>]
      BY <1>5 DEF Reuse
    <2>2. disk' \in [Inodes -> Seq(Byte)]
      BY <2>1, <1>0 DEF TypeOK
    <2> QED BY <2>1, <2>2, <1>5 DEF Reuse, TypeOK, Existing
  <1>6. CASE Remove
    <2>1. PICK p \in Existing \ {active} : dir' = [dir EXCEPT ![p] = 0]
      BY <1>6 DEF Remove
    <2>2. dir' \in [Paths -> {0} \cup Inodes] /\ active \in {q \in Paths : dir'[q] # 0}
      BY <2>1, <1>0 DEF TypeOK
    <2> QED BY <2>2, <1>6 DEF Remove, TypeOK, Existing
  <1> QED BY <1>1, <1>2, <1>3, <1>4, <1>5, <1>6 DEF Server

(***************************************************************************)
(* The steps that start, cancel and end a session keep the types.          *)
(***************************************************************************)
LEMMA SessionKeepsTypes ==
  ASSUME TypeInv,
         Open \/ ReadCall \/ Cancel \/ ReadCancelled \/ Close \/ Restart
  PROVE  TypeInv'
  <1> USE DEF TypeInv, server, fileSet, reader
  <1>1. /\ {} \in SUBSET Paths /\ <<>> \in Seq(Byte)
        /\ FollowModes \subseteq BOOLEAN
    BY FileSetAssumption
  <1>2. ASSUME cur' = NoFile, target' = NoTarget, done' = {}, todo' = {},
               pending' = <<>>, flush' = FALSE, cancelled' = FALSE,
               follow' \in BOOLEAN, pc' \in {"none", "idle"}, UNCHANGED server,
               UNCHANGED out, UNCHANGED store \/ store' = EmptyStore,
               ids' \in [Paths -> Identities]
        PROVE  TypeInv'
    <2>1. /\ store'.order \in Seq(Paths) /\ store'.offset \in [Paths -> Nat]
          /\ store' = [order |-> store'.order, offset |-> store'.offset]
      <3>1. CASE UNCHANGED store
        BY <3>1 DEF TypeOK, StoreShape
      <3>2. CASE store' = EmptyStore
        BY <3>2, EmptyTyped
      <3> QED BY <1>2, <3>1, <3>2
    <2>2. SessionShape'
      BY <1>2, EmptyTyped DEF SessionShape
    <2>3. active' \in Existing'
      BY <1>2 DEF TypeOK, Existing
    <2>4. TypeOK'
      BY <1>1, <1>2, <2>1, <2>3, EmptyTyped DEF TypeOK
    <2> QED BY <2>1, <2>2, <2>4 DEF StoreShape
  <1>3. CASE Open
    BY <1>1, <1>2, <1>3 DEF Open, TypeOK
  <1>4. CASE Close
    BY <1>2, <1>4 DEF Close, Reset, TypeOK
  <1>5. CASE Restart
    BY <1>2, <1>5, EmptyTyped DEF Restart, Reset, TypeOK
  <1>6. CASE ReadCall
    BY <1>6 DEF ReadCall, TypeOK, SessionShape, StoreShape, Existing
  <1>7. CASE Cancel
    BY <1>7 DEF Cancel, TypeOK, SessionShape, StoreShape, Existing
  <1>8. CASE ReadCancelled
    BY <1>8 DEF ReadCancelled, TypeOK, SessionShape, StoreShape, Existing
  <1> QED BY <1>3, <1>4, <1>5, <1>6, <1>7, <1>8

(***************************************************************************)
(* Looking through the directory and opening a file keep the types.        *)
(***************************************************************************)
LEMMA ScanKeepsTypes ==
  ASSUME TypeInv, StartScan \/ ScanPath \/ ScanEnd \/ OpenTarget
  PROVE  TypeInv'
  <1> USE FileSetAssumption, EmptyTyped
      DEF TypeInv, SessionShape, StoreShape, server, fileSet, reader
  <1>1. CASE StartScan
    <2>1. pending = <<>>
      <3>1. pending \in Seq(Byte) /\ (flush => Len(pending) = 0)
        BY <1>1 DEF StartScan, Deliverable, Eligible, TypeOK
      <3> QED BY <3>1, <1>1 DEF StartScan, TypeOK
    <2> QED BY <2>1, <1>1 DEF StartScan, TypeOK, Existing
  <1>2. CASE ScanEnd
    BY <1>2 DEF ScanEnd, TypeOK, Existing
  <1>3. CASE ScanPath
    <2> DEFINE p == Min(todo)
    <2>1. p \in Paths
      BY <1>3, ZeroIsNothing, LeastOf DEF ScanPath, TypeOK
    <2>2. /\ todo' = todo \ {p}
          /\ store' = IF p \in done THEN store ELSE AfterGet(store, p)
          /\ IF p \in done \/ dir[p] = 0 \/ NothingNew(p, OffsetOf(store, p))
             THEN UNCHANGED <<pc, target>>
             ELSE /\ pc' = "open"
                  /\ target' = [path |-> p, offset |-> StartOffset(p, OffsetOf(store, p)),
                                id |-> Identify(p)]
          /\ pc = "scan"
          /\ UNCHANGED <<server, ids, follow, cancelled, cur, done, pending, flush, out>>
      BY <1>3 DEF ScanPath
    <2>3. /\ store'.order \in Seq(Paths) /\ store'.offset \in [Paths -> Nat]
          /\ store' = [order |-> store'.order, offset |-> store'.offset]
      <3>1. store.order \in Seq(Paths) /\ store.offset \in [Paths -> Nat]
        BY DEF TypeOK
      <3> QED BY <2>1, <2>2, <3>1, AfterGetTyped
    <2>4. /\ target' \in [path : {0} \cup Paths, offset : Nat, id : Identities]
          /\ pc' \in {"scan", "open"} /\ (pc' = "open" => target'.path \in Paths)
      <3>1. CASE p \in done \/ dir[p] = 0 \/ NothingNew(p, OffsetOf(store, p))
        BY <2>2, <3>1 DEF TypeOK
      <3>2. CASE ~(p \in done \/ dir[p] = 0 \/ NothingNew(p, OffsetOf(store, p)))
        <4>1. p \in Existing
          BY <2>1, <3>2 DEF Existing
        <4>2. OffsetOf(store, p) \in Nat
          BY <2>1 DEF OffsetOf, TypeOK
        <4>3. StartOffset(p, OffsetOf(store, p)) \in Nat
          BY <4>2 DEF StartOffset
        <4>4. Identify(p) \in Identities
          BY <4>1, IdentifyTyped
        <4> QED BY <2>1, <2>2, <3>2, <4>3, <4>4
      <3> QED BY <3>1, <3>2
    <2>5. SessionShape'
      BY <2>2, <2>4
    <2> HIDE DEF p
    <2> QED BY <2>2, <2>3, <2>4, <2>5 DEF TypeOK, Existing
  <1>4. CASE OpenTarget
    <2> DEFINE p == target.path
    <2>1. p \in Paths
      BY <1>4 DEF OpenTarget
    <2>2. CASE dir[p] = 0
      BY <2>2, <1>4 DEF OpenTarget, TypeOK, Existing
    <2>3. CASE dir[p] # 0
      <3>1. p \in Existing /\ dir[p] \in Inodes
        BY <2>1, <2>3 DEF Existing, TypeOK
      <3>2. target.id \in Identities /\ target.offset \in Nat
        BY DEF TypeOK
      <3>3. StartPosition(ContentOf(p), target.offset) \in Nat
        BY <3>2 DEF StartPosition
      <3> DEFINE c == [path |-> p, ino |-> dir[p], id |-> target.id,
                       pos |-> StartPosition(ContentOf(p), target.offset)]
      <3>4. c \in [path : {0} \cup Paths, ino : {0} \cup Inodes,
                   id : Identities, pos : Nat] /\ c.path # 0 /\ c.ino # 0
        BY <3>1, <3>2, <3>3, <2>1, ZeroIsNothing
      <3>5. ids' \in [Paths -> Identities]
        BY <1>4, <2>3, <3>2 DEF OpenTarget, Remember, TypeOK
      <3> HIDE DEF c
      <3>6. cur' = c /\ pc' = "fill" /\ todo' = {} /\ target' = NoTarget
            /\ UNCHANGED <<server, store, follow, cancelled, done, pending, flush, out>>
        BY <1>4, <2>3 DEF OpenTarget, c
      <3>7. pending = <<>> /\ Len(pending) = 0
        BY <1>4 DEF OpenTarget
      <3>8. SessionShape'
        BY <3>4, <3>6, <3>7
      <3>9. TypeOK'
        BY <3>4, <3>5, <3>6 DEF TypeOK, Existing
      <3> QED BY <3>6, <3>8, <3>9
    <2> QED BY <2>2, <2>3
  <1> QED BY <1>1, <1>2, <1>3, <1>4

(***************************************************************************)
(* drainPending never delivers more than is held.                          *)
(***************************************************************************)
LEMMA EligibleBounded ==
  ASSUME NEW bytes \in Seq(Byte), NEW finished \in BOOLEAN
  PROVE  Eligible(bytes, finished) \in 0..Len(bytes)
  <1>1. Len(bytes) \in Nat
    OBVIOUS
  <1>2. LastNewline(bytes) \in 0..Len(bytes)
    <2>1. Newlines(bytes) \subseteq 1..Len(bytes)
      BY DEF Newlines
    <2>2. Newlines(bytes) # {} => Max(Newlines(bytes)) \in Newlines(bytes)
      BY <1>1, <2>1, GreatestOf
    <2> QED BY <1>1, <2>1, <2>2 DEF LastNewline
  <1> QED BY <1>1, <1>2 DEF Eligible

(***************************************************************************)
(* What a delivery of size bytes does to the lengths involved.             *)
(***************************************************************************)
LEMMA DeliverLengths ==
  ASSUME TypeOK, NEW size \in BufSizes, Deliver(size)
  PROVE  LET n == MinOf(size, Deliverable)
         IN /\ n \in 0..Len(pending)
            /\ pending' = SubSeq(pending, n + 1, Len(pending))
            /\ pending' \in Seq(Byte)
            /\ Len(pending') = Len(pending) - n
            /\ \A i \in 1..Len(pending') : pending'[i] = pending[n + i]
            /\ out' = out \o [i \in 1..n |-> pending[i].id]
            /\ out' \in Seq(Nat)
  <1> USE FileSetAssumption
  <1> DEFINE n == MinOf(size, Deliverable)
             l == Len(pending)
             ids1 == [i \in 1..n |-> pending[i].id]
  <1>1. pending \in Seq(Byte) /\ flush \in BOOLEAN /\ l \in Nat /\ out \in Seq(Nat)
    BY DEF TypeOK
  <1>2. Deliverable \in 0..l
    BY <1>1, EligibleBounded DEF Deliverable
  <1>3. n \in 0..l
    BY <1>1, <1>2 DEF MinOf
  <1>4. pending' = SubSeq(pending, n + 1, l) /\ out' = out \o ids1
    BY DEF Deliver
  <1> HIDE DEF n
  <1>5. /\ pending' \in Seq(Byte) /\ Len(pending') = l - n
        /\ \A i \in 1..(l - n) : pending'[i] = pending[n + i]
    <2>1. n + 1 \in 1..(l + 1) /\ l \in 0..l
      BY <1>1, <1>3
    <2>2. \A i \in 1..l : pending[i] \in Byte
      BY <1>1
    <2>3. pending' = [i \in 1..(l - n) |-> pending[n + i]]
      <3>1. Len(pending') = l - n /\ pending' \in Seq(Byte)
        BY <1>1, <1>3, <1>4, <2>1
      <3>2. \A i \in 1..(l - n) : pending'[i] = pending[n + i]
        BY <1>1, <1>3, <1>4
      <3> QED BY <3>1, <3>2
    <2> QED BY <1>1, <1>3, <2>2, <2>3
  <1>6. ids1 \in Seq(Nat)
    <2>1. \A i \in 1..n : pending[i].id \in Nat
      <3>1. \A i \in 1..n : pending[i] \in Byte
        BY <1>1, <1>3
      <3>2. \A b \in Byte : b.id \in Nat
        BY DEF Byte
      <3> QED BY <3>1, <3>2
    <2> QED BY <2>1, <1>3
  <1>7. out' \in Seq(Nat)
    BY <1>1, <1>4, <1>6
  <1> QED BY <1>3, <1>4, <1>5, <1>7 DEF n

(***************************************************************************)
(* What reading a block of the open file does to the lengths involved.     *)
(***************************************************************************)
LEMMA FillLengths ==
  ASSUME TypeInv, FillBlock
  PROVE  LET content == disk[cur.ino]
             n == MinOf(ReadSize, Len(content) - cur.pos)
         IN /\ cur.path # 0 /\ cur.ino \in Inodes
            /\ content \in Seq(Byte) /\ Len(content) \in Nat
            /\ n \in 1..(Len(content) - cur.pos)
            /\ cur' = [cur EXCEPT !.pos = @ + n]
            /\ pending' \in Seq(Byte)
            /\ Len(pending') = Len(pending) + n
            /\ \A i \in 1..Len(pending) : pending'[i] = pending[i]
            /\ \A i \in 1..n : pending'[Len(pending) + i] = content[cur.pos + i]
  <1> USE FileSetAssumption
  <1> DEFINE content == disk[cur.ino]
             n == MinOf(ReadSize, Len(content) - cur.pos)
             block == SubSeq(content, cur.pos + 1, cur.pos + n)
             l == Len(pending)
  <1>1. cur.path # 0 /\ cur.ino \in Inodes /\ cur.pos \in Nat
    <2>1. cur.path # 0
      BY DEF FillBlock, Filling, TypeInv, SessionShape
    <2>2. cur.ino \in {0} \cup Inodes /\ cur.pos \in Nat
      BY DEF TypeInv, TypeOK
    <2> QED BY <2>1, <2>2 DEF TypeInv, SessionShape
  <1>2. content \in Seq(Byte) /\ pending \in Seq(Byte)
    BY <1>1 DEF TypeInv, TypeOK
  <1>3. Len(content) \in Nat /\ l \in Nat /\ cur.pos < Len(content)
    BY <1>2 DEF FillBlock
  <1>4. n \in 1..(Len(content) - cur.pos)
    BY <1>1, <1>3 DEF MinOf
  <1>5. pending' = pending \o block /\ cur' = [cur EXCEPT !.pos = @ + n]
    BY DEF FillBlock
  <1> HIDE DEF n, content
  <1>6. /\ block \in Seq(Byte) /\ Len(block) = n
        /\ \A i \in 1..n : block[i] = content[cur.pos + i]
    <2>1. n \in Nat /\ cur.pos + n <= Len(content)
      BY <1>1, <1>3, <1>4
    <2>2. (cur.pos + 1) \in Int /\ block = SubSeq(content, cur.pos + 1, cur.pos + n)
      BY <1>1
    <2> HIDE DEF block
    <2> DEFINE a == cur.pos
    <2>3. a \in Nat /\ a + n <= Len(content) /\ block = SubSeq(content, a + 1, a + n)
      BY <1>1, <2>1, <2>2
    <2>4. \A i \in 1..n : content[cur.pos + i] = content[a + i]
      OBVIOUS
    <2> HIDE DEF a
    <2> QED BY ONLY <1>2, <2>1, <2>3, <2>4, Slice
  <1> HIDE DEF block
  <1>7. /\ pending' \in Seq(Byte) /\ Len(pending') = l + n
        /\ \A i \in 1..l : pending'[i] = pending[i]
        /\ \A i \in 1..n : pending'[l + i] = block[i]
    <2>1. n \in Nat
      BY <1>1, <1>3, <1>4
    <2> HIDE DEF l
    <2>2. pending' \in Seq(Byte)
      BY <1>2, <1>5, <1>6
    <2>3. /\ Len(pending') = l + n
          /\ \A i \in 1..(l + n) : pending'[i] = IF i <= l THEN pending[i] ELSE block[i - l]
      <3>1. l = Len(pending)
        BY DEF l
      <3>2. pending \in Seq(Byte) /\ block \in Seq(Byte) /\ Len(block) = n
        BY <1>2, <1>6
      <3> DEFINE both == pending \o block
      <3>3. pending' = both
        BY <1>5
      <3>4. /\ Len(both) = Len(pending) + Len(block)
            /\ \A i \in 1..(Len(pending) + Len(block)) :
                 both[i] = IF i <= Len(pending) THEN pending[i] ELSE block[i - Len(pending)]
        BY ONLY <3>2, ConcatProperties
      <3> HIDE DEF both
      <3> QED BY <3>1, <3>2, <3>3, <3>4
    <2>4. \A i \in 1..l : pending'[i] = pending[i]
      BY <1>3, <2>1, <2>3
    <2>5. ASSUME NEW i \in 1..n PROVE pending'[l + i] = block[i]
      <3>1. l + i \in 1..(l + n) /\ ~(l + i <= l) /\ (l + i) - l = i
        BY <1>3, <2>1
      <3> QED BY <2>3, <3>1
    <2> QED BY <2>2, <2>3, <2>4, <2>5
  <1> QED BY <1>1, <1>2, <1>3, <1>4, <1>5, <1>6, <1>7 DEF n, content

(***************************************************************************)
(* Delivering, reading and closing a file keep the types.                  *)
(***************************************************************************)
LEMMA ReadKeepsTypes ==
  ASSUME TypeInv,
         (\E size \in BufSizes : Deliver(size)) \/ FillBlock \/ FillEnd \/ AtEndOfFile
  PROVE  TypeInv'
  <1> USE DEF TypeInv, server, fileSet, reader
  <1>0. /\ store.order \in Seq(Paths) /\ store.offset \in [Paths -> Nat]
        /\ store = [order |-> store.order, offset |-> store.offset]
        /\ pending \in Seq(Byte) /\ Len(pending) \in Nat /\ cur.pos \in Nat
        /\ cur.path \in {0} \cup Paths /\ done \in SUBSET Paths
    BY DEF TypeOK, StoreShape
  <1>1. ASSUME NEW size \in BufSizes, Deliver(size) PROVE TypeInv'
    <2> DEFINE n == MinOf(size, Deliverable)
               rest == SubSeq(pending, n + 1, Len(pending))
    <2>1. /\ n \in 0..Len(pending) /\ pending' \in Seq(Byte) /\ pending' = rest
          /\ Len(pending') = Len(pending) - n /\ out' \in Seq(Nat)
      BY <1>1, DeliverLengths
    <2>2. /\ store' = IF cur.path = 0 THEN store
                      ELSE AfterSet(store, cur.path, OffsetAfterDelivery(cur.pos, rest))
          /\ pc' = "idle"
          /\ UNCHANGED <<server, ids, follow, cancelled, cur, done, flush, todo, target>>
      BY <1>1 DEF Deliver
    <2> HIDE DEF n, rest
    <2>3. /\ store'.order \in Seq(Paths) /\ store'.offset \in [Paths -> Nat]
          /\ store' = [order |-> store'.order, offset |-> store'.offset]
      <3>1. CASE cur.path = 0
        BY <3>1, <1>0, <2>2
      <3>2. CASE cur.path # 0
        <4>1. OffsetAfterDelivery(cur.pos, rest) \in Nat
          BY <3>2, <1>0, <2>1 DEF OffsetAfterDelivery, SessionShape
        <4> DEFINE p == cur.path
                   o == OffsetAfterDelivery(cur.pos, rest)
        <4>2. p \in Paths /\ o \in Nat /\ store' = AfterSet(store, p, o)
          BY <3>2, <4>1, <1>0, <2>2
        <4> HIDE DEF p, o
        <4>3. /\ AfterSet(store, p, o).order \in Seq(Paths)
              /\ AfterSet(store, p, o).offset \in [Paths -> Nat]
              /\ AfterSet(store, p, o) = [order  |-> AfterSet(store, p, o).order,
                                          offset |-> AfterSet(store, p, o).offset]
          <5>1. store.order \in Seq(Paths) /\ store.offset \in [Paths -> Nat]
            BY <1>0
          <5> QED BY ONLY <5>1, <4>2, AfterSetTyped
        <4> QED BY ONLY <4>2, <4>3
      <3> QED BY <3>1, <3>2
    <2>4. SessionShape'
      <3>1. cur'.path # 0 => Len(pending') <= cur'.pos
        BY <1>0, <2>1, <2>2 DEF SessionShape
      <3>2. cur'.path = 0 /\ ~flush' => pending' = <<>>
        <4> SUFFICES ASSUME cur.path = 0, ~flush PROVE pending' = <<>>
          BY <2>2
        <4>1. Len(pending) = 0
          BY DEF SessionShape
        <4>2. n = 0 /\ Len(pending') = 0
          <5>1. n \in 0..0
            BY <4>1, <2>1
          <5>2. n = 0
            BY <5>1
          <5> QED BY <4>1, <5>2, <2>1
        <4> QED BY <4>2, <2>1
      <3> QED BY <3>1, <3>2, <2>2 DEF SessionShape
    <2> QED BY <2>1, <2>2, <2>3, <2>4 DEF TypeOK, Existing, StoreShape
  <1>2. CASE FillBlock
    <2> DEFINE n == MinOf(ReadSize, Len(disk[cur.ino]) - cur.pos)
    <2>1. /\ n \in Nat /\ cur.path # 0 /\ cur' = [cur EXCEPT !.pos = @ + n]
          /\ pending' \in Seq(Byte) /\ Len(pending') = Len(pending) + n
      BY <1>0, <1>2, FillLengths
    <2>2. /\ pc' = "loop"
          /\ UNCHANGED <<server, fileSet, follow, cancelled, done, flush, todo, target, out>>
      BY <1>2 DEF FillBlock
    <2> HIDE DEF n
    <2>3. /\ cur' \in [path : {0} \cup Paths, ino : {0} \cup Inodes,
                       id : Identities, pos : Nat]
          /\ cur'.path = cur.path /\ cur'.ino = cur.ino /\ cur'.pos = cur.pos + n
      <3>1. /\ cur \in [path : {0} \cup Paths, ino : {0} \cup Inodes,
                        id : Identities, pos : Nat]
            /\ cur.pos + n \in Nat
        BY <1>0, <2>1 DEF TypeOK
      <3> QED BY <2>1, <3>1
    <2>4. SessionShape'
      BY <1>0, <2>1, <2>2, <2>3 DEF SessionShape
    <2> QED BY <2>1, <2>2, <2>3, <2>4 DEF TypeOK, Existing, StoreShape
  <1>3. ASSUME CloseCurrent, cur.path # 0, pc' = "loop",
               UNCHANGED <<server, ids, follow, cancelled, pending, todo, target, out>>
        PROVE  TypeInv'
    <2>1. /\ store'.order \in Seq(Paths) /\ store'.offset \in [Paths -> Nat]
          /\ store' = [order |-> store'.order, offset |-> store'.offset]
      <3>1. store' = AfterSet(store, cur.path, cur.pos)
        BY <1>3 DEF CloseCurrent, OffsetAtClose
      <3>2. cur.path \in Paths /\ cur.pos \in Nat
        BY <1>0, <1>3
      <3> DEFINE p == cur.path
                 o == cur.pos
      <3>3. p \in Paths /\ o \in Nat /\ store' = AfterSet(store, p, o)
        BY <3>1, <3>2
      <3> HIDE DEF p, o
      <3>4. /\ AfterSet(store, p, o).order \in Seq(Paths)
            /\ AfterSet(store, p, o).offset \in [Paths -> Nat]
            /\ AfterSet(store, p, o) = [order  |-> AfterSet(store, p, o).order,
                                        offset |-> AfterSet(store, p, o).offset]
        <4>1. store.order \in Seq(Paths) /\ store.offset \in [Paths -> Nat]
          BY <1>0
        <4> QED BY ONLY <4>1, <3>3, AfterSetTyped
      <3> QED BY ONLY <3>3, <3>4
    <2>2. cur' = NoFile /\ flush' = TRUE /\ done' \in SUBSET Paths
      BY <1>0, <1>3 DEF CloseCurrent
    <2>3. SessionShape'
      BY <1>3, <2>2, EmptyTyped DEF SessionShape
    <2> QED BY <1>3, <2>1, <2>2, <2>3, EmptyTyped DEF TypeOK, Existing, StoreShape
  <1>4. CASE FillEnd
    <2>1. cur.path # 0
      BY <1>4 DEF FillEnd, Filling, SessionShape
    <2>2. CASE follow
      BY <1>4, <2>1, <2>2 DEF FillEnd, TypeOK, Existing, StoreShape, SessionShape
    <2>3. CASE ~follow
      BY <1>4, <2>1, <2>3, <1>3 DEF FillEnd
    <2> QED BY <2>2, <2>3
  <1>5. CASE AtEndOfFile
    <2>1. cur.path # 0
      BY <1>5 DEF AtEndOfFile, SessionShape
    <2>2. CASE IsNewestFile /\ ~CurrentFileWasReplaced
      BY <1>5, <2>1, <2>2 DEF AtEndOfFile, TypeOK, Existing, StoreShape, SessionShape
    <2>3. CASE ~(IsNewestFile /\ ~CurrentFileWasReplaced)
      BY <1>5, <2>1, <2>3, <1>3 DEF AtEndOfFile
    <2> QED BY <2>2, <2>3
  <1> QED BY <1>1, <1>2, <1>4, <1>5

(***************************************************************************)
(* The types hold throughout, for every combination of options, read and   *)
(* buffer sizes, and whatever the server does to the files.                *)
(***************************************************************************)
LEMMA TypeInvHolds == Spec => []TypeInv
  <1>1. Init => TypeInv
    <2> SUFFICES ASSUME Init PROVE TypeInv
      OBVIOUS
    <2> USE FileSetAssumption
    <2>1. /\ 1 \in Inodes /\ 0 # 1 /\ 1 \in Paths
          /\ <<>> \in Seq(Byte) /\ <<>> \in Seq(Nat)
      BY DEF Inodes
    <2>2. active \in Existing /\ dir \in [Paths -> {0} \cup Inodes]
      BY <2>1 DEF Init, Existing
    <2>3. store.order \in Seq(Paths) /\ store.offset \in [Paths -> Nat] /\ StoreShape
      BY EmptyTyped DEF Init, StoreShape
    <2>4. SessionShape
      BY EmptyTyped DEF Init, SessionShape
    <2>5. /\ disk \in [Inodes -> Seq(Byte)] /\ ids \in [Paths -> Identities]
          /\ written \in 0..MaxBytes
      BY <2>1, EmptyTyped DEF Init
    <2>6. /\ pc = "none" /\ follow = FALSE /\ cancelled = FALSE /\ flush = FALSE
          /\ cur = NoFile /\ target = NoTarget
          /\ done = {} /\ todo = {} /\ pending = <<>> /\ out = <<>>
      BY DEF Init
    <2>7. TypeOK
      BY <2>1, <2>2, <2>3, <2>5, <2>6, EmptyTyped DEF TypeOK
    <2> QED BY <2>3, <2>4, <2>7 DEF TypeInv
  <1>2. TypeInv /\ [Next]_vars => TypeInv'
    <2> SUFFICES ASSUME TypeInv, [Next]_vars PROVE TypeInv'
      OBVIOUS
    <2>1. CASE UNCHANGED vars
      BY <2>1 DEF vars, server, fileSet, reader, TypeInv, TypeOK, StoreShape,
                  SessionShape, Existing
    <2>2. CASE Next
      BY <2>2, ServerKeepsTypes, SessionKeepsTypes, ScanKeepsTypes, ReadKeepsTypes
         DEF Next, ReadStep
    <2> QED BY <2>1, <2>2
  <1> QED BY <1>1, <1>2, PTL DEF Spec

(***************************************************************************)
(* The file system, the FileSet and its reader keep their types.           *)
(***************************************************************************)
THEOREM FileSetTypeCorrect == Spec => []TypeOK
  <1>1. TypeInv => TypeOK
    BY DEF TypeInv
  <1> QED BY <1>1, TypeInvHolds, PTL
-----------------------------------------------------------------------------
(***************************************************************************)
(* Files that only grow.  The server appends and rotates to new names, the *)
(* caller may cancel, stop, crash and restart at any point.                *)
(***************************************************************************)
OnlyGrow == Events \subseteq {"append", "rotate", "crash"}

\* id is the identity of file i, taken now or when i was shorter.
IdentityOf(id, i) ==
  /\ id.ino = i
  /\ Len(id.head) <= Len(disk[i])
  /\ \A k \in 1..Len(id.head) : id.head[k] = disk[i][k]

\* No stored offset is beyond its file, and only files have one.
OffsetsWithinFiles ==
  /\ \A p \in Paths : dir[p] # 0 => store.offset[p] <= Len(disk[dir[p]])
  /\ \A p \in Paths : dir[p] = 0 => store.offset[p] = 0 /\ ids[p] = NoId

\* What is remembered of a path is still the file the path names.
IdentitiesAreCurrent ==
  /\ \A p \in Paths : ids[p] # NoId => IdentityOf(ids[p], dir[p])
  /\ pc = "open" => /\ dir[target.path] # 0
                    /\ IdentityOf(target.id, dir[target.path])
                    /\ target.offset = store.offset[target.path]

\* The open file is the one its path names, and what is held of it is in place.
HeldInPlace ==
  cur.path # 0 =>
    /\ cur.ino = dir[cur.path]
    /\ cur.pos <= Len(disk[cur.ino])
    /\ \A i \in 1..Len(pending) :
         pending[i] = disk[cur.ino][(cur.pos - Len(pending)) + i]
    /\ store.offset[cur.path] = cur.pos - Len(pending)

GrowInv == TypeInv /\ OffsetsWithinFiles /\ IdentitiesAreCurrent /\ HeldInPlace

(***************************************************************************)
(* The facts about types the proofs below keep using.                      *)
(***************************************************************************)
TypeFacts ==
  /\ dir \in [Paths -> {0} \cup Inodes] /\ disk \in [Inodes -> Seq(Byte)]
  /\ \A p \in Paths : dir[p] # 0 => dir[p] \in Inodes
  /\ active \in Paths /\ dir[active] \in Inodes
  /\ \A i \in Inodes : Len(disk[i]) \in Nat
  /\ cur.path \in {0} \cup Paths /\ cur.pos \in Nat
  /\ pending \in Seq(Byte) /\ Len(pending) \in Nat
  /\ cur.path # 0 => cur.ino \in Inodes /\ Len(pending) <= cur.pos
  /\ store.offset \in [Paths -> Nat]
  /\ \A p \in Paths : ids[p].head \in Seq(Byte)
  /\ target.id.head \in Seq(Byte) /\ (pc = "open" => target.path \in Paths)

\* The type invariant gives the typing facts that the steps below use.
LEMMA TypeFactsHold ==
  ASSUME TypeInv
  PROVE  TypeFacts
  <1>1. /\ dir \in [Paths -> {0} \cup Inodes] /\ disk \in [Inodes -> Seq(Byte)]
        /\ active \in Existing
        /\ cur.path \in {0} \cup Paths /\ cur.ino \in {0} \cup Inodes
        /\ cur.pos \in Nat /\ pending \in Seq(Byte)
        /\ store.offset \in [Paths -> Nat]
        /\ ids \in [Paths -> Identities] /\ target.id \in Identities
    BY DEF TypeInv, TypeOK
  <1>2. /\ cur.path # 0 <=> cur.ino # 0
        /\ cur.path # 0 => Len(pending) <= cur.pos
        /\ pc = "open" => target.path \in Paths
    BY DEF TypeInv, SessionShape
  <1>3. \A id \in Identities : id.head \in Seq(Byte)
    BY DEF Identities
  <1>4. \A i \in Inodes : Len(disk[i]) \in Nat
    BY <1>1
  <1>5. Len(pending) \in Nat
    BY <1>1
  <1> QED BY ZeroIsNothing, <1>1, <1>2, <1>3, <1>4, <1>5 DEF TypeFacts, Existing

(***************************************************************************)
(* A server that only appends and rotates keeps the invariant: every file  *)
(* is a prefix of what it becomes, and a new name has no past.             *)
(***************************************************************************)
LEMMA GrowthKeepsOffsets ==
  ASSUME GrowInv, OnlyGrow, Server, TypeInv'
  PROVE  GrowInv'
  <1> USE ZeroIsNothing DEF GrowInv, server, fileSet, reader
  <1>0. TypeFacts
    BY TypeFactsHold
  <1> USE DEF TypeFacts
  <1>1. CASE Append1
    <2>1. PICK nl \in BOOLEAN :
            disk' = [disk EXCEPT ![dir[active]] =
                       Append(@, [id |-> written + 1, nl |-> nl])]
      BY <1>1 DEF Append1
    <2>2. UNCHANGED <<dir, active, fileSet, reader, out>>
      BY <1>1 DEF Append1
    <2>3. ASSUME NEW i \in Inodes
          PROVE  /\ Len(disk[i]) <= Len(disk'[i]) /\ Len(disk'[i]) \in Nat
                 /\ \A k \in 1..Len(disk[i]) : disk'[i][k] = disk[i][k]
      <3> DEFINE b == [id |-> written + 1, nl |-> nl]
      <3>1. CASE i = dir[active]
        <4>1. disk'[i] = Append(disk[i], b) /\ disk[i] \in Seq(Byte)
          BY <2>1, <3>1, <1>0
        <4>2. Len(disk'[i]) = Len(disk[i]) + 1 /\ Len(disk[i]) \in Nat
          BY <4>1
        <4>3. \A k \in 1..Len(disk[i]) : disk'[i][k] = disk[i][k]
          BY <4>1
        <4> HIDE DEF b
        <4> QED BY <4>2, <4>3
      <3>2. CASE i # dir[active]
        BY <2>1, <3>2, <1>0
      <3> QED BY <3>1, <3>2
    <2>4. OffsetsWithinFiles'
      BY <2>2, <2>3, <1>0 DEF OffsetsWithinFiles
    <2>5. ASSUME NEW id, id.head \in Seq(Byte), NEW i \in Inodes, IdentityOf(id, i)
          PROVE  /\ id.ino = i /\ Len(id.head) <= Len(disk'[i])
                 /\ \A k \in 1..Len(id.head) : id.head[k] = disk'[i][k]
      <3>1. Len(id.head) \in Nat /\ Len(id.head) <= Len(disk[i])
        BY <2>5 DEF IdentityOf
      <3> QED BY <3>1, <2>3, <2>5, <1>0 DEF IdentityOf
    <2>6. IdentitiesAreCurrent'
      <3>1. ASSUME NEW p \in Paths, ids[p] # NoId PROVE IdentityOf(ids[p], dir[p])'
        <4>1. dir[p] \in Inodes /\ IdentityOf(ids[p], dir[p])
          BY <3>1, <1>0 DEF IdentitiesAreCurrent, OffsetsWithinFiles
        <4>2. ids[p].head \in Seq(Byte)
          BY <1>0
        <4>3. ids' = ids /\ dir' = dir
          BY <2>2
        <4>4. /\ ids[p].ino = dir[p] /\ Len(ids[p].head) <= Len(disk'[dir[p]])
              /\ \A k \in 1..Len(ids[p].head) : ids[p].head[k] = disk'[dir[p]][k]
          BY <4>1, <4>2, <2>5
        <4> QED BY <4>3, <4>4 DEF IdentityOf
      <3>2. ASSUME pc = "open" PROVE IdentityOf(target.id, dir[target.path])'
        <4>1. dir[target.path] \in Inodes /\ IdentityOf(target.id, dir[target.path])
          BY <3>2, <1>0 DEF IdentitiesAreCurrent
        <4> DEFINE id == target.id
                   f == dir[target.path]
        <4>2. id.head \in Seq(Byte)
          BY <1>0
        <4>3. target' = target /\ dir' = dir
          BY <2>2
        <4>4. /\ id.ino = f /\ Len(id.head) <= Len(disk'[f])
              /\ \A k \in 1..Len(id.head) : id.head[k] = disk'[f][k]
          BY <4>1, <4>2, <2>5
        <4> QED BY <4>3, <4>4 DEF IdentityOf
      <3> QED BY <2>2, <3>1, <3>2 DEF IdentitiesAreCurrent
    <2>7. HeldInPlace'
      <3> SUFFICES ASSUME cur.path # 0 PROVE HeldInPlace'
        BY <2>2 DEF HeldInPlace
      <3>1. /\ cur.ino \in Inodes /\ Len(pending) <= cur.pos
            /\ cur.pos <= Len(disk[cur.ino])
        BY <1>0 DEF HeldInPlace
      <3>2. \A i \in 1..Len(pending) :
              disk'[cur.ino][(cur.pos - Len(pending)) + i]
                = disk[cur.ino][(cur.pos - Len(pending)) + i]
        <4> TAKE i \in 1..Len(pending)
        <4>1. (cur.pos - Len(pending)) + i \in 1..Len(disk[cur.ino])
          BY <3>1, <1>0
        <4> QED BY <4>1, <3>1, <2>3
      <3>3. cur.pos <= Len(disk'[cur.ino])
        BY <3>1, <2>3, <1>0
      <3> QED BY <2>2, <3>1, <3>2, <3>3 DEF HeldInPlace
    <2> QED BY <2>4, <2>6, <2>7
  <1>2. CASE Rotate
    <2>1. PICK i \in FreeInodes : dir' = [dir EXCEPT ![active + 1] = i]
      BY <1>2 DEF Rotate
    <2>2. /\ active + 1 \in Paths /\ dir[active + 1] = 0
          /\ UNCHANGED <<disk, written, fileSet, reader, out>> /\ i \in Inodes
      BY <1>2 DEF Rotate, FreeInodes
    <2>3. /\ \A p \in Paths : p # active + 1 => dir'[p] = dir[p]
          /\ dir'[active + 1] = i
      BY <2>1, <2>2, <1>0
    <2>4. store.offset[active + 1] = 0 /\ ids[active + 1] = NoId
      BY <2>2 DEF OffsetsWithinFiles
    <2>5. OffsetsWithinFiles'
      <3>1. ASSUME NEW p \in Paths, dir'[p] # 0
            PROVE  store.offset[p] <= Len(disk[dir'[p]])
        <4>1. CASE p = active + 1
          <5>1. store.offset[p] = 0 /\ dir'[p] \in Inodes
            BY <2>2, <2>3, <2>4, <4>1
          <5>2. Len(disk[dir'[p]]) \in Nat
            BY <5>1, <1>0
          <5> QED BY <5>1, <5>2
        <4>2. CASE p # active + 1
          BY <2>3, <3>1, <4>2 DEF OffsetsWithinFiles
        <4> QED BY <4>1, <4>2
      <3>2. ASSUME NEW p \in Paths, dir'[p] = 0
            PROVE  store.offset[p] = 0 /\ ids[p] = NoId
        <4>1. CASE p = active + 1
          BY <2>4, <4>1
        <4>2. CASE p # active + 1
          BY <2>3, <3>2, <4>2 DEF OffsetsWithinFiles
        <4> QED BY <4>1, <4>2
      <3> QED BY <2>2, <3>1, <3>2 DEF OffsetsWithinFiles
    <2>6. IdentitiesAreCurrent'
      <3>1. ASSUME NEW p \in Paths, ids[p] # NoId PROVE IdentityOf(ids[p], dir[p])'
        <4>1. p # active + 1 /\ IdentityOf(ids[p], dir[p])
          BY <3>1, <2>4 DEF IdentitiesAreCurrent
        <4> QED BY <4>1, <2>2, <2>3 DEF IdentityOf
      <3>2. ASSUME pc = "open"
            PROVE  target.path # active + 1 /\ IdentityOf(target.id, dir[target.path])'
        <4>1. target.path # active + 1 /\ IdentityOf(target.id, dir[target.path])
              /\ target.path \in Paths
          BY <3>2, <2>2, <1>0 DEF IdentitiesAreCurrent
        <4> QED BY <4>1, <2>2, <2>3 DEF IdentityOf
      <3> QED BY <3>1, <3>2, <2>2, <2>3, <1>0 DEF IdentitiesAreCurrent
    <2>7. HeldInPlace'
      <3>1. cur.path # 0 => cur.path # active + 1
        BY <2>2, <1>0 DEF HeldInPlace
      <3> QED BY <3>1, <2>2, <2>3, <1>0 DEF HeldInPlace
    <2> QED BY <2>5, <2>6, <2>7
  <1> QED BY <1>1, <1>2 DEF Server, Rename, Truncate, Reuse, Remove, OnlyGrow

(***************************************************************************)
(* Identify reads the identity of the file a path names.                   *)
(***************************************************************************)
LEMMA IdentifyIsIdentity ==
  ASSUME TypeOK, NEW p \in Existing
  PROVE  IdentityOf(Identify(p), dir[p])
  <1> DEFINE c == ContentOf(p)
             m == MinOf(HeadSize, Len(c))
             h == SubSeq(c, 1, m)
  <1>1. c \in Seq(Byte) /\ Len(c) \in Nat
    BY IdentifyTyped
  <1>2. m \in 0..Len(c)
    BY <1>1, FileSetAssumption DEF MinOf
  <1>3. Identify(p) = [ino |-> dir[p], head |-> h] /\ c = disk[dir[p]]
    BY DEF Identify, ContentOf
  <1> HIDE DEF c, m
  <1>4. Len(h) = m /\ \A k \in 1..m : h[k] = c[k]
    BY <1>1, <1>2
  <1> HIDE DEF h
  <1> QED BY <1>1, <1>2, <1>3, <1>4 DEF IdentityOf

(***************************************************************************)
(* Two identities of one file, the file having grown in between, are the   *)
(* same file to sameFile: a file that grew is never started over.          *)
(***************************************************************************)
LEMMA GrownFileIsSame ==
  ASSUME TypeOK, NEW a, NEW b, NEW i, i # 0,
         a.head \in Seq(Byte), b.head \in Seq(Byte),
         IdentityOf(a, i), IdentityOf(b, i)
  PROVE  SameFile(a, b)
  <1>1. Len(a.head) \in Nat /\ Len(b.head) \in Nat
    OBVIOUS
  <1>2. ASSUME NEW k \in 1..MinOf(Len(a.head), Len(b.head))
        PROVE  a.head[k] = b.head[k]
    <2>1. k \in 1..Len(a.head) /\ k \in 1..Len(b.head)
      BY <1>1 DEF MinOf
    <2> QED BY <2>1 DEF IdentityOf
  <1> QED BY <1>2 DEF SameFile, IdentityOf

(***************************************************************************)
(* What every step of the reader leaves alone, and the consequences.       *)
(***************************************************************************)
LEMMA StoreOnlyKeepsOffsets ==
  ASSUME GrowInv, NEW p \in Paths, NEW o \in Nat, UNCHANGED <<dir, disk, ids>>,
         store' = AfterSet(store, p, o), dir[p] # 0, o <= Len(disk[dir[p]])
  PROVE  OffsetsWithinFiles' /\ store'.offset[p] = o
  <1>1. TypeFacts /\ store.order \in Seq(Paths)
    BY TypeFactsHold DEF GrowInv, TypeInv, TypeOK
  <1>2. /\ store'.offset[p] = o
        /\ \A q \in Paths : q # p => store'.offset[q] \in {0, store.offset[q]}
    <2>1. store.order \in Seq(Paths) /\ store.offset \in [Paths -> Nat]
      BY <1>1 DEF TypeFacts
    <2>2. /\ AfterSet(store, p, o).offset[p] = o
          /\ \A q \in Paths :
               q # p => AfterSet(store, p, o).offset[q] \in {0, store.offset[q]}
      BY <2>1, AfterSetTyped
    <2> QED BY <2>2
  <1>3. ASSUME NEW q \in Paths, dir[q] # 0
        PROVE  store'.offset[q] <= Len(disk[dir[q]])
    <2>1. CASE q = p
      BY <2>1, <1>2
    <2>2. CASE q # p
      <3>1. store.offset[q] <= Len(disk[dir[q]])
        BY <1>3 DEF GrowInv, OffsetsWithinFiles
      <3>2. Len(disk[dir[q]]) \in Nat
        BY <1>1, <1>3 DEF TypeFacts
      <3>3. store'.offset[q] = 0 \/ store'.offset[q] = store.offset[q]
        BY <2>2, <1>2
      <3> QED BY <3>1, <3>2, <3>3
    <2> QED BY <2>1, <2>2
  <1>4. ASSUME NEW q \in Paths, dir[q] = 0
        PROVE  store'.offset[q] = 0 /\ ids[q] = NoId
    BY <1>2, <1>4 DEF GrowInv, OffsetsWithinFiles
  <1> QED BY <1>2, <1>3, <1>4 DEF OffsetsWithinFiles

(***************************************************************************)
(* Opening, cancelling, closing and restarting keep the invariant: at      *)
(* worst the store forgets.                                                *)
(***************************************************************************)
LEMMA SessionKeepsOffsets ==
  ASSUME GrowInv, TypeInv',
         Open \/ ReadCall \/ Cancel \/ ReadCancelled \/ Close \/ Restart
  PROVE  GrowInv'
  <1> USE DEF GrowInv, server, fileSet, reader
  <1>0. TypeFacts
    BY TypeFactsHold
  <1>1. CASE ReadCall \/ Cancel \/ ReadCancelled
    <2>1. /\ UNCHANGED <<dir, disk, store, ids, cur, pending, target>>
          /\ pc' = "open" => pc = "open"
      BY <1>1 DEF ReadCall, Cancel, ReadCancelled
    <2> QED BY <2>1 DEF OffsetsWithinFiles, IdentitiesAreCurrent, HeldInPlace, IdentityOf
  <1>2. CASE Open \/ Close
    <2>1. UNCHANGED <<dir, disk, store, ids>> /\ cur' = NoFile /\ pc' # "open"
      BY <1>2 DEF Open, Close, Reset
    <2> QED BY <2>1 DEF OffsetsWithinFiles, IdentitiesAreCurrent, HeldInPlace,
                        IdentityOf, NoFile
  <1>3. CASE Restart
    <2>1. UNCHANGED <<dir, disk>> /\ cur' = NoFile /\ pc' # "open"
      BY <1>3 DEF Restart, Reset
    <2>2. /\ \A p \in Paths : ids'[p] = NoId
          /\ \A p \in Paths : store'.offset[p] \in {0, store.offset[p]}
      BY <1>3 DEF Restart, EmptyStore
    <2>3. OffsetsWithinFiles'
      <3>1. ASSUME NEW p \in Paths, dir[p] # 0
            PROVE  store'.offset[p] <= Len(disk[dir[p]])
        <4>1. store.offset[p] <= Len(disk[dir[p]])
          BY <3>1 DEF OffsetsWithinFiles
        <4>2. Len(disk[dir[p]]) \in Nat
          BY <1>0, <3>1 DEF TypeFacts
        <4>3. store'.offset[p] = 0 \/ store'.offset[p] = store.offset[p]
          BY <2>2
        <4> QED BY <4>1, <4>2, <4>3
      <3>2. ASSUME NEW p \in Paths, dir[p] = 0
            PROVE  store'.offset[p] = 0
        BY <2>2, <3>2 DEF OffsetsWithinFiles
      <3> QED BY <2>1, <2>2, <3>1, <3>2 DEF OffsetsWithinFiles
    <2> QED BY <2>1, <2>2, <2>3 DEF IdentitiesAreCurrent, HeldInPlace, NoFile
  <1> QED BY <1>1, <1>2, <1>3

(***************************************************************************)
(* Looking for the next file and opening it keep the invariant: a file     *)
(* that only grew is resumed at its stored offset.                         *)
(***************************************************************************)
LEMMA ScanKeepsOffsets ==
  ASSUME GrowInv, TypeInv', StartScan \/ ScanPath \/ ScanEnd \/ OpenTarget
  PROVE  GrowInv'
  <1> USE ZeroIsNothing DEF GrowInv, server, fileSet, reader
  <1>0. TypeFacts /\ TypeOK /\ store.order \in Seq(Paths) /\ StoreShape
    BY TypeFactsHold DEF TypeInv, TypeOK
  <1>1. CASE StartScan \/ ScanEnd
    <2>1. UNCHANGED <<dir, disk, store, ids, cur, pending, target>> /\ pc' # "open"
      BY <1>1 DEF StartScan, ScanEnd
    <2> QED BY <2>1 DEF OffsetsWithinFiles, IdentitiesAreCurrent, HeldInPlace, IdentityOf
  <1>2. CASE ScanPath
    <2> DEFINE p == Min(todo)
               o == OffsetOf(store, p)
    <2>1. /\ p \in Paths /\ pc = "scan"
          /\ store' = IF p \in done THEN store ELSE AfterGet(store, p)
          /\ UNCHANGED <<dir, disk, ids, cur, pending>>
      BY <1>2, <1>0, LeastOf DEF ScanPath, TypeOK
    <2>2. store'.offset = store.offset
      BY <2>1, <1>0, AfterGetTyped DEF TypeFacts, StoreShape
    <2>3. cur.path = 0
      BY <2>1 DEF TypeInv, SessionShape
    <2>4. OffsetsWithinFiles'
      BY <2>1, <2>2 DEF OffsetsWithinFiles
    <2>5. ASSUME pc' = "open"
          PROVE  /\ dir[p] # 0 /\ target'.path = p /\ target'.id = Identify(p)
                 /\ target'.offset = store.offset[p]
      <3>1. /\ dir[p] # 0
            /\ target' = [path |-> p, offset |-> StartOffset(p, o), id |-> Identify(p)]
        BY <2>1, <2>5, <1>2 DEF ScanPath
      <3>2. p \in Existing
        BY <2>1, <3>1 DEF Existing
      <3>3. SameFileAsLastTime(p, Identify(p))
        <4>1. IdentityOf(Identify(p), dir[p]) /\ Identify(p).head \in Seq(Byte)
          BY <1>0, <3>2, IdentifyIsIdentity, IdentifyTyped DEF Identities
        <4>2. ids[p] # NoId => IdentityOf(ids[p], dir[p])
          BY <2>1 DEF IdentitiesAreCurrent
        <4>3. ids[p].head \in Seq(Byte)
          BY <2>1, <1>0 DEF TypeFacts
        <4> QED BY <4>1, <4>2, <4>3, <3>1, <1>0, GrownFileIsSame
                DEF SameFileAsLastTime
      <3>4. /\ o \in Nat /\ Len(ContentOf(p)) \in Nat
            /\ o <= Len(ContentOf(p)) /\ o = store.offset[p]
        BY <2>1, <3>1, <1>0 DEF OffsetsWithinFiles, OffsetOf, ContentOf, TypeFacts
      <3>5. StartOffset(p, o) = o
        BY <3>3, <3>4 DEF StartOffset
      <3> HIDE DEF p, o
      <3> QED BY <3>1, <3>4, <3>5
    <2>6. IdentitiesAreCurrent'
      <3>1. ASSUME pc' = "open"
            PROVE  /\ dir'[target'.path] # 0
                   /\ IdentityOf(target'.id, dir[p])
                   /\ target'.offset = store'.offset[target'.path]
        <4>1. p \in Existing
          BY <2>1, <2>5, <3>1 DEF Existing
        <4>2. IdentityOf(Identify(p), dir[p])
          BY <4>1, <1>0, IdentifyIsIdentity
        <4> HIDE DEF p
        <4> QED BY <4>2, <2>1, <2>2, <2>5, <3>1
      <3> HIDE DEF p
      <3> QED BY <2>1, <2>5, <3>1 DEF IdentitiesAreCurrent, IdentityOf
    <2> HIDE DEF p
    <2>7. HeldInPlace'
      BY <2>1, <2>3 DEF HeldInPlace
    <2> QED BY <2>4, <2>6, <2>7
  <1>3. CASE OpenTarget
    <2> DEFINE p == target.path
               s == StartPosition(ContentOf(p), target.offset)
    <2>1. /\ p \in Paths /\ dir[p] # 0 /\ IdentityOf(target.id, dir[p])
          /\ target.offset = store.offset[p] /\ pending = <<>>
      BY <1>3, <1>0 DEF OpenTarget, IdentitiesAreCurrent, TypeInv, SessionShape
    <2>2. s = store.offset[p] /\ s \in Nat /\ s <= Len(disk[dir[p]])
      <3>1. store.offset[p] <= Len(disk[dir[p]])
        BY <2>1 DEF OffsetsWithinFiles
      <3>2. Len(disk[dir[p]]) \in Nat /\ store.offset[p] \in Nat
        BY <2>1, <1>0 DEF TypeFacts
      <3> HIDE DEF p
      <3>3. s = store.offset[p]
        BY <2>1, <3>1, <3>2 DEF StartPosition, ContentOf
      <3> QED BY <3>1, <3>2, <3>3
    <2>3. /\ UNCHANGED <<dir, disk, store, pending>> /\ pc' = "fill"
          /\ cur' = [path |-> p, ino |-> dir[p], id |-> target.id, pos |-> s]
          /\ ids' = [ids EXCEPT ![p] = target.id]
      BY <1>3, <2>1 DEF OpenTarget, Remember
    <2> HIDE DEF p, s
    <2>4. \A q \in Paths : ids'[q] = IF q = p THEN target.id ELSE ids[q]
      BY <2>1, <2>3, <1>0 DEF TypeOK
    <2>5. OffsetsWithinFiles'
      BY <2>1, <2>3, <2>4 DEF OffsetsWithinFiles
    <2>6. IdentitiesAreCurrent'
      BY <2>1, <2>3, <2>4 DEF IdentitiesAreCurrent, IdentityOf
    <2>7. HeldInPlace'
      <3>1. Len(pending) = 0
        BY <2>1
      <3> QED BY <2>1, <2>2, <2>3, <3>1 DEF HeldInPlace
    <2> QED BY <2>5, <2>6, <2>7
  <1> QED BY <1>1, <1>2, <1>3

(***************************************************************************)
(* Reading a block, delivering and closing keep the invariant.             *)
(***************************************************************************)
LEMMA ReadKeepsOffsets ==
  ASSUME GrowInv, TypeInv',
         (\E size \in BufSizes : Deliver(size)) \/ FillBlock \/ FillEnd \/ AtEndOfFile
  PROVE  GrowInv'
  <1> USE DEF GrowInv, server, fileSet, reader
  <1>0. TypeFacts /\ TypeOK
    BY TypeFactsHold DEF TypeInv
  <1>1. ASSUME NEW size \in BufSizes, Deliver(size) PROVE GrowInv'
    <2> DEFINE n == MinOf(size, Deliverable)
               l == Len(pending)
               rest == SubSeq(pending, n + 1, l)
    <2>1. /\ n \in 0..l /\ pending' = rest /\ Len(pending') = l - n
          /\ \A i \in 1..Len(pending') : pending'[i] = pending[n + i]
      BY <1>0, <1>1, DeliverLengths
    <2>2. /\ UNCHANGED <<dir, disk, ids, cur, target>> /\ pc' = "idle"
          /\ store' = IF cur.path = 0 THEN store
                      ELSE AfterSet(store, cur.path, OffsetAfterDelivery(cur.pos, rest))
      BY <1>1 DEF Deliver
    <2> HIDE DEF n, rest
    <2>3. IdentitiesAreCurrent'
      BY <2>2 DEF IdentitiesAreCurrent, IdentityOf
    <2>4. CASE cur.path = 0
      BY <2>2, <2>3, <2>4 DEF OffsetsWithinFiles, HeldInPlace
    <2>5. CASE cur.path # 0
      <3> DEFINE o == cur.pos - (l - n)
      <3>1. /\ cur.ino = dir[cur.path] /\ cur.pos <= Len(disk[cur.ino])
            /\ \A i \in 1..l : pending[i] = disk[cur.ino][(cur.pos - l) + i]
        BY <2>5 DEF HeldInPlace
      <3>2. /\ cur.path \in Paths /\ cur.ino \in Inodes /\ dir[cur.path] # 0
            /\ cur.pos \in Nat /\ l \in Nat /\ l <= cur.pos /\ Len(disk[cur.ino]) \in Nat
        BY <2>5, <3>1, <1>0, ZeroIsNothing DEF TypeFacts
      <3>3. o \in Nat /\ o <= Len(disk[dir[cur.path]])
        BY <2>1, <3>1, <3>2
      <3>4. store' = AfterSet(store, cur.path, o)
        BY <2>1, <2>2, <2>5 DEF OffsetAfterDelivery
      <3> HIDE DEF o
      <3>5. OffsetsWithinFiles' /\ store'.offset[cur.path] = o
        BY <2>2, <3>2, <3>3, <3>4, StoreOnlyKeepsOffsets
      <3>6. ASSUME NEW i \in 1..(l - n)
            PROVE  pending'[i] = disk[cur.ino][(cur.pos - (l - n)) + i]
        <4>1. n + i \in 1..l /\ (cur.pos - l) + (n + i) = (cur.pos - (l - n)) + i
          BY <2>1, <3>2
        <4> HIDE DEF l
        <4>2. pending'[i] = pending[n + i]
          BY <2>1
        <4>3. pending[n + i] = disk[cur.ino][(cur.pos - l) + (n + i)]
          BY <3>1, <4>1
        <4> QED BY <4>1, <4>2, <4>3
      <3>7. HeldInPlace'
        BY <2>1, <2>2, <3>1, <3>5, <3>6 DEF HeldInPlace, o
      <3> QED BY <2>3, <3>5, <3>7
    <2> QED BY <2>4, <2>5
  <1>2. CASE FillBlock
    <2> DEFINE f == disk[cur.ino]
               n == MinOf(ReadSize, Len(f) - cur.pos)
               l == Len(pending)
    <2>1. /\ cur.path # 0 /\ Len(f) \in Nat
          /\ n \in 1..(Len(f) - cur.pos) /\ cur' = [cur EXCEPT !.pos = @ + n]
          /\ Len(pending') = l + n
          /\ \A i \in 1..l : pending'[i] = pending[i]
          /\ \A i \in 1..n : pending'[l + i] = f[cur.pos + i]
      BY <1>2, FillLengths
    <2>2. UNCHANGED <<dir, disk, store, ids, target>> /\ pc' = "loop"
      BY <1>2 DEF FillBlock
    <2>3. /\ cur.ino = dir[cur.path] /\ cur.pos \in Nat /\ l \in Nat /\ l <= cur.pos
          /\ \A i \in 1..l : pending[i] = f[(cur.pos - l) + i]
          /\ store.offset[cur.path] = cur.pos - l
      BY <2>1, <1>0 DEF HeldInPlace, TypeFacts
    <2> HIDE DEF n
    <2>4. cur'.path = cur.path /\ cur'.ino = cur.ino /\ cur'.pos = cur.pos + n
      <3>1. cur \in [path : {0} \cup Paths, ino : {0} \cup Inodes,
                     id : Identities, pos : Nat]
        BY <1>0 DEF TypeOK
      <3> QED BY <2>1, <3>1
    <2> HIDE DEF l, f
    <2>5. ASSUME NEW i \in 1..(l + n)
          PROVE  pending'[i] = f[((cur.pos + n) - (l + n)) + i]
      <3>1. CASE i <= l
        <4>1. i \in 1..l /\ ((cur.pos + n) - (l + n)) + i = (cur.pos - l) + i
          BY <2>1, <2>3, <3>1
        <4> QED BY <4>1, <2>1, <2>3
      <3>2. CASE ~(i <= l)
        <4>1. n \in Nat /\ l \in Nat /\ cur.pos \in Nat
          BY <2>1, <2>3
        <4>2. i - l \in 1..n /\ l + (i - l) = i
          BY <4>1, <3>2
        <4>3. ((cur.pos + n) - (l + n)) + i = cur.pos + (i - l)
          BY <4>1
        <4>4. pending'[l + (i - l)] = f[cur.pos + (i - l)]
          BY <4>2, <2>1
        <4> QED BY <4>2, <4>3, <4>4
      <3> QED BY <3>1, <3>2
    <2>6. cur.pos + n <= Len(f) /\ (cur.pos + n) - (l + n) = cur.pos - l
      BY <2>1, <2>3
    <2>7. HeldInPlace'
      BY <2>1, <2>2, <2>3, <2>4, <2>5, <2>6 DEF HeldInPlace, f
    <2>8. OffsetsWithinFiles' /\ IdentitiesAreCurrent'
      BY <2>2 DEF OffsetsWithinFiles, IdentitiesAreCurrent, IdentityOf
    <2> QED BY <2>7, <2>8
  <1>3. ASSUME CloseCurrent, cur.path # 0, pc' = "loop",
               UNCHANGED <<server, ids, follow, cancelled, pending, todo, target, out>>
        PROVE  GrowInv'
    <2>1. /\ cur.path \in Paths /\ dir[cur.path] # 0 /\ cur.pos \in Nat
          /\ cur.pos <= Len(disk[dir[cur.path]])
      BY <1>0, <1>3, ZeroIsNothing DEF HeldInPlace, TypeFacts
    <2>2. store' = AfterSet(store, cur.path, cur.pos) /\ cur' = NoFile
      BY <1>3 DEF CloseCurrent, OffsetAtClose
    <2>3. OffsetsWithinFiles'
      BY <1>3, <2>1, <2>2, StoreOnlyKeepsOffsets
    <2> QED BY <1>3, <2>2, <2>3
            DEF IdentitiesAreCurrent, IdentityOf, HeldInPlace, NoFile
  <1>4. ASSUME UNCHANGED <<dir, disk, store, ids, cur, pending, target>>, pc' # "open"
        PROVE  GrowInv'
    BY <1>4 DEF OffsetsWithinFiles, IdentitiesAreCurrent, HeldInPlace, IdentityOf
  <1>5. CASE FillEnd
    <2>1. cur.path # 0
      BY <1>5 DEF FillEnd, Filling, TypeInv, SessionShape
    <2> QED BY <2>1, <1>3, <1>4, <1>5 DEF FillEnd
  <1>6. CASE AtEndOfFile
    <2>1. cur.path # 0
      BY <1>6 DEF AtEndOfFile, TypeInv, SessionShape
    <2> QED BY <2>1, <1>3, <1>4, <1>6 DEF AtEndOfFile
  <1> QED BY <1>1, <1>2, <1>5, <1>6

(***************************************************************************)
(* The invariant holds throughout while files only grow.                   *)
(***************************************************************************)
LEMMA GrowInvHolds ==
  ASSUME OnlyGrow
  PROVE  Spec => []GrowInv
  <1>1. Init => OffsetsWithinFiles /\ IdentitiesAreCurrent /\ HeldInPlace
    <2> SUFFICES ASSUME Init
                 PROVE  OffsetsWithinFiles /\ IdentitiesAreCurrent /\ HeldInPlace
      OBVIOUS
    <2>1. /\ \A p \in Paths : store.offset[p] = 0 /\ ids[p] = NoId
          /\ cur.path = 0 /\ pc = "none" /\ disk = [i \in Inodes |-> <<>>]
          /\ \A p \in Paths : dir[p] \in {0, 1}
      BY DEF Init, EmptyStore, NoFile
    <2>2. 1 \in Inodes
      BY FileSetAssumption DEF Inodes
    <2>3. Len(disk[1]) = 0
      BY <2>1, <2>2
    <2>4. \A p \in Paths : dir[p] # 0 => dir[p] = 1
      BY <2>1
    <2> QED BY <2>1, <2>3, <2>4 DEF OffsetsWithinFiles, IdentitiesAreCurrent, HeldInPlace
  <1>2. GrowInv /\ [Next]_vars /\ TypeInv' => GrowInv'
    <2> SUFFICES ASSUME GrowInv, [Next]_vars, TypeInv' PROVE GrowInv'
      OBVIOUS
    <2>1. CASE UNCHANGED vars
      BY <2>1 DEF vars, server, fileSet, reader, GrowInv, OffsetsWithinFiles,
                  IdentitiesAreCurrent, HeldInPlace, IdentityOf
    <2>2. CASE Next
      BY <2>2, GrowthKeepsOffsets, SessionKeepsOffsets, ScanKeepsOffsets, ReadKeepsOffsets
         DEF Next, ReadStep
    <2> QED BY <2>1, <2>2
  <1>3. GrowInv <=> TypeInv /\ (OffsetsWithinFiles /\ IdentitiesAreCurrent /\ HeldInPlace)
    BY DEF GrowInv
  <1> QED BY <1>1, <1>2, <1>3, TypeInvHolds, PTL DEF Spec

(***************************************************************************)
(* IFC-006 while files only grow, for any number of files and sessions, any*)
(* store capacity and any interruption: what the reader holds of the open  *)
(* file is what it last read of it, and the stored offset is the position  *)
(* of the first byte held.                                                 *)
(***************************************************************************)
THEOREM ResumePointIsExact ==
  ASSUME OnlyGrow
  PROVE  Spec => []ResumePointIsFirstHeldByte
  <1>1. GrowInv => ResumePointIsFirstHeldByte
    <2> SUFFICES ASSUME GrowInv, cur.path # 0
                 PROVE  /\ Len(pending) <= cur.pos /\ cur.pos <= Len(disk[cur.ino])
                        /\ pending = SubSeq(disk[cur.ino], cur.pos - Len(pending) + 1, cur.pos)
                        /\ store.offset[cur.path] = cur.pos - Len(pending)
      BY DEF ResumePointIsFirstHeldByte
    <2> DEFINE f == disk[cur.ino]
               l == Len(pending)
               h == SubSeq(f, cur.pos - l + 1, cur.pos)
    <2>1. /\ cur.ino \in Inodes /\ f \in Seq(Byte) /\ Len(f) \in Nat
          /\ cur.pos \in Nat /\ l \in Nat /\ l <= cur.pos /\ pending \in Seq(Byte)
      BY TypeFactsHold DEF GrowInv, TypeFacts
    <2>2. /\ cur.pos <= Len(f) /\ store.offset[cur.path] = cur.pos - l
          /\ \A i \in 1..l : pending[i] = f[(cur.pos - l) + i]
      BY DEF GrowInv, HeldInPlace
    <2> HIDE DEF f
    <2> DEFINE a == cur.pos - l
    <2>3. a \in Nat /\ a + l = cur.pos /\ a + l <= Len(f)
      BY <2>1, <2>2
    <2>4. h = SubSeq(f, a + 1, a + l)
      BY <2>3
    <2>5. \A i \in 1..l : pending[i] = f[a + i]
      BY <2>2
    <2>6. l = Len(pending)
      OBVIOUS
    <2> HIDE DEF a, h, l
    <2>7. /\ h \in Seq(Byte) /\ Len(h) = l
          /\ \A i \in 1..l : h[i] = f[a + i]
      BY <2>1, <2>3, <2>4, Slice
    <2>8. pending = h
      BY <2>1, <2>5, <2>6, <2>7
    <2> QED BY <2>1, <2>2, <2>8 DEF f, h, l
  <1> QED BY <1>1, GrowInvHolds, PTL
-----------------------------------------------------------------------------
(***************************************************************************)
(* What the reader delivers: while files only grow and the store           *)
(* remembers, it implements LogStream, so no byte is delivered twice       *)
(* (COR-007, AC-025); whatever the store forgets, the offsets it keeps     *)
(* skip no line end; and a follower withholds the partial line of the file *)
(* being written.                                                          *)
(***************************************************************************)

(***************************************************************************)
(* The store forgets nothing: it has room for every path, and a restart    *)
(* finds it as it was.                                                     *)
(***************************************************************************)
StoreRemembers ==
  /\ Cardinality(Paths) <= MaxTracked
  /\ Persistent \/ ~Abandon

(***************************************************************************)
(* The strengthening.  A byte is known by its number, wherever it is.      *)
(***************************************************************************)
\* Numbers ascend along a file, and no two files share one.
BytesAreNumbered ==
  /\ \A i \in Inodes : \A k \in 1..Len(disk[i]) : disk[i][k].id \in 1..written
  /\ \A i \in Inodes : \A k, l \in 1..Len(disk[i]) :
       k < l => disk[i][k].id < disk[i][l].id
  /\ \A i, j \in Inodes : \A k \in 1..Len(disk[i]) : \A l \in 1..Len(disk[j]) :
       disk[i][k].id = disk[j][l].id => i = j

OneNameEach ==
  \A p, q \in Paths : dir[p] # 0 /\ dir[p] = dir[q] => p = q

\* The recency list names no path twice.
Distinct(order) ==
  \A i, j \in 1..Len(order) : order[i] = order[j] => i = j

OutIsWritten == \A i \in 1..Len(out) : out[i] \in 1..written

\* What is held was written in this order, and none of it is delivered.
HeldIsNew ==
  /\ \A i \in 1..Len(pending) :
       pending[i].id \in 1..written /\ pending[i].id \notin Delivered
  /\ \A i, j \in 1..Len(pending) : i < j => pending[i].id < pending[j].id

\* Beyond its offset nothing of a file is delivered, nor the tail of a closed one.
BeyondOffsetIsNew ==
  \A p \in Paths : dir[p] # 0 =>
    \A k \in (store.offset[p] + 1)..Len(disk[dir[p]]) :
      /\ disk[dir[p]][k].id \notin Delivered
      /\ cur.path = 0 =>
           \A i \in 1..Len(pending) : pending[i].id # disk[dir[p]][k].id

\* What holds of the bytes in every state, and of the store if it remembers.
BytesInv == GrowInv /\ BytesAreNumbered /\ OneNameEach

StreamInv ==
  /\ BytesInv /\ Distinct(store.order) /\ OutIsWritten
  /\ HeldIsNew /\ BeyondOffsetIsNew
-----------------------------------------------------------------------------
(***************************************************************************)
(* MoveToFront keeps a list of distinct paths one.                         *)
(***************************************************************************)
LEMMA MoveToFrontDistinct ==
  ASSUME NEW s, s.order \in Seq(Paths), Distinct(s.order), NEW p \in Tracked(s)
  PROVE  Distinct(MoveToFront(s, p))
  <1> DEFINE n == Len(s.order)
             c == Place(s, p)
             m == MoveToFront(s, p)
             from(i) == IF i = 1 THEN c ELSE IF i <= c THEN i - 1 ELSE i
  <1>1. n \in Nat /\ c \in 1..n /\ s.order[c] = p
    BY DEF Place, Tracked
  <1>2. m = [i \in 1..n |-> IF i = 1 THEN p ELSE IF i <= c THEN s.order[i-1] ELSE s.order[i]]
    BY DEF MoveToFront
  <1> HIDE DEF m, c, n
  <1>3. Len(m) = n
    BY <1>1, <1>2
  <1>4. ASSUME NEW i \in 1..n PROVE from(i) \in 1..n /\ m[i] = s.order[from(i)]
    BY <1>1, <1>2
  <1>5. ASSUME NEW i \in 1..n, NEW j \in 1..n, from(i) = from(j) PROVE i = j
    BY <1>1, <1>5
  <1>6. ASSUME NEW i \in 1..n, NEW j \in 1..n, m[i] = m[j] PROVE i = j
    <2>1. s.order[from(i)] = s.order[from(j)] /\ from(i) \in 1..n /\ from(j) \in 1..n
      BY <1>4, <1>6
    <2> HIDE DEF from
    <2>2. from(i) = from(j)
      BY <2>1 DEF Distinct, n
    <2> QED BY <2>2, <1>5
  <1> QED BY <1>3, <1>6 DEF Distinct, m

(***************************************************************************)
(* A list of distinct paths is no longer than there are paths, and shorter *)
(* if one is not on it.                                                    *)
(***************************************************************************)
LEMMA ListIsShort ==
  ASSUME NEW order \in Seq(Paths), Distinct(order), NEW p \in Paths,
         \A i \in 1..Len(order) : order[i] # p
  PROVE  Len(order) < Cardinality(Paths)
  <1> DEFINE n == Len(order)
             R == Paths \ {p}
  <1>1. n \in Nat /\ IsFiniteSet(1..n) /\ Cardinality(1..n) = n
    <2>1. 1 \in Int /\ n \in Int /\ n \in Nat
      OBVIOUS
    <2> HIDE DEF n
    <2>2. /\ IsFiniteSet(1..n)
          /\ Cardinality(1..n) = IF 1 > n THEN 0 ELSE n - 1 + 1
      BY <2>1, FS_Interval
    <2> QED BY <2>1, <2>2
  <1>2. IsFiniteSet(Paths) /\ IsFiniteSet(R) /\ Cardinality(R) = Cardinality(Paths) - 1
        /\ Cardinality(Paths) \in Nat
    BY FileSetAssumption, FS_RemoveElement, FS_CardinalityType
  <1>3. order \in Injection(1..n, R)
    <2>1. \A i \in 1..n : order[i] \in R
      OBVIOUS
    <2>2. order \in [1..n -> R]
      BY <2>1
    <2> QED BY <2>2 DEF Injection, IsInjective, Distinct
  <1>4. n <= Cardinality(R)
    BY <1>1, <1>2, <1>3, FS_Injection
  <1> QED BY <1>1, <1>2, <1>4

(***************************************************************************)
(* With room for every path a Set changes one offset only.                 *)
(***************************************************************************)
LEMMA SetKeepsTheOthers ==
  ASSUME NEW s, s.order \in Seq(Paths), s.offset \in [Paths -> Nat],
         Distinct(s.order), Cardinality(Paths) <= MaxTracked,
         NEW p \in Paths, NEW o \in Nat
  PROVE  /\ Distinct(AfterSet(s, p, o).order)
         /\ AfterSet(s, p, o).offset = [s.offset EXCEPT ![p] = o]
  <1> DEFINE n == Len(s.order)
  <1>1. CASE p \in Tracked(s)
    <2>1. Distinct(MoveToFront(s, p))
      BY <1>1, MoveToFrontDistinct
    <2>2. AfterSet(s, p, o) = [order  |-> MoveToFront(s, p),
                               offset |-> [s.offset EXCEPT ![p] = o]]
      BY <1>1 DEF AfterSet
    <2> QED BY <2>1, <2>2
  <1>2. CASE p \notin Tracked(s)
    <2>1. \A i \in 1..n : s.order[i] # p
      BY <1>2 DEF Tracked
    <2>2. n \in Nat /\ n < MaxTracked
      <3>1. Cardinality(Paths) \in Nat /\ n \in Nat
        BY FileSetAssumption, FS_CardinalityType
      <3>2. n < Cardinality(Paths)
        BY <2>1, ListIsShort
      <3> QED BY <3>1, <3>2, TrackedAssumption
    <2>3. AfterSet(s, p, o) = [order  |-> PushFront(s, p),
                               offset |-> [s.offset EXCEPT ![p] = o]]
      BY <1>2, <2>2 DEF AfterSet
    <2> DEFINE f == PushFront(s, p)
    <2>4. f = [i \in 1..(n + 1) |-> IF i = 1 THEN p ELSE s.order[i-1]]
      BY DEF PushFront
    <2> HIDE DEF f
    <2>5. Len(f) = n + 1
      BY <2>2, <2>4
    <2>6. ASSUME NEW i \in 1..(n + 1), NEW j \in 1..(n + 1), f[i] = f[j] PROVE i = j
      <3>1. \A k \in 2..(n + 1) : k - 1 \in 1..n /\ f[k] = s.order[k - 1] /\ f[k] # p
        BY <2>1, <2>2, <2>4
      <3>2. f[1] = p
        BY <2>2, <2>4
      <3>3. CASE i = 1 \/ j = 1
        BY <2>2, <2>6, <3>1, <3>2, <3>3
      <3>4. CASE i \in 2..(n + 1) /\ j \in 2..(n + 1)
        <4>1. s.order[i - 1] = s.order[j - 1] /\ i - 1 \in 1..n /\ j - 1 \in 1..n
          BY <2>6, <3>1, <3>4
        <4>2. i - 1 = j - 1
          BY <4>1 DEF Distinct
        <4> QED BY <4>2, <3>4, <2>2
      <3> QED BY <2>2, <3>3, <3>4
    <2>7. Distinct(f)
      BY <2>5, <2>6 DEF Distinct
    <2> QED BY <2>3, <2>7 DEF f
  <1> QED BY <1>1, <1>2

\* A Get keeps the list distinct.
LEMMA GetKeepsDistinct ==
  ASSUME NEW s, s.order \in Seq(Paths), Distinct(s.order), NEW p \in Paths
  PROVE  Distinct(AfterGet(s, p).order)
  <1>1. CASE p \in Tracked(s)
    <2>1. AfterGet(s, p) = [s EXCEPT !.order = MoveToFront(s, p)]
      BY <1>1 DEF AfterGet
    <2> QED BY <1>1, <2>1, MoveToFrontDistinct
  <1>2. CASE p \notin Tracked(s)
    BY <1>2 DEF AfterGet
  <1> QED BY <1>1, <1>2
-----------------------------------------------------------------------------
(***************************************************************************)
(* What a delivery does: the first n bytes held leave, in order.           *)
(***************************************************************************)
LEMMA DeliverOutput ==
  ASSUME TypeInv, NEW size \in BufSizes, Deliver(size)
  PROVE  \E n \in 1..Len(pending) :
           /\ n <= Deliverable
           /\ Len(pending') = Len(pending) - n
           /\ \A i \in 1..(Len(pending) - n) : pending'[i] = pending[n + i]
           /\ out' \in Seq(Nat) /\ Len(out') = Len(out) + n
           /\ \A i \in 1..Len(out) : out'[i] = out[i]
           /\ \A i \in 1..n : out'[Len(out) + i] = pending[i].id
           /\ Delivered' = Delivered \cup {pending[i].id : i \in 1..n}
           /\ store' = IF cur.path = 0 THEN store
                       ELSE AfterSet(store, cur.path, cur.pos - (Len(pending) - n))
  <1> DEFINE n == MinOf(size, Deliverable)
             l == Len(pending)
             m == Len(out)
             chunk == [i \in 1..n |-> pending[i].id]
  <1>1. /\ n \in 0..l /\ pending' = SubSeq(pending, n + 1, l)
        /\ Len(pending') = l - n
        /\ \A i \in 1..Len(pending') : pending'[i] = pending[n + i]
        /\ out' = out \o chunk /\ out' \in Seq(Nat)
    BY DeliverLengths DEF TypeInv
  <1>2. /\ Deliverable > 0 /\ Deliverable \in 0..l
        /\ store' = IF cur.path = 0 THEN store
                    ELSE AfterSet(store, cur.path,
                           OffsetAfterDelivery(cur.pos, SubSeq(pending, n + 1, l)))
    <2>1. pending \in Seq(Byte) /\ flush \in BOOLEAN
      BY DEF TypeInv, TypeOK
    <2> QED BY <2>1, EligibleBounded DEF Deliver, Deliverable
  <1>3. l \in Nat /\ m \in Nat /\ out \in Seq(Nat)
    BY DEF TypeInv, TypeOK
  <1>4. n \in 1..l /\ n <= Deliverable
    BY <1>2, <1>3, FileSetAssumption DEF MinOf
  <1>5. OffsetAfterDelivery(cur.pos, SubSeq(pending, n + 1, l)) = cur.pos - (l - n)
    BY <1>1 DEF OffsetAfterDelivery
  <1> HIDE DEF n
  <1>6. /\ Len(out') = m + n /\ \A i \in 1..m : out'[i] = out[i]
        /\ \A i \in 1..n : out'[m + i] = pending[i].id
    <2>1. chunk = [i \in 1..n |-> pending[i].id] /\ n \in Nat
      BY <1>3, <1>4
    <2>2. chunk \in Seq(Nat) /\ Len(chunk) = n
      <3>1. \A i \in 1..n : pending[i].id \in Nat
        <4>1. pending \in Seq(Byte)
          BY DEF TypeInv, TypeOK
        <4>2. \A b \in Byte : b.id \in Nat
          BY DEF Byte
        <4>3. \A i \in 1..n : pending[i] \in Byte
          BY <4>1, <1>3, <1>4
        <4> QED BY <4>2, <4>3
      <3> QED BY <2>1, <3>1
    <2> HIDE DEF chunk, m
    <2>3. /\ Len(out \o chunk) = Len(out) + Len(chunk)
          /\ \A i \in 1..(Len(out) + Len(chunk)) :
               (out \o chunk)[i] = IF i <= Len(out) THEN out[i] ELSE chunk[i - Len(out)]
      BY <2>2, <1>3, ConcatProperties
    <2>4. /\ Len(out') = m + n
          /\ \A i \in 1..(m + n) : out'[i] = IF i <= m THEN out[i] ELSE chunk[i - m]
      BY <1>1, <2>2, <2>3 DEF m
    <2>5. \A i \in 1..m : out'[i] = out[i]
      BY <1>3, <2>1, <2>4
    <2>6. ASSUME NEW i \in 1..n PROVE out'[m + i] = pending[i].id
      <3>1. m + i \in 1..(m + n) /\ ~(m + i <= m) /\ (m + i) - m = i
        BY <1>3, <2>1
      <3>2. out'[m + i] = chunk[i]
        BY <2>4, <3>1
      <3> QED BY <3>2, <2>1
    <2> QED BY <2>4, <2>5, <2>6
  <1>7. Delivered' = Delivered \cup {pending[i].id : i \in 1..n}
    <2>1. Delivered' = {out'[i] : i \in 1..Len(out')} /\ Delivered = {out[i] : i \in 1..m}
      BY DEF Delivered
    <2> HIDE DEF m
    <2>2. \A i \in 1..Len(out') : i \in 1..m \/ (i - m \in 1..n /\ out'[i] = pending[i - m].id)
      <3> TAKE i \in 1..Len(out')
      <3>1. i <= m \/ (i - m \in 1..n /\ m + (i - m) = i)
        BY <1>3, <1>4, <1>6
      <3> QED BY <1>3, <1>4, <1>6, <3>1
    <2>3. \A i \in 1..m : i \in 1..Len(out')
      BY <1>3, <1>4, <1>6
    <2>4. \A i \in 1..n : m + i \in 1..Len(out')
      BY <1>3, <1>4, <1>6
    <2> QED BY <2>1, <2>2, <2>3, <2>4, <1>6
  <1> QED BY <1>1, <1>2, <1>4, <1>5, <1>6, <1>7

(***************************************************************************)
(* A delivery is a HandOver of the abstract stream: the bytes held are     *)
(* new, and were written in this order.                                    *)
(***************************************************************************)
LEMMA DeliverHandsOver ==
  ASSUME TypeInv, OutIsWritten, HeldIsNew, NEW size \in BufSizes, Deliver(size)
  PROVE  Stream!HandOver
  <1> DEFINE l == Len(pending)
             m == Len(out)
  <1>1. PICK n \in 1..l :
          /\ out' \in Seq(Nat) /\ Len(out') = m + n
          /\ \A i \in 1..m : out'[i] = out[i]
          /\ \A i \in 1..n : out'[m + i] = pending[i].id
    BY DeliverOutput
  <1>2. l \in Nat /\ m \in Nat /\ written \in Nat
    BY DEF TypeInv, TypeOK
  <1>3. /\ \A i \in 1..l : pending[i].id \in 1..written /\ pending[i].id \notin Delivered
        /\ \A i, j \in 1..l : i < j => pending[i].id < pending[j].id
        /\ \A i \in 1..m : out[i] \in 1..written /\ out[i] \in Delivered
    BY DEF HeldIsNew, OutIsWritten, Delivered
  <1>4. written' = written
    BY DEF Deliver, server
  <1> HIDE DEF l, m
  <1>5. ASSUME NEW k \in (m + 1)..Len(out')
        PROVE  k - m \in 1..n /\ k - m \in 1..l /\ out'[k] = pending[k - m].id
    <2>1. k - m \in 1..n /\ k - m \in 1..l /\ m + (k - m) = k
      BY <1>1, <1>2
    <2> QED BY <1>1, <2>1
  <1>6. out' \in Seq(1..written)
    <2>1. ASSUME NEW k \in 1..Len(out') PROVE out'[k] \in 1..written
      <3>1. k \in 1..m \/ k \in (m + 1)..Len(out')
        BY <1>1, <1>2
      <3> QED BY <3>1, <1>1, <1>3, <1>5
    <2>2. out' \in [1..Len(out') -> 1..written] /\ Len(out') \in Nat
      BY <2>1, <1>1
    <2> QED BY <2>2, SeqDef
  <1>7. /\ m < Len(out')
        /\ \A k \in 1..m : out'[k] = out[k]
    BY <1>1, <1>2
  <1>8. ASSUME NEW k \in (m + 1)..Len(out')
        PROVE  /\ \A i \in 1..m : out[i] # out'[k]
               /\ \A i \in (m + 1)..Len(out') : i < k => out'[i] < out'[k]
    <2>1. \A i \in 1..m : out[i] # out'[k]
      BY <1>3, <1>5
    <2>2. ASSUME NEW i \in (m + 1)..Len(out'), i < k PROVE out'[i] < out'[k]
      <3>1. i - m < k - m
        BY <1>2, <2>2, <1>1
      <3> QED BY <3>1, <1>3, <1>5
    <2> QED BY <2>1, <2>2
  <1> QED BY <1>4, <1>6, <1>7, <1>8 DEF Stream!HandOver, m
-----------------------------------------------------------------------------
(***************************************************************************)
(* The bytes.  The server numbers them; the reader leaves them alone.      *)
(***************************************************************************)
LEMMA AppendAddsOne ==
  ASSUME TypeInv, Append1
  PROVE  /\ UNCHANGED <<dir, active, fileSet, reader, out>>
         /\ written' = written + 1 /\ written \in Nat
         /\ \A i \in Inodes :
              /\ Len(disk[i]) \in Nat /\ Len(disk'[i]) \in Nat
              /\ Len(disk[i]) <= Len(disk'[i])
              /\ \A k \in 1..Len(disk[i]) : disk'[i][k] = disk[i][k]
              /\ \A k \in 1..Len(disk'[i]) : k > Len(disk[i]) =>
                   /\ k = Len(disk'[i]) /\ i = dir[active]
                   /\ disk'[i][k].id = written + 1
  <1>0. TypeFacts /\ written \in Nat
    BY TypeFactsHold DEF TypeInv, TypeOK
  <1>1. PICK nl \in BOOLEAN :
          disk' = [disk EXCEPT ![dir[active]] =
                     Append(@, [id |-> written + 1, nl |-> nl])]
    BY DEF Append1
  <1>2. ASSUME NEW i \in Inodes
        PROVE  /\ Len(disk[i]) \in Nat /\ Len(disk'[i]) \in Nat
               /\ Len(disk[i]) <= Len(disk'[i])
               /\ \A k \in 1..Len(disk[i]) : disk'[i][k] = disk[i][k]
               /\ \A k \in 1..Len(disk'[i]) : k > Len(disk[i]) =>
                    /\ k = Len(disk'[i]) /\ i = dir[active]
                    /\ disk'[i][k].id = written + 1
    <2>1. CASE i # dir[active]
      BY <1>0, <1>1, <2>1 DEF TypeFacts
    <2>2. CASE i = dir[active]
      <3> DEFINE b == [id |-> written + 1, nl |-> nl]
      <3>1. disk'[i] = Append(disk[i], b) /\ disk[i] \in Seq(Byte)
        BY <1>0, <1>1, <2>2 DEF TypeFacts
      <3>2. b.id = written + 1
        OBVIOUS
      <3> HIDE DEF b
      <3>3. /\ Len(disk[i]) \in Nat /\ Len(disk'[i]) = Len(disk[i]) + 1
            /\ \A k \in 1..Len(disk[i]) : disk'[i][k] = disk[i][k]
            /\ disk'[i][Len(disk[i]) + 1] = b
        BY <3>1
      <3> QED BY <2>2, <3>2, <3>3
    <2> QED BY <2>1, <2>2
  <1> QED BY <1>0, <1>2 DEF Append1

\* A byte that is appended has the next number.
LEMMA AppendKeepsNumbers ==
  ASSUME TypeInv, BytesAreNumbered, Append1
  PROVE  BytesAreNumbered'
  <1>1. /\ UNCHANGED dir /\ written' = written + 1 /\ written \in Nat
        /\ \A i \in Inodes :
             /\ Len(disk[i]) \in Nat /\ Len(disk'[i]) \in Nat
             /\ Len(disk[i]) <= Len(disk'[i])
             /\ \A k \in 1..Len(disk[i]) : disk'[i][k] = disk[i][k]
             /\ \A k \in 1..Len(disk'[i]) : k > Len(disk[i]) =>
                  /\ k = Len(disk'[i]) /\ i = dir[active]
                  /\ disk'[i][k].id = written + 1
    BY AppendAddsOne
  <1>2. ASSUME NEW i \in Inodes, NEW k \in 1..Len(disk'[i])
        PROVE  \/ /\ k \in 1..Len(disk[i]) /\ disk'[i][k] = disk[i][k]
                  /\ disk[i][k].id \in 1..written
               \/ /\ k = Len(disk'[i]) /\ i = dir[active]
                  /\ disk'[i][k].id = written + 1
    <2>1. CASE k > Len(disk[i])
      BY <1>1, <2>1
    <2>2. CASE ~(k > Len(disk[i]))
      <3>1. k \in 1..Len(disk[i])
        BY <1>1, <2>2
      <3> QED BY <1>1, <3>1 DEF BytesAreNumbered
    <2> QED BY <2>1, <2>2
  <1>3. ASSUME NEW i \in Inodes, NEW k \in 1..Len(disk'[i])
        PROVE  disk'[i][k].id \in 1..written'
    BY <1>1, <1>2
  <1>4. ASSUME NEW i \in Inodes, NEW k \in 1..Len(disk'[i]),
               NEW l \in 1..Len(disk'[i]), k < l
        PROVE  disk'[i][k].id < disk'[i][l].id
    <2>1. k # Len(disk'[i])
      BY <1>1, <1>4
    <2>2. /\ k \in 1..Len(disk[i]) /\ disk'[i][k] = disk[i][k]
          /\ disk[i][k].id \in 1..written
      BY <1>2, <2>1
    <2>3. CASE l \in 1..Len(disk[i]) /\ disk'[i][l] = disk[i][l]
      BY <1>4, <2>2, <2>3 DEF BytesAreNumbered
    <2>4. CASE disk'[i][l].id = written + 1
      BY <1>1, <2>2, <2>4
    <2> QED BY <1>2, <2>3, <2>4
  <1>5. ASSUME NEW i \in Inodes, NEW j \in Inodes, NEW k \in 1..Len(disk'[i]),
               NEW l \in 1..Len(disk'[j]), disk'[i][k].id = disk'[j][l].id
        PROVE  i = j
    <2>1. CASE disk'[i][k].id = written + 1
      <3>1. ~(disk'[j][l].id \in 1..written) /\ ~(disk'[i][k].id \in 1..written)
        BY <1>1, <1>5, <2>1
      <3>2. i = dir[active] /\ j = dir[active]
        BY <1>2, <3>1
      <3> QED BY <3>2
    <2>2. CASE disk'[i][k].id # written + 1
      <3>1. /\ k \in 1..Len(disk[i]) /\ disk'[i][k] = disk[i][k]
            /\ l \in 1..Len(disk[j]) /\ disk'[j][l] = disk[j][l]
        BY <1>2, <1>5, <2>2
      <3> QED BY <1>5, <3>1 DEF BytesAreNumbered
    <2> QED BY <2>1, <2>2
  <1>6. BytesAreNumbered'
    BY <1>3, <1>4, <1>5 DEF BytesAreNumbered, Inodes
  <1> QED BY <1>6

\* The server only adds a byte, or gives a name to an empty file.
LEMMA ServerKeepsBytes ==
  ASSUME BytesInv, OnlyGrow, Server, GrowInv'
  PROVE  BytesInv'
  <1> USE DEF BytesInv, GrowInv
  <1>0. TypeFacts
    BY TypeFactsHold
  <1>1. CASE Append1
    <2>1. UNCHANGED dir
      BY <1>1, AppendAddsOne
    <2>2. BytesAreNumbered'
      BY <1>1, AppendKeepsNumbers
    <2> QED BY <2>1, <2>2 DEF OneNameEach
  <1>2. CASE Rotate
    <2>1. PICK i \in FreeInodes : dir' = [dir EXCEPT ![active + 1] = i]
      BY <1>2 DEF Rotate
    <2>2. UNCHANGED <<disk, written>>
      BY <1>2 DEF Rotate
    <2>3. \A p \in Paths : dir[p] # i
      BY DEF FreeInodes
    <2>4. OneNameEach'
      BY <1>0, <2>1, <2>3 DEF OneNameEach, TypeFacts
    <2> QED BY <2>2, <2>4 DEF BytesAreNumbered
  <1> QED BY <1>1, <1>2 DEF Server, Rename, Truncate, Reuse, Remove, OnlyGrow

\* The reader changes no file.
LEMMA OthersKeepBytes ==
  ASSUME BytesInv, GrowInv', UNCHANGED <<dir, disk, written>>
  PROVE  BytesInv'
  BY DEF BytesInv, BytesAreNumbered, OneNameEach

(***************************************************************************)
(* New bytes are beyond every offset, and have not been delivered.         *)
(***************************************************************************)
LEMMA ServerKeepsStream ==
  ASSUME StreamInv, OnlyGrow, Server, BytesInv'
  PROVE  StreamInv'
  <1> USE DEF StreamInv, BytesInv, GrowInv, server, fileSet, reader
  <1>0. TypeFacts
    BY TypeFactsHold
  <1>1. CASE Append1
    <2>1. /\ UNCHANGED <<dir, active, store, cur, pending, out>>
          /\ written' = written + 1 /\ written \in Nat
      BY <1>1, AppendAddsOne
    <2>2. \A i \in Inodes :
            /\ Len(disk[i]) \in Nat /\ Len(disk'[i]) \in Nat
            /\ \A k \in 1..Len(disk[i]) : disk'[i][k] = disk[i][k]
            /\ \A k \in 1..Len(disk'[i]) : k > Len(disk[i]) =>
                 disk'[i][k].id = written + 1
      BY <1>1, AppendAddsOne
    <2>3. /\ Delivered' = Delivered /\ written + 1 \notin Delivered
          /\ \A i \in 1..Len(pending) : pending[i].id # written + 1
      BY <2>1 DEF Delivered, OutIsWritten, HeldIsNew
    <2>4. OutIsWritten' /\ HeldIsNew'
      BY <2>1, <2>3 DEF OutIsWritten, HeldIsNew
    <2>5. ASSUME NEW p \in Paths, dir[p] # 0,
                 NEW k \in (store.offset[p] + 1)..Len(disk'[dir[p]])
          PROVE  /\ disk'[dir[p]][k].id \notin Delivered
                 /\ cur.path = 0 => \A i \in 1..Len(pending) :
                                      pending[i].id # disk'[dir[p]][k].id
      <3>1. dir[p] \in Inodes /\ store.offset[p] \in Nat
        BY <1>0, <2>5 DEF TypeFacts
      <3>2. CASE k > Len(disk[dir[p]])
        <4>1. disk'[dir[p]][k].id = written + 1
          BY <2>2, <2>5, <3>1, <3>2
        <4> QED BY <2>3, <4>1
      <3>3. CASE ~(k > Len(disk[dir[p]]))
        <4>1. k \in (store.offset[p] + 1)..Len(disk[dir[p]]) /\ k \in 1..Len(disk[dir[p]])
          BY <2>2, <2>5, <3>1, <3>3
        <4>2. disk'[dir[p]][k] = disk[dir[p]][k]
          BY <2>2, <3>1, <4>1
        <4> QED BY <2>5, <4>1, <4>2 DEF BeyondOffsetIsNew
      <3> QED BY <3>2, <3>3
    <2>6. BeyondOffsetIsNew'
      BY <2>1, <2>3, <2>5 DEF BeyondOffsetIsNew
    <2> QED BY <2>1, <2>4, <2>6
  <1>2. CASE Rotate
    <2>1. PICK i \in FreeInodes : dir' = [dir EXCEPT ![active + 1] = i]
      BY <1>2 DEF Rotate
    <2>2. UNCHANGED <<disk, written, store, cur, pending, out>>
      BY <1>2 DEF Rotate
    <2>3. i \in Inodes /\ disk[i] = <<>>
      BY DEF FreeInodes
    <2>4. \A p \in Paths : dir'[p] = dir[p] \/ dir'[p] = i
      BY <1>0, <2>1 DEF TypeFacts
    <2>5. ASSUME NEW p \in Paths, dir'[p] # 0,
                 NEW k \in (store.offset[p] + 1)..Len(disk[dir'[p]])
          PROVE  dir'[p] = dir[p]
      <3>1. Len(disk[i]) = 0 /\ store.offset[p] \in Nat
        BY <1>0, <2>3 DEF TypeFacts
      <3>2. (store.offset[p] + 1)..Len(disk[i]) = {}
        BY <3>1
      <3>3. dir'[p] # i
        BY <2>5, <3>2, SMTT(20)
      <3> QED BY <2>4, <3>3
    <2>6. BeyondOffsetIsNew'
      BY <2>2, <2>5 DEF BeyondOffsetIsNew, Delivered
    <2> QED BY <2>2, <2>6 DEF OutIsWritten, HeldIsNew, Delivered
  <1> QED BY <1>1, <1>2 DEF Server, Rename, Truncate, Reuse, Remove, OnlyGrow

(***************************************************************************)
(* A session begins and ends with nothing held; a restart finds the store  *)
(* as it was.                                                              *)
(***************************************************************************)
LEMMA SessionKeepsStream ==
  ASSUME StreamInv, StoreRemembers, BytesInv',
         Open \/ ReadCall \/ Cancel \/ ReadCancelled \/ Close \/ Restart
  PROVE  StreamInv'
  <1> USE DEF StreamInv, server, fileSet, reader
  <1>1. CASE ReadCall \/ Cancel \/ ReadCancelled
    <2>1. UNCHANGED <<dir, disk, written, store, cur, pending, out>>
      BY <1>1 DEF ReadCall, Cancel, ReadCancelled
    <2>2. OutIsWritten' /\ HeldIsNew'
      BY <2>1 DEF OutIsWritten, HeldIsNew, Delivered
    <2>3. BeyondOffsetIsNew'
      BY <2>1 DEF BeyondOffsetIsNew, Delivered
    <2> QED BY <2>1, <2>2, <2>3
  <1>2. CASE Open \/ Close \/ Restart
    <2>1. UNCHANGED <<dir, disk, written, store, out>> /\ pending' = <<>>
      BY <1>2 DEF Open, Close, Restart, Reset, StoreRemembers
    <2>2. Len(pending') = 0
      BY <2>1
    <2>3. \A i \in 1..Len(pending') : FALSE
      BY <2>2
    <2>4. OutIsWritten'
      BY <2>1 DEF OutIsWritten
    <2>5. HeldIsNew'
      BY <2>3 DEF HeldIsNew
    <2>6. BeyondOffsetIsNew'
      BY <2>1, <2>3 DEF BeyondOffsetIsNew, Delivered
    <2> QED BY <2>1, <2>4, <2>5, <2>6
  <1> QED BY <1>1, <1>2

\* Looking for a file reads the store and touches no byte.
LEMMA ScanKeepsStream ==
  ASSUME StreamInv, BytesInv', StartScan \/ ScanPath \/ ScanEnd \/ OpenTarget
  PROVE  StreamInv'
  <1> USE DEF StreamInv, BytesInv, GrowInv, TypeInv, server, fileSet, reader
  <1>0. /\ store.order \in Seq(Paths) /\ store.offset \in [Paths -> Nat]
        /\ store = [order |-> store.order, offset |-> store.offset]
    BY DEF TypeOK, StoreShape
  <1>1. UNCHANGED <<dir, disk, written, pending, out>>
    BY DEF StartScan, ScanPath, ScanEnd, OpenTarget
  <1>2. store'.offset = store.offset /\ Distinct(store'.order)
    <2>1. CASE ScanPath
      <3> DEFINE p == Min(todo)
      <3>1. p \in Paths
        BY <2>1, ZeroIsNothing, LeastOf DEF ScanPath, TypeOK
      <3>2. store' = store \/ store' = AfterGet(store, p)
        BY <2>1 DEF ScanPath
      <3> HIDE DEF p
      <3> QED BY <1>0, <3>1, <3>2, AfterGetTyped, GetKeepsDistinct
    <2>2. CASE StartScan \/ ScanEnd \/ OpenTarget
      BY <2>2 DEF StartScan, ScanEnd, OpenTarget
    <2> QED BY <2>1, <2>2
  <1>3. cur' = cur \/ \A i \in 1..Len(pending) : FALSE
    <2>1. CASE OpenTarget
      <3>1. Len(pending) = 0
        BY <2>1 DEF OpenTarget, SessionShape
      <3> QED BY <3>1
    <2> QED BY <2>1 DEF StartScan, ScanPath, ScanEnd
  <1>4. OutIsWritten' /\ HeldIsNew'
    BY <1>1 DEF OutIsWritten, HeldIsNew, Delivered
  <1>5. BeyondOffsetIsNew'
    BY <1>1, <1>2, <1>3 DEF BeyondOffsetIsNew, Delivered
  <1> QED BY <1>2, <1>4, <1>5

\* What leaves is written and new; so is what stays.
LEMMA DeliverKeepsNew ==
  ASSUME TypeInv, OutIsWritten, HeldIsNew, NEW size \in BufSizes, Deliver(size)
  PROVE  OutIsWritten' /\ HeldIsNew'
  <1> DEFINE l == Len(pending)
             m == Len(out)
  <1>0. TypeFacts /\ TypeOK
    BY TypeFactsHold DEF TypeInv
  <1>1. PICK n \in 1..l :
          /\ Len(pending') = l - n
          /\ \A i \in 1..(l - n) : pending'[i] = pending[n + i]
          /\ Len(out') = m + n
          /\ \A i \in 1..m : out'[i] = out[i]
          /\ \A i \in 1..n : out'[m + i] = pending[i].id
          /\ Delivered' = Delivered \cup {pending[i].id : i \in 1..n}
    BY DeliverOutput
  <1>2. UNCHANGED written
    BY DEF Deliver, server
  <1>3. l \in Nat /\ m \in Nat
    BY <1>0 DEF TypeFacts, TypeOK
  <1>4. /\ \A i \in 1..l : pending[i].id \in 1..written /\ pending[i].id \notin Delivered
        /\ \A i, j \in 1..l : i < j => pending[i].id < pending[j].id
    BY DEF HeldIsNew
  <1> HIDE DEF l, m
  <1>5. \A i \in 1..(l - n) : n + i \in 1..l
    BY <1>3
  <1>6. OutIsWritten'
    <2> SUFFICES ASSUME NEW i \in 1..(m + n) PROVE out'[i] \in 1..written
      BY <1>1, <1>2 DEF OutIsWritten
    <2>1. CASE i <= m
      <3>1. i \in 1..m
        BY <1>3, <2>1
      <3> QED BY <3>1, <1>1 DEF OutIsWritten, m
    <2>2. CASE ~(i <= m)
      <3>1. i - m \in 1..n /\ i - m \in 1..l /\ m + (i - m) = i
        BY <1>3, <2>2
      <3>2. out'[m + (i - m)] = pending[i - m].id
        BY <3>1, <1>1
      <3> QED BY <3>1, <3>2, <1>4
    <2> QED BY <2>1, <2>2
  <1>7. HeldIsNew'
    <2>1. ASSUME NEW i \in 1..(l - n)
          PROVE  pending'[i].id \in 1..written /\ pending'[i].id \notin Delivered'
      <3>1. n + i \in 1..l /\ pending'[i] = pending[n + i]
        BY <1>1, <1>5
      <3>2. \A j \in 1..n : pending[j].id # pending[n + i].id
        <4> TAKE j \in 1..n
        <4>1. j \in 1..l /\ j < n + i
          BY <1>3, <3>1
        <4>2. pending[j].id < pending[n + i].id
          BY <1>4, <3>1, <4>1
        <4>3. pending[j].id \in 1..written /\ pending[n + i].id \in 1..written
          BY <1>4, <3>1, <4>1
        <4> QED BY <4>2, <4>3
      <3> QED BY <3>1, <3>2, <1>1, <1>4
    <2>2. ASSUME NEW i \in 1..(l - n), NEW j \in 1..(l - n), i < j
          PROVE  pending'[i].id < pending'[j].id
      <3>1. n + i < n + j
        BY <1>3, <2>2
      <3> QED BY <3>1, <1>1, <1>4, <1>5
    <2> QED BY <2>1, <2>2, <1>1, <1>2 DEF HeldIsNew
  <1> QED BY <1>6, <1>7

(***************************************************************************)
(* Delivering moves the offset over exactly the bytes delivered.           *)
(***************************************************************************)
LEMMA DeliverKeepsStream ==
  ASSUME StreamInv, StoreRemembers, BytesInv', NEW size \in BufSizes, Deliver(size)
  PROVE  StreamInv'
  <1> USE DEF StreamInv, BytesInv, GrowInv
  <1> DEFINE l == Len(pending)
             m == Len(out)
             Sent == {pending[i].id : i \in 1..l}
  <1>0. TypeFacts /\ TypeOK
    BY TypeFactsHold DEF TypeInv
  <1>1. PICK n \in 1..l :
          /\ Len(pending') = l - n
          /\ \A i \in 1..(l - n) : pending'[i] = pending[n + i]
          /\ Len(out') = m + n
          /\ \A i \in 1..m : out'[i] = out[i]
          /\ \A i \in 1..n : out'[m + i] = pending[i].id
          /\ Delivered' = Delivered \cup {pending[i].id : i \in 1..n}
          /\ store' = IF cur.path = 0 THEN store
                      ELSE AfterSet(store, cur.path, cur.pos - (l - n))
    BY DeliverOutput
  <1>2. UNCHANGED <<dir, disk, written, cur>>
    BY DEF Deliver, server
  <1>3. l \in Nat /\ m \in Nat
    BY <1>0 DEF TypeFacts, TypeOK
  <1>4. /\ \A i \in 1..l : pending[i].id \in 1..written /\ pending[i].id \notin Delivered
        /\ \A i, j \in 1..l : i < j => pending[i].id < pending[j].id
    BY DEF HeldIsNew
  <1> HIDE DEF l, m
  <1>5. \A i \in 1..(l - n) : n + i \in 1..l
    BY <1>3
  <1>6. OutIsWritten'
    BY DeliverKeepsNew
  <1>7. HeldIsNew'
    BY DeliverKeepsNew
  <1>8. CASE cur.path = 0
    <2>1. store' = store
      BY <1>1, <1>8
    <2>2. ASSUME NEW p \in Paths, dir[p] # 0,
                 NEW k \in (store.offset[p] + 1)..Len(disk[dir[p]])
          PROVE  /\ disk[dir[p]][k].id \notin Delivered'
                 /\ \A i \in 1..Len(pending') : pending'[i].id # disk[dir[p]][k].id
      <3>1. /\ disk[dir[p]][k].id \notin Delivered
            /\ \A i \in 1..l : pending[i].id # disk[dir[p]][k].id
        BY <1>8, <2>2 DEF BeyondOffsetIsNew, l
      <3>2. \A i \in 1..n : i \in 1..l
        BY <1>3
      <3> QED BY <3>1, <3>2, <1>1, <1>5, SMTT(20)
    <2>3. BeyondOffsetIsNew'
      BY <1>2, <2>1, <2>2 DEF BeyondOffsetIsNew
    <2> QED BY <2>1, <2>3, <1>6, <1>7
  <1>9. CASE cur.path # 0
    <2> DEFINE c == cur.path
               o == cur.pos - (l - n)
    <2>1. /\ c \in Paths /\ cur.ino = dir[c] /\ dir[c] # 0 /\ dir[c] \in Inodes
          /\ cur.pos \in Nat /\ cur.pos <= Len(disk[dir[c]]) /\ l <= cur.pos
          /\ Len(disk[dir[c]]) \in Nat
          /\ \A i \in 1..l : pending[i] = disk[dir[c]][(cur.pos - l) + i]
      BY <1>0, <1>9, ZeroIsNothing DEF HeldInPlace, TypeFacts, l
    <2>2. store' = AfterSet(store, c, o) /\ o \in Nat
      <3>1. store' = AfterSet(store, cur.path, cur.pos - (l - n))
        BY <1>1, <1>9
      <3>2. cur.pos - (l - n) \in Nat
        BY <1>3, <2>1
      <3> QED BY <3>1, <3>2 DEF c, o
    <2>3. store.order \in Seq(Paths) /\ store.offset \in [Paths -> Nat]
      BY <1>0 DEF TypeOK
    <2> HIDE DEF c, o
    <2>4. Distinct(store'.order) /\ store'.offset = [store.offset EXCEPT ![c] = o]
      <3>1. Cardinality(Paths) <= MaxTracked /\ Distinct(store.order) /\ c \in Paths
        BY <2>1 DEF StoreRemembers
      <3> QED BY <2>2, <2>3, <3>1, SetKeepsTheOthers
    <2>5. ASSUME NEW i \in 1..n
          PROVE  /\ (cur.pos - l) + i \in 1..o /\ (cur.pos - l) + i \in 1..Len(disk[dir[c]])
                 /\ pending[i].id = disk[dir[c]][(cur.pos - l) + i].id
      <3>1. i \in 1..l /\ (cur.pos - l) + i \in 1..o /\ o <= cur.pos
        BY <1>3, <2>1 DEF o
      <3>2. (cur.pos - l) + i \in 1..Len(disk[dir[c]])
        BY <2>1, <2>2, <3>1
      <3> QED BY <2>1, <3>1, <3>2
    <2>6. ASSUME NEW p \in Paths, dir[p] # 0,
                 NEW k \in (store'.offset[p] + 1)..Len(disk[dir[p]])
          PROVE  disk[dir[p]][k].id \notin Delivered'
      <3>1. dir[p] \in Inodes /\ Len(disk[dir[p]]) \in Nat /\ store.offset[p] \in Nat
        BY <1>0, <2>6 DEF TypeFacts
      <3>2. CASE p = c
        <4>1. store'.offset[p] = o /\ store.offset[p] = cur.pos - l /\ cur.pos - l <= o
          BY <2>3, <2>4, <3>2, <1>3, <1>9, <2>1 DEF HeldInPlace, c, o, l
        <4>2. k \in (store.offset[p] + 1)..Len(disk[dir[p]]) /\ k \in 1..Len(disk[dir[p]])
          BY <2>1, <2>2, <3>1, <4>1, <2>6, <1>3
        <4>3. disk[dir[p]][k].id \notin Delivered
          BY <2>6, <4>2 DEF BeyondOffsetIsNew
        <4>4. ASSUME NEW i \in 1..n PROVE pending[i].id # disk[dir[p]][k].id
          <5> DEFINE j == (cur.pos - l) + i
          <5>1. j < k /\ j \in 1..Len(disk[dir[p]]) /\ pending[i].id = disk[dir[p]][j].id
            BY <2>2, <2>5, <2>6, <3>2, <4>1, <2>1, <1>3
          <5> HIDE DEF j
          <5>2. disk[dir[p]][j].id < disk[dir[p]][k].id
            BY <3>1, <4>2, <5>1 DEF BytesAreNumbered
          <5>3. disk[dir[p]][j].id \in 1..written /\ disk[dir[p]][k].id \in 1..written
            BY <3>1, <4>2, <5>1 DEF BytesAreNumbered
          <5> QED BY <5>1, <5>2, <5>3
        <4> QED BY <1>1, <4>3, <4>4
      <3>3. CASE p # c
        <4>1. store'.offset[p] = store.offset[p]
          BY <2>3, <2>4, <3>3
        <4>2. disk[dir[p]][k].id \notin Delivered
          BY <2>6, <4>1 DEF BeyondOffsetIsNew
        <4>3. dir[p] # dir[c] /\ k \in 1..Len(disk[dir[p]])
          BY <2>1, <2>6, <3>1, <3>3, <4>1 DEF OneNameEach
        <4>4. ASSUME NEW i \in 1..n PROVE pending[i].id # disk[dir[p]][k].id
          <5> DEFINE j == (cur.pos - l) + i
          <5>1. /\ j \in 1..Len(disk[dir[c]]) /\ pending[i].id = disk[dir[c]][j].id
                /\ dir[c] \in Inodes
            BY <2>1, <2>5
          <5> HIDE DEF j
          <5> QED BY <3>1, <4>3, <5>1 DEF BytesAreNumbered
        <4> QED BY <1>1, <4>2, <4>4
      <3> QED BY <3>2, <3>3
    <2>7. BeyondOffsetIsNew'
      BY <1>2, <1>9, <2>6 DEF BeyondOffsetIsNew
    <2> QED BY <2>4, <2>7, <1>6, <1>7
  <1> QED BY <1>8, <1>9

(***************************************************************************)
(* A number is found in one place only.                                    *)
(***************************************************************************)
LEMMA OnePlaceEach ==
  ASSUME TypeInv, BytesAreNumbered, NEW i \in Inodes, NEW j \in Inodes,
         NEW k \in 1..Len(disk[i]), NEW m \in 1..Len(disk[j]),
         disk[i][k].id = disk[j][m].id
  PROVE  i = j /\ k = m
  <1>1. i = j
    BY DEF BytesAreNumbered
  <1>2. Len(disk[i]) \in Nat
    BY TypeFactsHold DEF TypeFacts
  <1>3. disk[i][k].id \in 1..written /\ written \in Nat
    BY DEF BytesAreNumbered, TypeInv, TypeOK
  <1>4. ~(k < m) /\ ~(m < k)
    BY <1>1, <1>3 DEF BytesAreNumbered
  <1> QED BY <1>1, <1>2, <1>4

(***************************************************************************)
(* The bytes held of the open file are those between its offset and the    *)
(* position of the handle.                                                 *)
(***************************************************************************)
PlaceHeld(i) == (cur.pos - Len(pending)) + i

HeldBehindHandle ==
  cur.path # 0 =>
    /\ cur.path \in Paths /\ cur.ino = dir[cur.path]
    /\ cur.ino \in Inodes /\ cur.ino # 0
    /\ cur.pos \in 0..Len(disk[cur.ino]) /\ Len(disk[cur.ino]) \in Nat
    /\ Len(pending) \in 0..cur.pos
    /\ store.offset[cur.path] = cur.pos - Len(pending)
    /\ \A i \in 1..Len(pending) :
         /\ PlaceHeld(i) \in 1..cur.pos /\ PlaceHeld(i) \in 1..Len(disk[cur.ino])
         /\ PlaceHeld(i) > store.offset[cur.path]
         /\ pending[i] = disk[cur.ino][PlaceHeld(i)]

\* The invariant puts the held bytes there.
LEMMA HeldPlaces == BytesInv => HeldBehindHandle
  <1> SUFFICES ASSUME BytesInv, cur.path # 0 PROVE HeldBehindHandle
    BY DEF HeldBehindHandle
  <1> DEFINE c == cur.path
             l == Len(pending)
             f == disk[cur.ino]
  <1>1. TypeFacts
    BY TypeFactsHold DEF BytesInv, GrowInv
  <1>2. /\ c \in Paths /\ cur.ino \in Inodes /\ cur.ino # 0 /\ cur.ino = dir[c]
        /\ cur.pos \in Nat /\ Len(f) \in Nat /\ l \in Nat
        /\ cur.pos <= Len(f) /\ l <= cur.pos /\ store.offset[c] = cur.pos - l
        /\ \A i \in 1..l : pending[i] = f[(cur.pos - l) + i]
    BY <1>1, ZeroIsNothing DEF BytesInv, GrowInv, HeldInPlace, TypeFacts
  <1> HIDE DEF l, f
  <1>3. ASSUME NEW i \in 1..l
        PROVE  /\ (cur.pos - l) + i \in 1..cur.pos /\ (cur.pos - l) + i \in 1..Len(f)
               /\ (cur.pos - l) + i > store.offset[c]
    BY <1>2
  <1>4. cur.pos \in 0..Len(f) /\ l \in 0..cur.pos
    BY <1>2
  <1> QED BY <1>2, <1>3, <1>4 DEF HeldBehindHandle, PlaceHeld, l, f

(***************************************************************************)
(* Reading a block: what is held of the open file is beyond its offset.    *)
(***************************************************************************)
LEMMA FillBlockKeepsStream ==
  ASSUME StreamInv, BytesInv', FillBlock
  PROVE  StreamInv'
  <1>1. /\ UNCHANGED <<dir, disk, written, store, out>>
        /\ cur.path # 0 /\ cur'.path = cur.path
    <2>1. TypeInv /\ cur \in [path : {0} \cup Paths, ino : {0} \cup Inodes,
                              id : Identities, pos : Nat]
      BY DEF StreamInv, BytesInv, GrowInv, TypeInv, TypeOK
    <2>2. UNCHANGED <<dir, disk, written, store, out>>
      BY DEF FillBlock, server, fileSet
    <2>3. cur.path # 0
      BY <2>1 DEF FillBlock, Filling, TypeInv, SessionShape
    <2>4. cur'.path = cur.path
      BY <2>1 DEF FillBlock
    <2> QED BY <2>2, <2>3, <2>4
  <1>2. Distinct(store'.order) /\ OutIsWritten' /\ BeyondOffsetIsNew'
    <2>1. Distinct(store'.order) /\ OutIsWritten'
      BY <1>1 DEF StreamInv, OutIsWritten
    <2>2. Delivered' = Delivered /\ cur'.path # 0 /\ BeyondOffsetIsNew
      BY <1>1 DEF StreamInv, Delivered
    <2>3. BeyondOffsetIsNew'
      BY <1>1, <2>2 DEF BeyondOffsetIsNew
    <2> QED BY <2>1, <2>3
  <1>3. HeldBehindHandle'
    BY HeldPlaces, PTL
  <1>4. HeldIsNew'
    <2> DEFINE l == Len(pending')
               f == disk[cur'.ino]
               j(i) == PlaceHeld(i)'
    <2>1. /\ cur'.path \in Paths /\ cur'.ino = dir[cur'.path]
          /\ cur'.ino \in Inodes /\ cur'.ino # 0 /\ l \in Nat /\ cur'.pos \in Nat
          /\ Len(f) \in Nat /\ store.offset[cur'.path] \in Nat
          /\ \A i \in 1..l :
               /\ j(i) = (cur'.pos - l) + i
               /\ j(i) \in 1..Len(f) /\ j(i) > store.offset[cur'.path]
               /\ pending'[i] = f[j(i)]
      <3>1. /\ cur'.path \in Paths /\ cur'.ino = dir'[cur'.path]
            /\ cur'.ino \in Inodes /\ cur'.ino # 0
            /\ cur'.pos \in 0..Len(disk'[cur'.ino]) /\ Len(disk'[cur'.ino]) \in Nat
            /\ Len(pending') \in 0..cur'.pos
            /\ store'.offset[cur'.path] = cur'.pos - Len(pending')
            /\ \A i \in 1..Len(pending') :
                 /\ j(i) \in 1..Len(disk'[cur'.ino])
                 /\ j(i) > store'.offset[cur'.path]
                 /\ pending'[i] = disk'[cur'.ino][j(i)]
        BY <1>1, <1>3 DEF HeldBehindHandle
      <3>2. \A i : j(i) = (cur'.pos - l) + i
        BY DEF PlaceHeld
      <3> HIDE DEF j
      <3> QED BY <1>1, <3>1, <3>2
    <2>2. ASSUME NEW i \in 1..l
          PROVE  f[j(i)].id \in 1..written /\ f[j(i)].id \notin Delivered
      <3>1. j(i) \in 1..Len(f) /\ j(i) \in (store.offset[cur'.path] + 1)..Len(f)
        BY <2>1
      <3> HIDE DEF j
      <3> QED BY <2>1, <3>1 DEF StreamInv, BytesInv, BytesAreNumbered, BeyondOffsetIsNew
    <2>3. ASSUME NEW i \in 1..l, NEW k \in 1..l, i < k
          PROVE  f[j(i)].id < f[j(k)].id
      <3>1. j(i) < j(k) /\ j(i) \in 1..Len(f) /\ j(k) \in 1..Len(f)
        BY <2>1, <2>3
      <3> HIDE DEF j
      <3> QED BY <2>1, <3>1 DEF StreamInv, BytesInv, BytesAreNumbered
    <2>4. Delivered' = Delivered
      BY <1>1 DEF Delivered
    <2> QED BY <1>1, <2>1, <2>2, <2>3, <2>4 DEF HeldIsNew
  <1> QED BY <1>2, <1>4 DEF StreamInv

(***************************************************************************)
(* The end of a file: its offset moves past the bytes held, which are now  *)
(* the tail to be delivered.                                               *)
(***************************************************************************)
LEMMA EndKeepsStream ==
  ASSUME StreamInv, StoreRemembers, BytesInv', FillEnd \/ AtEndOfFile
  PROVE  StreamInv'
  <1> USE DEF StreamInv
  <1>0. UNCHANGED <<dir, disk, written, pending, out>> /\ cur.path # 0
    BY DEF FillEnd, AtEndOfFile, Filling, server, BytesInv, GrowInv, TypeInv, SessionShape
  <1>1. OutIsWritten' /\ HeldIsNew'
    BY <1>0 DEF OutIsWritten, HeldIsNew, Delivered
  <1>2. CASE UNCHANGED <<store, cur>>
    <2>1. Distinct(store'.order) /\ BeyondOffsetIsNew'
      BY <1>0, <1>2 DEF BeyondOffsetIsNew, Delivered
    <2> QED BY <1>1, <2>1
  <1>3. CASE CloseCurrent
    <2> DEFINE c == cur.path
               l == Len(pending)
               f == disk[cur.ino]
               j(i) == PlaceHeld(i)
    <2>1. /\ c \in Paths /\ cur.ino = dir[c] /\ cur.ino \in Inodes
          /\ Len(f) \in Nat /\ cur.pos \in 0..Len(f) /\ l \in 0..cur.pos
          /\ store.offset[c] = cur.pos - l
          /\ \A i \in 1..l : j(i) \in 1..cur.pos /\ j(i) \in 1..Len(f) /\ pending[i] = f[j(i)]
      BY <1>0, HeldPlaces DEF HeldBehindHandle
    <2> HIDE DEF j, l
    <2>2. store' = AfterSet(store, c, cur.pos) /\ cur' = NoFile /\ cur.pos \in Nat
      BY <1>3, <2>1 DEF CloseCurrent, OffsetAtClose
    <2>3. store.order \in Seq(Paths) /\ store.offset \in [Paths -> Nat]
      BY DEF BytesInv, GrowInv, TypeInv, TypeOK
    <2>4. /\ Distinct(store'.order)
          /\ store'.offset = [store.offset EXCEPT ![c] = cur.pos]
      <3>1. Cardinality(Paths) <= MaxTracked /\ Distinct(store.order)
        BY DEF StoreRemembers
      <3> QED BY <2>1, <2>2, <2>3, <3>1, SetKeepsTheOthers
    <2>5. \A p \in Paths : store'.offset[p] = IF p = c THEN cur.pos ELSE store.offset[p]
      BY <2>3, <2>4
    <2>6. ASSUME NEW p \in Paths, dir[p] # 0,
                 NEW k \in (store'.offset[p] + 1)..Len(disk[dir[p]])
          PROVE  /\ disk[dir[p]][k].id \notin Delivered
                 /\ \A i \in 1..l : pending[i].id # disk[dir[p]][k].id
      <3>1. /\ dir[p] \in Inodes /\ Len(disk[dir[p]]) \in Nat
            /\ store.offset[p] \in Nat /\ store'.offset[p] \in Nat
            /\ store.offset[p] <= store'.offset[p]
        <4>1. dir[p] \in Inodes /\ Len(disk[dir[p]]) \in Nat
          BY <2>6, TypeFactsHold DEF BytesInv, GrowInv, TypeFacts
        <4>2. store.offset[p] \in Nat /\ store'.offset[p] \in Nat
          BY <2>2, <2>3, <2>5
        <4>3. store.offset[p] <= store'.offset[p]
          <5>1. store.offset[c] <= cur.pos
            BY <2>1, <2>2, <2>3
          <5>2. store'.offset[p] = IF p = c THEN cur.pos ELSE store.offset[p]
            BY <2>5
          <5> QED BY <4>2, <5>1, <5>2
        <4> QED BY <4>1, <4>2, <4>3
      <3>2. k \in (store.offset[p] + 1)..Len(disk[dir[p]]) /\ k \in 1..Len(disk[dir[p]])
        BY <3>1
      <3>3. disk[dir[p]][k].id \notin Delivered
        BY <2>6, <3>2 DEF BeyondOffsetIsNew
      <3>4. ASSUME NEW i \in 1..l, pending[i].id = disk[dir[p]][k].id PROVE FALSE
        <4>1. j(i) \in 1..Len(f) /\ f[j(i)].id = disk[dir[p]][k].id /\ j(i) \in 1..cur.pos
          BY <2>1, <3>4
        <4>2. cur.ino = dir[p] /\ j(i) = k
          <5>1. BytesInv
            OBVIOUS
          <5>2. cur.ino \in Inodes /\ dir[p] \in Inodes /\ k \in 1..Len(disk[dir[p]])
            BY <2>1, <3>1, <3>2
          <5> QED BY <4>1, <5>1, <5>2, OnePlaceEach DEF BytesInv, GrowInv
        <4>3. p = c
          BY <2>1, <2>6, <4>2 DEF BytesInv, OneNameEach
        <4> QED BY <2>1, <2>5, <4>1, <4>2, <4>3
      <3> QED BY <3>3, <3>4
    <2>7. BeyondOffsetIsNew'
      BY <1>0, <2>6 DEF BeyondOffsetIsNew, Delivered, l
    <2> QED BY <1>1, <2>4, <2>7
  <1> QED BY <1>2, <1>3 DEF FillEnd, AtEndOfFile

(***************************************************************************)
(* The bytes are numbered throughout, and while the store remembers the    *)
(* whole invariant holds.                                                  *)
(***************************************************************************)
LEMMA BytesInvHolds ==
  ASSUME OnlyGrow
  PROVE  Spec => []BytesInv
  <1>1. Init => BytesAreNumbered /\ OneNameEach
    <2> SUFFICES ASSUME Init PROVE BytesAreNumbered /\ OneNameEach
      OBVIOUS
    <2>1. \A i \in Inodes : Len(disk[i]) = 0
      BY DEF Init
    <2> QED BY <2>1 DEF Init, BytesAreNumbered, OneNameEach
  <1>2. BytesInv /\ [Next]_vars /\ GrowInv' => BytesInv'
    <2> SUFFICES ASSUME BytesInv, [Next]_vars, GrowInv' PROVE BytesInv'
      OBVIOUS
    <2>1. CASE UNCHANGED vars
      BY <2>1, OthersKeepBytes DEF vars, server
    <2>2. CASE Server
      BY <2>2, ServerKeepsBytes
    <2>3. CASE Open \/ ReadCall \/ ReadStep \/ Cancel \/ Close \/ Restart
      <3>1. UNCHANGED <<dir, disk, written>>
        BY <2>3 DEF Open, ReadCall, ReadStep, Cancel, Close, Restart, Reset, ReadCancelled,
                    Deliver, StartScan, ScanPath, ScanEnd, OpenTarget, FillBlock, FillEnd,
                    AtEndOfFile, server
      <3> QED BY <3>1, OthersKeepBytes
    <2> QED BY <2>1, <2>2, <2>3 DEF Next
  <1>3. BytesInv <=> GrowInv /\ (BytesAreNumbered /\ OneNameEach)
    BY DEF BytesInv
  <1> QED BY <1>1, <1>2, <1>3, GrowInvHolds, PTL DEF Spec

\* Every step keeps the invariant of the stream.
LEMMA StepKeepsStream ==
  ASSUME OnlyGrow, StoreRemembers, StreamInv, [Next]_vars, BytesInv'
  PROVE  StreamInv'
  <1>1. CASE UNCHANGED vars
    <2>1. UNCHANGED <<dir, disk, written, store, cur, pending, out>>
      BY <1>1 DEF vars, server, fileSet, reader
    <2>2. OutIsWritten' /\ HeldIsNew'
      BY <2>1 DEF StreamInv, OutIsWritten, HeldIsNew, Delivered
    <2>3. BeyondOffsetIsNew'
      BY <2>1 DEF StreamInv, BeyondOffsetIsNew, Delivered
    <2> QED BY <2>1, <2>2, <2>3 DEF StreamInv
  <1>2. CASE Server
    BY <1>2, ServerKeepsStream
  <1>3. CASE Open \/ ReadCall \/ Cancel \/ ReadCancelled \/ Close \/ Restart
    BY <1>3, SessionKeepsStream
  <1>4. CASE StartScan \/ ScanPath \/ ScanEnd \/ OpenTarget
    BY <1>4, ScanKeepsStream
  <1>5. CASE \E size \in BufSizes : Deliver(size)
    BY <1>5, DeliverKeepsStream
  <1>6. CASE FillBlock \/ FillEnd \/ AtEndOfFile
    BY <1>6, FillBlockKeepsStream, EndKeepsStream
  <1> QED BY <1>1, <1>2, <1>3, <1>4, <1>5, <1>6 DEF Next, ReadStep

\* While the store remembers the whole invariant holds.
LEMMA StreamInvHolds ==
  ASSUME OnlyGrow, StoreRemembers
  PROVE  Spec => []StreamInv
  <1> DEFINE Others == Distinct(store.order) /\ OutIsWritten /\ HeldIsNew /\ BeyondOffsetIsNew
  <1>1. Init => Others
    <2> SUFFICES ASSUME Init PROVE Others
      OBVIOUS
    <2>1. /\ Len(store.order) = 0 /\ Len(out) = 0 /\ Len(pending) = 0
          /\ \A i \in Inodes : Len(disk[i]) = 0
          /\ \A p \in Paths : store.offset[p] = 0 /\ dir[p] \in {0, 1}
      BY DEF Init, EmptyStore
    <2>2. 1 \in Inodes
      BY FileSetAssumption DEF Inodes
    <2>3. \A p \in Paths : dir[p] # 0 => Len(disk[dir[p]]) = 0
      BY <2>1, <2>2
    <2>4. Distinct(store.order) /\ OutIsWritten /\ HeldIsNew
      BY <2>1 DEF Distinct, OutIsWritten, HeldIsNew
    <2>5. BeyondOffsetIsNew
      BY <2>1, <2>3 DEF BeyondOffsetIsNew
    <2> QED BY <2>4, <2>5
  <1>2. StreamInv <=> BytesInv /\ Others
    BY DEF StreamInv
  <1> HIDE DEF Others
  <1>3. StreamInv /\ [Next]_vars /\ BytesInv' => StreamInv'
    BY StepKeepsStream
  <1> QED BY <1>1, <1>2, <1>3, BytesInvHolds, PTL DEF Spec
-----------------------------------------------------------------------------
(***************************************************************************)
(* A step of the FileSet seen from the stream: an append is a Write, a     *)
(* delivery a HandOver, and everything else is invisible.                  *)
(***************************************************************************)
LEMMA StepOfTheStream ==
  ASSUME TypeInv, OutIsWritten, HeldIsNew, [Next]_vars
  PROVE  [Stream!Next]_(Stream!vars)
  <1>1. CASE Append1
    BY <1>1 DEF Append1, Stream!Write, Stream!Next
  <1>2. CASE \E size \in BufSizes : Deliver(size)
    BY <1>2, DeliverHandsOver DEF Stream!Next
  <1>3. CASE UNCHANGED <<written, out>>
    BY <1>3 DEF Stream!vars
  <1>4. CASE \/ UNCHANGED vars
             \/ Rotate \/ Rename \/ Truncate \/ Reuse \/ Remove
             \/ Open \/ ReadCall \/ Cancel \/ Close \/ Restart
             \/ ReadCancelled \/ StartScan \/ ScanPath \/ ScanEnd \/ OpenTarget
             \/ FillBlock \/ FillEnd \/ AtEndOfFile
    <2>1. UNCHANGED <<written, out>>
      BY <1>4 DEF vars, server, Rotate, Rename, Truncate, Reuse, Remove, Open, ReadCall,
                  Cancel, Close, Restart, Reset, ReadCancelled, StartScan, ScanPath,
                  ScanEnd, OpenTarget, FillBlock, FillEnd, AtEndOfFile
    <2> QED BY <2>1, <1>3
  <1> QED BY <1>1, <1>2, <1>4 DEF Next, Server, ReadStep

(***************************************************************************)
(* While files only grow and the store remembers, the FileSet implements   *)
(* the abstract stream.                                                    *)
(***************************************************************************)
THEOREM FileSetImplementsLogStream ==
  ASSUME OnlyGrow, StoreRemembers
  PROVE  Spec => ImplementsLogStream
  <1>1. Init => Stream!Init
    BY DEF Init, Stream!Init
  <1>2. StreamInv /\ [Next]_vars => [Stream!Next]_(Stream!vars)
    BY StepOfTheStream DEF StreamInv, BytesInv, GrowInv
  <1> QED BY <1>1, <1>2, StreamInvHolds, PTL DEF Spec, ImplementsLogStream, Stream!Spec

\* What is proved of the abstract stream.
Promise == INSTANCE LogStreamProofs

\* The abstract stream's promise, carried over to the FileSet.
LEMMA StreamDeliversOnce == ImplementsLogStream => []AtMostOnce
  <1>1. Promise!Spec => []Promise!HandedOverOnce
    BY Promise!StreamHandsOverOnce
  <1>2. Promise!Spec <=> ImplementsLogStream
    BY DEF ImplementsLogStream, Stream!Spec, Stream!Init, Stream!Next, Stream!vars,
           Stream!Write, Stream!HandOver, Promise!Spec, Promise!Init, Promise!Next,
           Promise!vars, Promise!Write, Promise!HandOver
  <1>3. Promise!HandedOverOnce <=> AtMostOnce
    BY DEF Promise!HandedOverOnce, AtMostOnce
  <1> QED BY <1>1, <1>2, <1>3, PTL

(***************************************************************************)
(* COR-007, AC-025, for any number of files, bytes, sessions,              *)
(* cancellations and restarts and any read and buffer size: no byte is     *)
(* delivered twice.  It is the abstract stream's promise, carried over.    *)
(***************************************************************************)
THEOREM NoByteTwice ==
  ASSUME OnlyGrow, StoreRemembers
  PROVE  Spec => []AtMostOnce
  BY FileSetImplementsLogStream, StreamDeliversOnce, PTL
-----------------------------------------------------------------------------
(***************************************************************************)
(* Line ends.  Here the store may forget: an evicted offset and a restart  *)
(* without a persistent store only ever lower what was stored.             *)
(***************************************************************************)
\* Below the offset of a file every newline has been delivered.
LineEndsDelivered ==
  \A p \in Paths : dir[p] # 0 =>
    \A k \in 1..store.offset[p] :
      disk[dir[p]][k].nl => disk[dir[p]][k].id \in Delivered

\* At the end of a file what is held is less than a line.
HeldAtEndIsPartial ==
  /\ pc = "fill" => pending = <<>>
  /\ pc = "eof" => \A i \in 1..Len(pending) : ~pending[i].nl

LineInv == GrowInv /\ LineEndsDelivered /\ HeldAtEndIsPartial

\* While a complete line is held something can be delivered.
LEMMA NothingDeliverable ==
  ASSUME TypeInv, Deliverable = 0
  PROVE  \A i \in 1..Len(pending) : ~pending[i].nl
  <1>1. pending \in Seq(Byte) /\ Len(pending) \in Nat
    BY DEF TypeInv, TypeOK
  <1>2. SUFFICES ASSUME Newlines(pending) # {} PROVE FALSE
    BY DEF Newlines
  <1>3. Newlines(pending) \subseteq 1..Len(pending)
    BY DEF Newlines
  <1>4. Max(Newlines(pending)) \in 1..Len(pending)
    BY <1>1, <1>2, <1>3, GreatestOf
  <1> QED BY <1>1, <1>2, <1>4 DEF Deliverable, Eligible, LastNewline

\* Under the invariant the two ways to say it agree.
LEMMA OffsetsSkipNoLineEnd ==
  ASSUME GrowInv
  PROVE  LineEndsDelivered => StoredOffsetSkipsNoLineEnd
  <1> SUFFICES ASSUME LineEndsDelivered, NEW p \in Existing,
                      NEW i \in 1..MinOf(store.offset[p], Len(ContentOf(p))),
                      ContentOf(p)[i].nl
               PROVE  ContentOf(p)[i].id \in Delivered
    BY DEF StoredOffsetSkipsNoLineEnd
  <1>1. /\ p \in Paths /\ dir[p] # 0 /\ ContentOf(p) = disk[dir[p]]
        /\ store.offset[p] \in Nat /\ Len(disk[dir[p]]) \in Nat
        /\ store.offset[p] <= Len(disk[dir[p]])
    BY TypeFactsHold DEF GrowInv, OffsetsWithinFiles, Existing, ContentOf, TypeFacts
  <1>2. i \in 1..store.offset[p]
    BY <1>1 DEF MinOf
  <1> QED BY <1>1, <1>2 DEF LineEndsDelivered

\* A Set stores one offset; the others stay, or one of them is evicted.
LEMMA SetStores ==
  ASSUME TypeInv, NEW c \in Paths, NEW o \in Nat, store' = AfterSet(store, c, o)
  PROVE  /\ store'.offset[c] = o
         /\ \A q \in Paths : q # c => store'.offset[q] \in {0, store.offset[q]}
  <1> DEFINE t == AfterSet(store, c, o)
  <1>1. store.order \in Seq(Paths) /\ store.offset \in [Paths -> Nat]
    BY DEF TypeInv, TypeOK
  <1>2. t.offset[c] = o
    BY <1>1, AfterSetTyped
  <1>3. \A q \in Paths : q # c => t.offset[q] \in {0, store.offset[q]}
    BY <1>1, AfterSetTyped
  <1> QED BY <1>2, <1>3

(***************************************************************************)
(* A step that stores an offset for one path and delivers at least the     *)
(* newlines up to it keeps the line ends; other offsets stay or vanish.    *)
(***************************************************************************)
LEMMA SetKeepsLineEnds ==
  ASSUME GrowInv, LineEndsDelivered, NEW c \in Paths, NEW o \in Nat,
         UNCHANGED <<dir, disk>>, store' = AfterSet(store, c, o),
         Delivered \subseteq Delivered',
         dir[c] # 0 => \A k \in (store.offset[c] + 1)..o :
                         disk[dir[c]][k].nl => disk[dir[c]][k].id \in Delivered'
  PROVE  LineEndsDelivered'
  <1>1. store.offset \in [Paths -> Nat]
    BY DEF GrowInv, TypeInv, TypeOK
  <1>2. /\ store'.offset[c] = o
        /\ \A q \in Paths : q # c => store'.offset[q] \in {0, store.offset[q]}
    BY SetStores DEF GrowInv
  <1>3. SUFFICES ASSUME NEW p \in Paths, dir[p] # 0, NEW k \in 1..store'.offset[p],
                        disk[dir[p]][k].nl
                 PROVE  disk[dir[p]][k].id \in Delivered'
    BY DEF LineEndsDelivered
  <1>4. CASE k \in 1..store.offset[p]
    BY <1>3, <1>4 DEF LineEndsDelivered
  <1>5. CASE k \notin 1..store.offset[p]
    <2>1. p = c /\ k \in (store.offset[c] + 1)..o
      BY <1>1, <1>2, <1>3, <1>5
    <2> QED BY <1>3, <2>1
  <1> QED BY <1>4, <1>5

\* Growing files get their new bytes beyond every offset.
LEMMA ServerKeepsLineEnds ==
  ASSUME LineInv, OnlyGrow, Server, GrowInv'
  PROVE  LineInv'
  <1> USE DEF LineInv, GrowInv
  <1>0. TypeFacts
    BY TypeFactsHold
  <1>1. UNCHANGED <<store, pc, pending, out>> /\ Delivered' = Delivered
    BY DEF Server, OnlyGrow, Append1, Rotate, Rename, Truncate, Reuse, Remove, fileSet,
           reader, Delivered
  <1>2. HeldAtEndIsPartial'
    BY <1>1 DEF HeldAtEndIsPartial
  <1>3. CASE Append1
    <2>1. /\ dir' = dir
          /\ \A i \in Inodes : \A k \in 1..Len(disk[i]) : disk'[i][k] = disk[i][k]
      BY <1>3, AppendAddsOne
    <2>2. ASSUME NEW p \in Paths, dir[p] # 0, NEW k \in 1..store.offset[p]
          PROVE  disk'[dir[p]][k] = disk[dir[p]][k]
      <3>1. dir[p] \in Inodes /\ store.offset[p] \in Nat /\ Len(disk[dir[p]]) \in Nat
            /\ store.offset[p] <= Len(disk[dir[p]])
        BY <1>0, <2>2 DEF TypeFacts, OffsetsWithinFiles
      <3> QED BY <2>1, <3>1
    <2> QED BY <1>1, <1>2, <2>1, <2>2 DEF LineEndsDelivered
  <1>4. CASE Rotate
    <2>1. /\ disk' = disk /\ \A p \in Paths : p # active + 1 => dir'[p] = dir[p]
          /\ active + 1 \in Paths /\ dir[active + 1] = 0
      BY <1>0, <1>4 DEF Rotate, TypeFacts
    <2>2. store.offset[active + 1] = 0
      BY <2>1 DEF OffsetsWithinFiles
    <2>3. \A p \in Paths : \A k \in 1..store.offset[p] : dir'[p] = dir[p]
      BY <2>1, <2>2
    <2> QED BY <1>1, <1>2, <2>1, <2>3 DEF LineEndsDelivered
  <1> QED BY <1>3, <1>4 DEF Server, Rename, Truncate, Reuse, Remove, OnlyGrow

\* Sessions and scans store nothing, or forget everything.
LEMMA LookingKeepsLineEnds ==
  ASSUME LineInv, GrowInv',
         \/ Open \/ ReadCall \/ Cancel \/ ReadCancelled \/ Close \/ Restart
         \/ StartScan \/ ScanPath \/ ScanEnd \/ OpenTarget
  PROVE  LineInv'
  <1> USE DEF LineInv, GrowInv, TypeInv, server, fileSet, reader
  <1>0. /\ store.order \in Seq(Paths) /\ store.offset \in [Paths -> Nat]
        /\ store = [order |-> store.order, offset |-> store.offset]
    BY DEF TypeOK, StoreShape
  <1>1. UNCHANGED <<dir, disk, out>>
    BY DEF Open, ReadCall, Cancel, ReadCancelled, Close, Restart, Reset, StartScan,
           ScanPath, ScanEnd, OpenTarget
  <1>2. \A p \in Paths : store'.offset[p] = store.offset[p] \/ store'.offset[p] = 0
    <2>1. CASE ScanPath
      <3> DEFINE p == Min(todo)
      <3>1. p \in Paths
        BY <2>1, ZeroIsNothing, LeastOf DEF ScanPath, TypeOK
      <3>2. store' = store \/ store' = AfterGet(store, p)
        BY <2>1 DEF ScanPath
      <3> HIDE DEF p
      <3> QED BY <1>0, <3>1, <3>2, AfterGetTyped
    <2>2. CASE Restart
      BY <2>2 DEF Restart, EmptyStore
    <2>3. CASE \/ Open \/ ReadCall \/ Cancel \/ ReadCancelled \/ Close
               \/ StartScan \/ ScanEnd \/ OpenTarget
      BY <2>3 DEF Open, ReadCall, Cancel, ReadCancelled, Close, StartScan, ScanEnd, OpenTarget
    <2> QED BY <2>1, <2>2, <2>3
  <1>3. LineEndsDelivered'
    <2>1. \A p \in Paths : \A k \in 1..store'.offset[p] : k \in 1..store.offset[p]
      BY <1>0, <1>2
    <2> QED BY <1>1, <2>1 DEF LineEndsDelivered, Delivered
  <1>4. HeldAtEndIsPartial'
    <2>1. CASE OpenTarget
      BY <2>1 DEF OpenTarget, SessionShape, HeldAtEndIsPartial
    <2>2. CASE Cancel
      BY <2>2 DEF Cancel, HeldAtEndIsPartial
    <2>3. CASE ScanPath
      BY <2>3 DEF ScanPath, HeldAtEndIsPartial
    <2>4. CASE \/ Open \/ ReadCall \/ ReadCancelled \/ Close \/ Restart
               \/ StartScan \/ ScanEnd
      <3>1. pc' \notin {"fill", "eof"}
        BY <2>4 DEF Open, ReadCall, ReadCancelled, Close, Restart, Reset, StartScan, ScanEnd
      <3> QED BY <3>1 DEF HeldAtEndIsPartial
    <2> QED BY <2>1, <2>2, <2>3, <2>4
  <1> QED BY <1>3, <1>4

\* Reading stores what was delivered, or the end of a partial line.
LEMMA ReadKeepsLineEnds ==
  ASSUME LineInv, GrowInv',
         (\E size \in BufSizes : Deliver(size)) \/ FillBlock \/ FillEnd \/ AtEndOfFile
  PROVE  LineInv'
  <1> USE DEF LineInv, GrowInv
  <1>0. TypeFacts /\ TypeInv
    BY TypeFactsHold
  <1>1. ASSUME NEW size \in BufSizes, Deliver(size) PROVE LineInv'
    <2>1. PICK n \in 1..Len(pending) :
            /\ Delivered' = Delivered \cup {pending[i].id : i \in 1..n}
            /\ store' = IF cur.path = 0 THEN store
                        ELSE AfterSet(store, cur.path, cur.pos - (Len(pending) - n))
      BY <1>0, <1>1, DeliverOutput
    <2>2. UNCHANGED <<dir, disk>> /\ pc' = "idle"
      BY <1>1 DEF Deliver, server
    <2>3. CASE cur.path = 0
      BY <2>1, <2>2, <2>3 DEF LineEndsDelivered, HeldAtEndIsPartial
    <2>4. CASE cur.path # 0
      <3> DEFINE c == cur.path
                 l == Len(pending)
                 o == cur.pos - (l - n)
      <3>1. /\ c \in Paths /\ cur.ino = dir[c] /\ l \in Nat /\ cur.pos \in Nat /\ l <= cur.pos
            /\ store.offset[c] = cur.pos - l
            /\ \A i \in 1..l : pending[i] = disk[dir[c]][(cur.pos - l) + i]
        BY <1>0, <2>4, ZeroIsNothing DEF HeldInPlace, TypeFacts
      <3>2. store' = AfterSet(store, c, o)
        BY <2>1, <2>4
      <3> HIDE DEF l, c
      <3>3. o \in Nat
        BY <3>1, <2>1 DEF l
      <3>4. \A k \in (store.offset[c] + 1)..o : disk[dir[c]][k].id \in Delivered'
        <4> TAKE k \in (store.offset[c] + 1)..o
        <4>1. k - (cur.pos - l) \in 1..n /\ k - (cur.pos - l) \in 1..l
              /\ (cur.pos - l) + (k - (cur.pos - l)) = k
          BY <2>1, <3>1 DEF l
        <4>2. disk[dir[c]][k] = pending[k - (cur.pos - l)]
          BY <3>1, <4>1
        <4> QED BY <2>1, <4>1, <4>2
      <3> HIDE DEF o
      <3>5. LineEndsDelivered'
        BY <2>1, <2>2, <3>1, <3>2, <3>3, <3>4, SetKeepsLineEnds
      <3> QED BY <2>2, <3>5 DEF HeldAtEndIsPartial
    <2> QED BY <2>3, <2>4
  <1>2. CASE FillBlock
    BY <1>2 DEF FillBlock, server, fileSet, LineEndsDelivered, HeldAtEndIsPartial, Delivered
  <1>3. ASSUME FillEnd \/ AtEndOfFile PROVE LineInv'
    <2>1. UNCHANGED <<dir, disk, pending, out>> /\ cur.path # 0
      BY <1>0, <1>3 DEF FillEnd, AtEndOfFile, Filling, server, TypeInv, SessionShape
    <2>2. \A i \in 1..Len(pending) : ~pending[i].nl
      <3>1. CASE Filling /\ pc = "loop"
        BY <1>0, <3>1, NothingDeliverable DEF Filling
      <3>2. CASE pc = "fill"
        <4>1. Len(pending) = 0
          BY <3>2 DEF HeldAtEndIsPartial
        <4> QED BY <4>1
      <3>3. CASE pc = "eof"
        BY <3>3 DEF HeldAtEndIsPartial
      <3> QED BY <1>3, <3>1, <3>2, <3>3 DEF FillEnd, AtEndOfFile, Filling
    <2>3. HeldAtEndIsPartial'
      BY <1>3, <2>1, <2>2 DEF HeldAtEndIsPartial, FillEnd, AtEndOfFile
    <2>4. CASE store' = store
      BY <2>1, <2>3, <2>4 DEF LineEndsDelivered, Delivered
    <2>5. CASE CloseCurrent
      <3> DEFINE c == cur.path
                 l == Len(pending)
      <3>1. /\ c \in Paths /\ cur.ino = dir[c] /\ l \in Nat /\ cur.pos \in Nat /\ l <= cur.pos
            /\ store.offset[c] = cur.pos - l
            /\ \A i \in 1..l : pending[i] = disk[dir[c]][(cur.pos - l) + i]
        BY <1>0, <2>1, ZeroIsNothing DEF HeldInPlace, TypeFacts
      <3>2. store' = AfterSet(store, c, cur.pos)
        BY <2>5 DEF CloseCurrent, OffsetAtClose
      <3> HIDE DEF l, c
      <3>3. \A k \in (store.offset[c] + 1)..cur.pos : ~disk[dir[c]][k].nl
        <4> TAKE k \in (store.offset[c] + 1)..cur.pos
        <4>1. k - (cur.pos - l) \in 1..l /\ (cur.pos - l) + (k - (cur.pos - l)) = k
          BY <3>1
        <4>2. disk[dir[c]][k] = pending[k - (cur.pos - l)]
          BY <3>1, <4>1
        <4> QED BY <2>2, <4>1, <4>2 DEF l
      <3>4. Delivered' = Delivered
        BY <2>1 DEF Delivered
      <3>5. LineEndsDelivered'
        BY <2>1, <3>1, <3>2, <3>3, <3>4, SetKeepsLineEnds
      <3> QED BY <2>3, <3>5
    <2> QED BY <1>3, <2>4, <2>5 DEF FillEnd, AtEndOfFile
  <1> QED BY <1>1, <1>2, <1>3

(***************************************************************************)
(* While files only grow, whatever the store forgets and wherever a reader *)
(* is interrupted: below a stored offset no line end is undelivered, so    *)
(* what a resumed reader skips is at most an unterminated tail.            *)
(***************************************************************************)
THEOREM SkipsNoLineEnd ==
  ASSUME OnlyGrow
  PROVE  Spec => []StoredOffsetSkipsNoLineEnd
  <1>1. Init => LineEndsDelivered /\ HeldAtEndIsPartial
    BY DEF Init, EmptyStore, LineEndsDelivered, HeldAtEndIsPartial
  <1>2. LineInv /\ [Next]_vars /\ GrowInv' => LineInv'
    <2> SUFFICES ASSUME LineInv, [Next]_vars, GrowInv' PROVE LineInv'
      OBVIOUS
    <2>1. CASE UNCHANGED vars
      BY <2>1 DEF vars, server, fileSet, reader, LineInv, LineEndsDelivered,
                  HeldAtEndIsPartial, Delivered
    <2>2. CASE Server
      BY <2>2, ServerKeepsLineEnds
    <2>3. CASE Open \/ ReadCall \/ ReadStep \/ Cancel \/ Close \/ Restart
      BY <2>3, LookingKeepsLineEnds, ReadKeepsLineEnds DEF ReadStep
    <2> QED BY <2>1, <2>2, <2>3 DEF Next
  <1>3. LineInv <=> GrowInv /\ (LineEndsDelivered /\ HeldAtEndIsPartial)
    BY DEF LineInv
  <1>4. LineInv => StoredOffsetSkipsNoLineEnd
    BY OffsetsSkipNoLineEnd DEF LineInv
  <1> QED BY <1>1, <1>2, <1>3, <1>4, GrowInvHolds, PTL DEF Spec
-----------------------------------------------------------------------------
(***************************************************************************)
(* Followers.  Only a file the server has left is ever closed, so only its *)
(* tail goes out without a newline.                                        *)
(***************************************************************************)
\* The names in use are those up to the active one.
NamesUpToActive == \A p \in Paths : dir[p] # 0 <=> p <= active

\* A session follows, and the open file is the one it identified.
FollowerShape ==
  /\ pc # "none" => follow
  /\ cur.path # 0 => cur.id = ids[cur.path] /\ cur.id # NoId
  /\ cur.path # 0 \/ pc \in {"scan", "open"} => ~flush

\* The bytes held and delivered have been written.
BytesAreWritten ==
  /\ OutIsWritten
  /\ \A i \in 1..Len(pending) : pending[i].id \in 1..written

\* The tail of a closed file is none of the active file.
TailIsElsewhere ==
  cur.path = 0 =>
    \A i \in 1..Len(pending) : \A k \in 1..Len(disk[dir[active]]) :
      pending[i].id # disk[dir[active]][k].id

FollowInv ==
  /\ BytesInv /\ NamesUpToActive /\ FollowerShape /\ BytesAreWritten /\ TailIsElsewhere
  /\ FollowerWithholdsPartialLine

\* While a file is open what may go out ends with a newline.
LEMMA DeliverableEndsLine ==
  ASSUME TypeInv, ~flush, NEW n \in 1..Len(pending), n <= Deliverable
  PROVE  \E j \in n..Len(pending) : pending[j].nl
  <1> DEFINE j == LastNewline(pending)
  <1>1. pending \in Seq(Byte) /\ Len(pending) \in Nat
    BY DEF TypeInv, TypeOK
  <1>2. j > 0 /\ n <= j
    <2>1. Newlines(pending) \subseteq 1..Len(pending)
      BY DEF Newlines
    <2>2. j \in Nat
      BY <1>1, <2>1, GreatestOf DEF LastNewline
    <2> QED BY <1>1, <2>2 DEF Deliverable, Eligible
  <1>3. Newlines(pending) \subseteq 1..Len(pending) /\ Newlines(pending) # {}
    BY <1>2 DEF Newlines, LastNewline
  <1>4. j \in Newlines(pending)
    BY <1>1, <1>3, GreatestOf DEF LastNewline
  <1> HIDE DEF j
  <1> QED BY <1>1, <1>2, <1>4 DEF Newlines

\* The newest file of the directory is the active one.
LEMMA NewestIsActive ==
  ASSUME TypeInv, NamesUpToActive
  PROVE  Existing # {} /\ Max(Existing) = active
  <1>1. active \in Existing /\ Existing \subseteq Paths
    BY DEF TypeInv, TypeOK, Existing
  <1>2. Cardinality(Paths) \in Nat /\ Paths = 1..Cardinality(Paths)
    BY FS_CardinalityType, FileSetAssumption
  <1>3. Max(Existing) \in Existing /\ active <= Max(Existing)
    BY <1>1, <1>2, GreatestOf
  <1>4. Max(Existing) <= active
    BY <1>3 DEF NamesUpToActive, Existing
  <1> QED BY <1>1, <1>2, <1>3, <1>4

\* A file that only grew is never taken for a replaced one.
LEMMA OpenFileIsCurrent ==
  ASSUME FollowInv, cur.path # 0
  PROVE  ~CurrentFileWasReplaced
  <1> DEFINE c == cur.path
  <1>1. TypeOK /\ TypeFacts /\ c \in Paths /\ dir[c] # 0
    BY HeldPlaces, TypeFactsHold
       DEF FollowInv, BytesInv, GrowInv, TypeInv, HeldBehindHandle
  <1>2. c \in Existing
    BY <1>1 DEF Existing
  <1>3. IdentityOf(cur.id, dir[c]) /\ cur.id.head \in Seq(Byte)
    BY <1>1 DEF FollowInv, FollowerShape, BytesInv, GrowInv, IdentitiesAreCurrent, TypeFacts
  <1>4. IdentityOf(Identify(c), dir[c]) /\ Identify(c).head \in Seq(Byte)
    BY <1>1, <1>2, IdentifyIsIdentity, IdentifyTyped DEF Identities
  <1>5. SameFile(cur.id, Identify(c))
    BY <1>1, <1>3, <1>4, GrownFileIsSame
  <1> QED BY <1>1, <1>5 DEF CurrentFileWasReplaced

\* The server's byte is new; the file it starts is empty.
LEMMA ServerKeepsFollower ==
  ASSUME FollowInv, OnlyGrow, Server, BytesInv'
  PROVE  FollowInv'
  <1> USE DEF FollowInv, BytesInv, GrowInv
  <1>0. TypeFacts /\ written \in Nat
    BY TypeFactsHold DEF TypeInv, TypeOK
  <1>1. UNCHANGED <<pc, follow, cur, ids, flush, pending, out>> /\ Delivered' = Delivered
    BY DEF Server, OnlyGrow, Append1, Rotate, Rename, Truncate, Reuse, Remove, fileSet,
           reader, Delivered
  <1>2. FollowerShape'
    BY <1>1 DEF FollowerShape
  <1>3. written' \in {written, written + 1}
    BY DEF Server, OnlyGrow, Append1, Rotate, Rename, Truncate, Reuse, Remove
  <1>4. BytesAreWritten'
    BY <1>0, <1>1, <1>3 DEF BytesAreWritten, OutIsWritten
  <1>5. CASE Append1
    <2> DEFINE f == disk[dir[active]]
               g == disk'[dir[active]]
    <2>1. /\ UNCHANGED <<dir, active>> /\ dir[active] \in Inodes
          /\ Len(f) \in Nat /\ Len(g) \in Nat /\ Len(f) <= Len(g)
          /\ \A k \in 1..Len(f) : g[k] = f[k]
          /\ \A k \in 1..Len(g) : k > Len(f) => g[k].id = written + 1
      <3>1. TypeInv /\ dir[active] \in Inodes
        BY <1>0 DEF TypeFacts
      <3> QED BY <1>5, <3>1, AppendAddsOne
    <2>2. /\ written + 1 \notin Delivered
          /\ \A i \in 1..Len(pending) : pending[i].id # written + 1
      BY <1>0 DEF BytesAreWritten, OutIsWritten, Delivered
    <2> HIDE DEF f, g
    <2>3. NamesUpToActive'
      BY <2>1 DEF NamesUpToActive
    <2>4. TailIsElsewhere'
      <3> SUFFICES ASSUME cur.path = 0, NEW i \in 1..Len(pending), NEW k \in 1..Len(g)
                   PROVE  pending[i].id # g[k].id
        BY <1>1, <2>1 DEF TailIsElsewhere, g
      <3>1. CASE k \in 1..Len(f)
        BY <2>1, <3>1 DEF TailIsElsewhere, f
      <3>2. CASE k > Len(f)
        BY <2>1, <2>2, <3>2
      <3> QED BY <2>1, <3>1, <3>2
    <2>5. FollowerWithholdsPartialLine'
      <3> SUFFICES ASSUME NEW i \in 1..Len(g), g[i].id \in Delivered
                   PROVE  \E j \in i..Len(g) : g[j].nl
        BY <1>1, <2>1 DEF FollowerWithholdsPartialLine, ContentOf, g
      <3>1. i \in 1..Len(f) /\ f[i].id \in Delivered
        BY <2>1, <2>2
      <3>2. PICK j \in i..Len(f) : f[j].nl
        BY <3>1 DEF FollowerWithholdsPartialLine, ContentOf, f
      <3> QED BY <2>1, <3>1, <3>2
    <2> QED BY <1>2, <1>4, <2>3, <2>4, <2>5
  <1>6. CASE Rotate
    <2>1. PICK i \in FreeInodes : dir' = [dir EXCEPT ![active + 1] = i]
      BY <1>6 DEF Rotate
    <2>2. /\ disk' = disk /\ active' = active + 1 /\ active + 1 \in Paths
          /\ dir'[active'] = i /\ i # 0 /\ Len(disk[i]) = 0
      BY <1>0, <1>6, <2>1, ZeroIsNothing DEF Rotate, FreeInodes, TypeFacts
    <2>3. NamesUpToActive'
      <3>1. \A p \in Paths : dir'[p] # 0 <=> p = active + 1 \/ dir[p] # 0
        BY <1>0, <2>1, <2>2 DEF TypeFacts
      <3>2. \A p \in Paths : p <= active + 1 <=> p = active + 1 \/ p <= active
        BY <1>0, ZeroIsNothing DEF TypeFacts
      <3> QED BY <2>2, <3>1, <3>2 DEF NamesUpToActive
    <2>4. \A k \in 1..Len(disk'[dir'[active']]) : FALSE
      BY <2>2
    <2>5. TailIsElsewhere' /\ FollowerWithholdsPartialLine'
      BY <2>4 DEF TailIsElsewhere, FollowerWithholdsPartialLine, ContentOf
    <2> QED BY <1>2, <1>4, <2>3, <2>5
  <1> QED BY <1>5, <1>6 DEF Server, Rename, Truncate, Reuse, Remove, OnlyGrow

\* Sessions and scans hold nothing and deliver nothing.
LEMMA LookingKeepsFollower ==
  ASSUME FollowInv, FollowModes = {TRUE}, BytesInv',
         \/ Open \/ ReadCall \/ Cancel \/ ReadCancelled \/ Close \/ Restart
         \/ StartScan \/ ScanPath \/ ScanEnd \/ OpenTarget
  PROVE  FollowInv'
  <1> USE DEF FollowInv
  <1>1. UNCHANGED <<dir, disk, active, written, out>> /\ Delivered' = Delivered
    BY DEF Open, ReadCall, Cancel, ReadCancelled, Close, Restart, Reset, StartScan,
           ScanPath, ScanEnd, OpenTarget, server, Delivered
  <1>2. NamesUpToActive' /\ FollowerWithholdsPartialLine'
    BY <1>1 DEF NamesUpToActive, FollowerWithholdsPartialLine, ContentOf
  <1>3. Len(pending') = 0 \/ UNCHANGED <<pending, cur>>
    <2>1. CASE OpenTarget
      BY <2>1 DEF OpenTarget, BytesInv, GrowInv, TypeInv, SessionShape
    <2>2. CASE Open \/ Close \/ Restart
      <3>1. pending' = <<>>
        BY <2>2 DEF Open, Close, Restart, Reset
      <3> QED BY <3>1
    <2>3. CASE ReadCall \/ Cancel \/ ReadCancelled \/ StartScan \/ ScanPath \/ ScanEnd
      BY <2>3 DEF ReadCall, Cancel, ReadCancelled, StartScan, ScanPath, ScanEnd
    <2> QED BY <2>1, <2>2, <2>3
  <1>4. BytesAreWritten'
    <2>1. OutIsWritten'
      BY <1>1 DEF BytesAreWritten, OutIsWritten
    <2>2. \A i \in 1..Len(pending') : pending'[i].id \in 1..written
      BY <1>3 DEF BytesAreWritten
    <2> QED BY <1>1, <2>1, <2>2 DEF BytesAreWritten
  <1>5. TailIsElsewhere'
    BY <1>1, <1>3 DEF TailIsElsewhere
  <1>6. FollowerShape'
    <2>1. CASE OpenTarget
      <3>1. pc = "open" /\ target.path \in Paths
        BY <2>1 DEF OpenTarget, BytesInv, GrowInv, TypeInv, SessionShape
      <3>2. target.id # NoId
        <4>1. target.id.ino = dir[target.path] /\ dir[target.path] # 0
          BY <3>1 DEF BytesInv, GrowInv, IdentitiesAreCurrent, IdentityOf
        <4> QED BY <4>1 DEF NoId
      <3>3. ids \in [Paths -> Identities]
        BY DEF BytesInv, GrowInv, TypeInv, TypeOK
      <3> QED BY <2>1, <3>1, <3>2, <3>3 DEF OpenTarget, Remember, FollowerShape
    <2>2. CASE Open \/ Close \/ Restart
      <3>1. /\ cur'.path = 0 /\ flush' = FALSE
            /\ pc' = "none" \/ (pc' = "idle" /\ follow' \in FollowModes)
        <4>1. cur' = NoFile /\ flush' = FALSE
          BY <2>2 DEF Open, Close, Restart, Reset
        <4>2. pc' = "none" \/ (pc' = "idle" /\ follow' \in FollowModes)
          BY <2>2 DEF Open, Close, Restart, Reset
        <4> QED BY <4>1, <4>2 DEF NoFile
      <3> QED BY <3>1 DEF FollowerShape
    <2>3. CASE StartScan
      BY <2>3 DEF StartScan, FollowerShape, fileSet
    <2>4. CASE ScanPath
      BY <2>4 DEF ScanPath, FollowerShape
    <2>5. CASE ReadCall \/ Cancel \/ ReadCancelled \/ ScanEnd
      BY <2>5 DEF ReadCall, Cancel, ReadCancelled, ScanEnd, FollowerShape, fileSet
    <2> QED BY <2>1, <2>2, <2>3, <2>4, <2>5
  <1> QED BY <1>2, <1>4, <1>5, <1>6

\* What goes out of the active file ends with a newline.
LEMMA DeliverKeepsFollower ==
  ASSUME FollowInv, BytesInv', NEW size \in BufSizes, Deliver(size)
  PROVE  FollowInv'
  <1> USE DEF FollowInv
  <1> DEFINE l == Len(pending)
             m == Len(out)
             f == disk[dir[active]]
  <1>0. TypeInv /\ TypeFacts /\ l \in Nat /\ m \in Nat /\ Len(f) \in Nat
    <2>1. TypeInv /\ TypeFacts
      BY TypeFactsHold DEF BytesInv, GrowInv
    <2>2. out \in Seq(Nat)
      BY <2>1 DEF TypeInv, TypeOK
    <2> QED BY <2>1, <2>2 DEF TypeFacts
  <1>1. PICK n \in 1..l :
          /\ n <= Deliverable
          /\ Len(pending') = l - n
          /\ \A i \in 1..(l - n) : pending'[i] = pending[n + i]
          /\ Len(out') = m + n
          /\ \A i \in 1..m : out'[i] = out[i]
          /\ \A i \in 1..n : out'[m + i] = pending[i].id
          /\ Delivered' = Delivered \cup {pending[i].id : i \in 1..n}
    BY <1>0, DeliverOutput
  <1>2. UNCHANGED <<dir, disk, active, written, cur, flush, follow, ids>> /\ pc' = "idle"
    BY DEF Deliver, server
  <1>3. NamesUpToActive' /\ FollowerShape'
    <2>1. pc # "none"
      BY DEF Deliver
    <2> QED BY <1>2, <2>1 DEF NamesUpToActive, FollowerShape
  <1> HIDE DEF l, m, f
  <1>4. \A i \in 1..(l - n) : n + i \in 1..l
    BY <1>0
  <1>5. BytesAreWritten'
    <2>1. ASSUME NEW i \in 1..(m + n) PROVE out'[i] \in 1..written
      <3>1. CASE i <= m
        <4>1. i \in 1..m
          BY <1>0, <3>1
        <4> QED BY <4>1, <1>1 DEF BytesAreWritten, OutIsWritten, m
      <3>2. CASE ~(i <= m)
        <4>1. i - m \in 1..n /\ i - m \in 1..l /\ m + (i - m) = i
          BY <1>0, <3>2
        <4>2. out'[m + (i - m)] = pending[i - m].id
          BY <4>1, <1>1
        <4> QED BY <4>1, <4>2 DEF BytesAreWritten, l
      <3> QED BY <3>1, <3>2
    <2>2. \A i \in 1..(l - n) : pending'[i].id \in 1..written
      BY <1>1, <1>4 DEF BytesAreWritten, l
    <2> QED BY <1>1, <1>2, <2>1, <2>2 DEF BytesAreWritten, OutIsWritten
  <1>6. TailIsElsewhere'
    <2> SUFFICES ASSUME cur.path = 0, NEW i \in 1..(l - n), NEW k \in 1..Len(f)
                 PROVE  pending'[i].id # f[k].id
      BY <1>1, <1>2 DEF TailIsElsewhere, f
    <2>1. n + i \in 1..l /\ pending'[i] = pending[n + i]
      BY <1>1, <1>4
    <2> QED BY <2>1 DEF TailIsElsewhere, f, l
  <1>7. FollowerWithholdsPartialLine'
    <2> SUFFICES ASSUME NEW i \in 1..Len(f), f[i].id \in Delivered'
                 PROVE  \E j \in i..Len(f) : f[j].nl
      BY <1>2 DEF FollowerWithholdsPartialLine, ContentOf, f
    <2>1. CASE f[i].id \in Delivered
      BY <2>1 DEF FollowerWithholdsPartialLine, ContentOf, f
    <2>2. CASE f[i].id \notin Delivered
      <3>1. PICK k \in 1..n : f[i].id = pending[k].id
        BY <1>1, <2>2
      <3>2. k \in 1..l /\ k <= n
        BY <1>0
      <3>3. cur.path # 0
        BY <3>1, <3>2 DEF TailIsElsewhere, f, l
      <3>4. PICK e \in n..l : pending[e].nl
        BY <1>0, <1>1, <3>3, DeliverableEndsLine DEF FollowerShape, l
      <3>5. e \in 1..l /\ k <= e
        BY <1>0, <3>2
      <3> DEFINE x(b) == PlaceHeld(b)
      <3>6. /\ cur.ino \in Inodes /\ cur.pos \in Nat
            /\ \A b \in 1..l : x(b) \in 1..Len(disk[cur.ino]) /\ pending[b] = disk[cur.ino][x(b)]
        BY <3>3, HeldPlaces DEF HeldBehindHandle, l
      <3>7. x(k) <= x(e)
        <4>1. k \in Nat /\ e \in Nat /\ k <= e /\ l \in Nat /\ cur.pos \in Nat
          BY <1>0, <3>2, <3>5, <3>6
        <4> HIDE DEF l
        <4> QED BY ONLY <4>1 DEF PlaceHeld, l
      <3> HIDE DEF x
      <3>8. /\ BytesInv /\ dir[active] \in Inodes /\ cur.ino \in Inodes
            /\ i \in 1..Len(disk[dir[active]])
        BY <1>0, <3>6 DEF TypeFacts, f
      <3>9. /\ x(k) \in 1..Len(disk[cur.ino])
            /\ disk[cur.ino][x(k)].id = disk[dir[active]][i].id
        BY <3>1, <3>2, <3>6 DEF f
      <3>10. cur.ino = dir[active] /\ x(k) = i
        <4> HIDE DEF FollowInv
        <4>1. TypeInv /\ BytesAreNumbered
          BY <3>8 DEF BytesInv, GrowInv
        <4>2. PICK a \in 1..Len(disk[cur.ino]) :
                a = x(k) /\ disk[cur.ino][a].id = disk[dir[active]][i].id
          BY <3>9
        <4>3. cur.ino \in Inodes /\ dir[active] \in Inodes /\ i \in 1..Len(disk[dir[active]])
          BY <3>8
        <4>4. cur.ino = dir[active]
          BY <4>1, <4>2, <4>3 DEF BytesAreNumbered
        <4>5. a \in 1..Len(disk[dir[active]])
              /\ disk[dir[active]][a].id = disk[dir[active]][i].id
          BY <4>2, <4>4
        <4>6. a = i
          BY <4>1, <4>3, <4>5, OnePlaceEach
        <4> QED BY <4>2, <4>4, <4>6
      <3>11. x(e) \in i..Len(f) /\ f[x(e)].nl
        BY <1>0, <3>4, <3>5, <3>6, <3>7, <3>10 DEF f
      <3> QED BY <3>11
    <2> QED BY <2>1, <2>2
  <1> QED BY <1>3, <1>5, <1>6, <1>7

\* Only a file that is not the active one is closed.
LEMMA FillKeepsFollower ==
  ASSUME FollowInv, BytesInv', FillBlock \/ FillEnd \/ AtEndOfFile
  PROVE  FollowInv'
  <1> USE DEF FollowInv
  <1>0. TypeInv /\ TypeFacts
    BY TypeFactsHold DEF BytesInv, GrowInv
  <1>1. /\ UNCHANGED <<dir, disk, active, written, ids, follow, out>> /\ Delivered' = Delivered
        /\ pc # "none" /\ pc' \notin {"scan", "open"} /\ cur.path # 0
    BY <1>0 DEF FillBlock, FillEnd, AtEndOfFile, Filling, server, fileSet, Delivered, TypeInv,
                SessionShape
  <1>2. NamesUpToActive' /\ FollowerWithholdsPartialLine' /\ OutIsWritten'
    BY <1>1 DEF NamesUpToActive, FollowerWithholdsPartialLine, ContentOf, OutIsWritten,
                BytesAreWritten
  <1>3. follow = TRUE
    BY <1>0, <1>1 DEF FollowerShape, TypeInv, TypeOK
  <1>4. CASE FillBlock
    <2>1. cur \in [path : {0} \cup Paths, ino : {0} \cup Inodes, id : Identities, pos : Nat]
      BY <1>0 DEF TypeInv, TypeOK
    <2>2. cur'.path = cur.path /\ cur'.id = cur.id /\ cur'.ino = cur.ino /\ flush' = flush
      BY <1>0, <1>4, <2>1, FillLengths DEF FillBlock
    <2>3. FollowerShape' /\ TailIsElsewhere'
      BY <1>1, <2>2 DEF FollowerShape, TailIsElsewhere
    <2>4. HeldBehindHandle'
      BY HeldPlaces, PTL
    <2>5. \A i \in 1..Len(pending') : pending'[i].id \in 1..written
      <3>1. /\ cur.ino \in Inodes
            /\ \A i \in 1..Len(pending') :
                 \E k \in 1..Len(disk[cur.ino]) : pending'[i] = disk[cur.ino][k]
        BY <1>1, <2>2, <2>4 DEF HeldBehindHandle
      <3> QED BY <3>1 DEF BytesInv, BytesAreNumbered
    <2> QED BY <1>1, <1>2, <2>3, <2>5 DEF BytesAreWritten
  <1>5. CASE FillEnd
    <2>1. UNCHANGED <<pending, cur, flush>>
      BY <1>3, <1>5 DEF FillEnd
    <2> QED BY <1>1, <1>2, <2>1 DEF FollowerShape, TailIsElsewhere, BytesAreWritten
  <1>6. CASE AtEndOfFile /\ UNCHANGED <<store, done, flush, cur>>
    <2>1. UNCHANGED <<pending, cur, flush>>
      BY <1>6 DEF AtEndOfFile
    <2> QED BY <1>1, <1>2, <2>1 DEF FollowerShape, TailIsElsewhere, BytesAreWritten
  <1>7. CASE AtEndOfFile /\ CloseCurrent /\ ~(IsNewestFile /\ ~CurrentFileWasReplaced)
    <2>1. pending' = pending /\ cur'.path = 0 /\ pc' = "loop"
      BY <1>7 DEF AtEndOfFile, CloseCurrent, NoFile
    <2>2. cur.path # active
      BY <1>0, <1>1, <1>7, OpenFileIsCurrent, NewestIsActive DEF IsNewestFile
    <2>3. /\ cur.path \in Paths /\ cur.ino = dir[cur.path] /\ cur.ino \in Inodes
          /\ cur.ino # 0
          /\ \A i \in 1..Len(pending) :
               \E k \in 1..Len(disk[cur.ino]) : pending[i] = disk[cur.ino][k]
      BY <1>1, HeldPlaces DEF HeldBehindHandle
    <2>4. dir[active] # cur.ino /\ dir[active] \in Inodes
      BY <1>0, <2>2, <2>3 DEF BytesInv, OneNameEach, TypeFacts
    <2>5. TailIsElsewhere'
      <3> SUFFICES ASSUME NEW i \in 1..Len(pending), NEW k \in 1..Len(disk[dir[active]]),
                          pending[i].id = disk[dir[active]][k].id
                   PROVE  FALSE
        BY <1>1, <2>1 DEF TailIsElsewhere
      <3>1. PICK j \in 1..Len(disk[cur.ino]) : pending[i] = disk[cur.ino][j]
        BY <2>3
      <3>2. disk[cur.ino][j].id = disk[dir[active]][k].id
        BY <3>1
      <3>3. BytesInv /\ cur.ino \in Inodes /\ dir[active] \in Inodes
        BY <2>3, <2>4, <1>1
      <3>4. cur.ino = dir[active]
        BY <3>2, <3>3, OnePlaceEach DEF BytesInv, GrowInv
      <3> QED BY <2>4, <3>4
    <2>6. FollowerShape' /\ BytesAreWritten'
      BY <1>1, <1>2, <1>3, <2>1 DEF FollowerShape, BytesAreWritten
    <2> QED BY <1>2, <2>5, <2>6
  <1> QED BY <1>4, <1>5, <1>6, <1>7 DEF AtEndOfFile

(***************************************************************************)
(* IFC-005 for a caller that only follows, while files only grow, whatever *)
(* the store forgets and however often the reader is interrupted: what was *)
(* delivered of the file being written ends with complete lines.           *)
(***************************************************************************)
THEOREM FollowerEndsWithLines ==
  ASSUME OnlyGrow, FollowModes = {TRUE}
  PROVE  Spec => []FollowerWithholdsPartialLine
  <1> DEFINE Others == /\ NamesUpToActive /\ FollowerShape /\ BytesAreWritten
                       /\ TailIsElsewhere /\ FollowerWithholdsPartialLine
  <1>1. Init => Others
    <2> SUFFICES ASSUME Init PROVE Others
      OBVIOUS
    <2>1. /\ active = 1 /\ \A p \in Paths : dir[p] = IF p = 1 THEN 1 ELSE 0
          /\ Len(out) = 0 /\ Len(pending) = 0 /\ cur.path = 0 /\ pc = "none"
          /\ 1 \in Inodes /\ Len(disk[1]) = 0
      BY FileSetAssumption DEF Init, NoFile, Inodes
    <2>2. Cardinality(Paths) \in Nat /\ Paths = 1..Cardinality(Paths) /\ 1 \in Paths
      BY FS_CardinalityType, FileSetAssumption
    <2>3. NamesUpToActive
      <3>1. \A p \in Paths : p <= 1 <=> p = 1
        BY <2>2
      <3>2. ASSUME NEW p \in Paths PROVE dir[p] # 0 <=> p = 1
        <4>1. dir[p] = IF p = 1 THEN 1 ELSE 0
          BY <2>1
        <4> QED BY <4>1
      <3>3. active = 1
        BY <2>1
      <3> QED BY <3>1, <3>2, <3>3 DEF NamesUpToActive
    <2>4. FollowerShape /\ BytesAreWritten
      BY <2>1 DEF FollowerShape, BytesAreWritten, OutIsWritten
    <2>5. TailIsElsewhere /\ FollowerWithholdsPartialLine
      BY <2>1, <2>2 DEF TailIsElsewhere, FollowerWithholdsPartialLine, ContentOf
    <2> QED BY <2>3, <2>4, <2>5
  <1>2. FollowInv /\ [Next]_vars /\ BytesInv' => FollowInv'
    <2> SUFFICES ASSUME FollowInv, [Next]_vars, BytesInv' PROVE FollowInv'
      OBVIOUS
    <2>1. CASE UNCHANGED vars
      <3>1. UNCHANGED <<dir, disk, active, written, ids, pc, follow, cur, flush, pending, out>>
        BY <2>1 DEF vars, server, fileSet, reader
      <3>2. NamesUpToActive' /\ FollowerShape' /\ BytesAreWritten'
        BY <3>1 DEF FollowInv, NamesUpToActive, FollowerShape, BytesAreWritten, OutIsWritten
      <3>3. TailIsElsewhere' /\ FollowerWithholdsPartialLine'
        BY <3>1 DEF FollowInv, TailIsElsewhere, FollowerWithholdsPartialLine, ContentOf,
                    Delivered
      <3> QED BY <3>2, <3>3 DEF FollowInv
    <2>2. CASE Server
      BY <2>2, ServerKeepsFollower
    <2>3. CASE \E size \in BufSizes : Deliver(size)
      BY <2>3, DeliverKeepsFollower
    <2>4. CASE FillBlock \/ FillEnd \/ AtEndOfFile
      BY <2>4, FillKeepsFollower
    <2>5. CASE \/ Open \/ ReadCall \/ Cancel \/ ReadCancelled \/ Close \/ Restart
               \/ StartScan \/ ScanPath \/ ScanEnd \/ OpenTarget
      BY <2>5, LookingKeepsFollower
    <2> QED BY <2>1, <2>2, <2>3, <2>4, <2>5 DEF Next, ReadStep
  <1>3. FollowInv <=> BytesInv /\ Others
    BY DEF FollowInv
  <1>4. FollowInv => FollowerWithholdsPartialLine
    BY DEF FollowInv
  <1> HIDE DEF Others
  <1> QED BY <1>1, <1>2, <1>3, <1>4, BytesInvHolds, PTL DEF Spec
-----------------------------------------------------------------------------
(***************************************************************************)
(* Passes over a directory in which anything may happen to the files       *)
(* between two passes: appended to, rotated, renamed and created again,    *)
(* truncated, reused, removed.  What tells whether the bytes below a       *)
(* stored offset are those that were read is the head remembered of the    *)
(* file; that it tells is the invariant here.                              *)
(***************************************************************************)

\* The caller drains each pass, the server acts between them, and the store
\* has room for every path.
ReadInPasses ==
  /\ ~ServerDuringPass /\ ~Abandon
  /\ Cardinality(Paths) <= MaxTracked

Held == {pending[i].id : i \in 1..Len(pending)}

\* The file the path names is the one remembered of it, or another one.
Continues(p) ==
  /\ IdentityOf(ids[p], dir[p])
  /\ store.offset[p] <= Len(disk[dir[p]])

Replaced(p) ==
  disk[dir[p]] = <<>> \/ disk[dir[p]][1].id # ids[p].head[1].id

\* How much of the file the path names was read.
Consumed(p) ==
  IF p = cur.path THEN cur.pos ELSE IF Continues(p) THEN store.offset[p] ELSE 0

Undisturbed ==
  /\ ~cancelled
  /\ pc \in {"none", "ended"} => cur.path = 0 /\ pending = <<>>
  /\ pc = "none" => done = {}

OpenFileIsItself ==
  cur.path # 0 =>
    /\ cur.ino = dir[cur.path]
    /\ IdentityOf(ids[cur.path], cur.ino)
    /\ disk[cur.ino] # <<>> => ids[cur.path].head # <<>>
    /\ cur.pos <= Len(disk[cur.ino])
    /\ \A i \in 1..Len(pending) :
         pending[i] = disk[cur.ino][(cur.pos - Len(pending)) + i]
    /\ pc = "eof" => cur.pos = Len(disk[cur.ino])

TargetIsChosen ==
  pc = "open" =>
    /\ dir[target.path] # 0
    /\ target.offset = Consumed(target.path)
    /\ target.id = Identify(target.path)
    /\ target.path \notin done

\* A stored offset has a head beside it, which tells the file from any other.
HeadsTellApart ==
  \A p \in Paths :
    /\ ids[p].head # <<>> => ids[p].head[1].id \in 1..written
    /\ p # cur.path /\ store.offset[p] > 0 =>
         /\ ids[p].head # <<>>
         /\ dir[p] # 0 => Continues(p) \/ Replaced(p)

\* What was read of a file is delivered or held, and what is held is its end.
BytesAreAccountedFor ==
  \A p \in Existing : \A i \in 1..Len(disk[dir[p]]) :
    /\ i <= Consumed(p) <=> disk[dir[p]][i].id \in Delivered \cup Held
    /\ disk[dir[p]][i].id \in Held =>
         \A j \in i..Consumed(p) : disk[dir[p]][j].id \in Held

IsRead(p) == p # cur.path /\ Consumed(p) = Len(disk[dir[p]])

ReadToTheEnd ==
  \A p \in Existing :
    p \in done \/ (pc = "scan" /\ p \notin todo) \/ pc = "ended" => IsRead(p)

PassInv ==
  /\ TypeInv /\ BytesAreNumbered /\ OneNameEach /\ Distinct(store.order)
  /\ OutIsWritten /\ HeldIsNew
  /\ Undisturbed /\ OpenFileIsItself /\ TargetIsChosen /\ HeadsTellApart
  /\ BytesAreAccountedFor /\ ReadToTheEnd

\* The facts about a path that names a file.
LEMMA FileOf ==
  ASSUME TypeInv, NEW p \in Existing
  PROVE  /\ p \in Paths /\ dir[p] \in Inodes /\ dir[p] # 0
         /\ ContentOf(p) = disk[dir[p]] /\ disk[dir[p]] \in Seq(Byte)
         /\ Len(disk[dir[p]]) \in Nat
         /\ store.offset[p] \in Nat /\ ids[p].head \in Seq(Byte)
  <1>1. TypeFacts
    BY TypeFactsHold
  <1>2. p \in Paths /\ dir[p] # 0
    BY DEF Existing
  <1> QED BY <1>1, <1>2 DEF TypeFacts, ContentOf

\* What was read of a file lies within it.
LEMMA ConsumedIsPlace ==
  ASSUME PassInv, NEW p \in Existing
  PROVE  Consumed(p) \in 0..Len(disk[dir[p]])
  <1>1. /\ p \in Paths /\ p # 0 /\ store.offset[p] \in Nat /\ Len(disk[dir[p]]) \in Nat
        /\ cur.pos \in Nat
    BY FileOf, ZeroIsNothing, TypeFactsHold DEF PassInv, TypeFacts
  <1>2. CASE p = cur.path
    BY <1>1, <1>2 DEF PassInv, OpenFileIsItself, Consumed
  <1>3. CASE p # cur.path
    BY <1>1, <1>3 DEF Consumed, Continues
  <1> QED BY <1>2, <1>3

(***************************************************************************)
(* openNext starts where reading stopped: at the stored offset of the file *)
(* it knows, at the head of any other.  And it passes over only what was   *)
(* read.                                                                   *)
(***************************************************************************)
LEMMA StartIsConsumed ==
  ASSUME PassInv, NEW p \in Existing, p # cur.path
  PROVE  /\ StartOffset(p, store.offset[p]) = Consumed(p)
         /\ NothingNew(p, store.offset[p]) => Consumed(p) = Len(disk[dir[p]])
  <1> DEFINE o == store.offset[p]
             c == disk[dir[p]]
             id == Identify(p)
  <1>1. /\ p \in Paths /\ dir[p] \in Inodes /\ dir[p] # 0
        /\ ContentOf(p) = c /\ c \in Seq(Byte) /\ Len(c) \in Nat
        /\ o \in Nat /\ ids[p].head \in Seq(Byte)
    BY FileOf DEF PassInv
  <1>2. TypeOK /\ IdentityOf(id, dir[p]) /\ id.head \in Seq(Byte)
    <2>1. TypeOK
      BY DEF PassInv, TypeInv
    <2>2. id \in Identities
      BY <2>1, IdentifyTyped
    <2> QED BY <2>1, <2>2, IdentifyIsIdentity DEF Identities
  <1>3. Consumed(p) = IF Continues(p) THEN o ELSE 0
    BY DEF Consumed
  <1>4. CASE o = 0
    BY <1>3, <1>4 DEF StartOffset, NothingNew
  <1>5. CASE o > 0
    <2>1. /\ ids[p].head # <<>> /\ ids[p] # NoId
          /\ Continues(p) \/ Replaced(p)
      BY <1>1, <1>5 DEF PassInv, HeadsTellApart, NoId
    <2>2. CASE Continues(p)
      <3>1. SameFile(ids[p], id)
        <4>1. IdentityOf(ids[p], dir[p])
          BY <2>2 DEF Continues
        <4> QED BY <4>1, <1>1, <1>2, GrownFileIsSame
      <3>2. o <= Len(c)
        BY <2>2 DEF Continues
      <3>3. StartOffset(p, o) = o
        BY <1>1, <3>1, <3>2 DEF StartOffset, SameFileAsLastTime
      <3>4. NothingNew(p, o) => Len(c) = o
        BY <1>1 DEF NothingNew
      <3> QED BY <1>3, <2>2, <3>3, <3>4
    <2>3. CASE ~Continues(p)
      <3>1. CASE c = <<>>
        <4>1. Len(c) = 0
          BY <3>1
        <4>2. StartOffset(p, o) = 0
          BY <1>1, <1>5, <4>1 DEF StartOffset
        <4>3. ~NothingNew(p, o)
          BY <1>1, <1>5, <4>1 DEF NothingNew
        <4> QED BY <1>3, <2>3, <4>2, <4>3
      <3>2. CASE c # <<>>
        <4>1. c[1].id # ids[p].head[1].id
          BY <2>1, <2>3, <3>2 DEF Replaced
        <4>2. 1 \in 1..Len(id.head) /\ id.head[1] = c[1]
          <5>1. HeadSize \in Nat \ {0} /\ Len(c) > 0
            BY <1>1, <3>2, FileSetAssumption
          <5>2. id.head = SubSeq(c, 1, MinOf(HeadSize, Len(c)))
            BY <1>1 DEF Identify
          <5>3. MinOf(HeadSize, Len(c)) \in 1..Len(c)
            BY <5>1, <1>1 DEF MinOf
          <5> DEFINE m == MinOf(HeadSize, Len(c))
          <5> HIDE DEF m
          <5>4. m \in 1..Len(c) /\ id.head = SubSeq(c, 1, m)
            BY <5>2, <5>3 DEF m
          <5>5. Len(id.head) = m
            BY <5>4, <1>1
          <5>6. 1 \in 1..Len(id.head)
            BY <5>4, <5>5, <1>1
          <5> QED BY <5>6, <1>2 DEF IdentityOf
        <4>3. 1 \in 1..MinOf(Len(ids[p].head), Len(id.head))
          <5>1. Len(ids[p].head) \in Nat /\ Len(ids[p].head) > 0 /\ Len(id.head) \in Nat
            BY <1>1, <1>2, <2>1
          <5> QED BY <5>1, <4>2 DEF MinOf
        <4>4. ~SameFileAsLastTime(p, id)
          BY <2>1, <4>1, <4>2, <4>3 DEF SameFileAsLastTime, SameFile
        <4>5. StartOffset(p, o) = 0 /\ ~NothingNew(p, o)
          BY <4>4 DEF StartOffset, NothingNew
        <4> QED BY <1>3, <2>3, <4>5
      <3> QED BY <3>1, <3>2
    <2> QED BY <2>2, <2>3
  <1> QED BY <1>1, <1>4, <1>5

(***************************************************************************)
(* The server, whatever it does: a file a path names after its step is the *)
(* one it named before, perhaps longer, or empty.                          *)
(***************************************************************************)
LEMMA ServerExtendsOrEmpties ==
  ASSUME TypeInv, OneNameEach, Server
  PROVE  /\ UNCHANGED <<fileSet, reader, out>>
         /\ written \in Nat /\ written' \in {written, written + 1}
         /\ OneNameEach'
         /\ \A p \in Existing' :
              \/ disk'[dir'[p]] = <<>>
              \/ /\ p \in Existing /\ dir'[p] = dir[p]
                 /\ Len(disk'[dir[p]]) \in Nat /\ Len(disk[dir[p]]) <= Len(disk'[dir[p]])
                 /\ \A k \in 1..Len(disk[dir[p]]) : disk'[dir[p]][k] = disk[dir[p]][k]
                 /\ \A k \in 1..Len(disk'[dir[p]]) : k > Len(disk[dir[p]]) =>
                      disk'[dir[p]][k].id = written + 1 /\ written' = written + 1
  <1> USE DEF Existing
  <1>0. TypeFacts /\ written \in Nat
    BY TypeFactsHold DEF TypeInv, TypeOK
  <1>1. CASE Append1
    <2>1. /\ UNCHANGED <<dir, active, fileSet, reader, out>>
          /\ written' = written + 1
          /\ \A i \in Inodes :
               /\ Len(disk'[i]) \in Nat /\ Len(disk[i]) <= Len(disk'[i])
               /\ \A k \in 1..Len(disk[i]) : disk'[i][k] = disk[i][k]
               /\ \A k \in 1..Len(disk'[i]) : k > Len(disk[i]) => disk'[i][k].id = written + 1
      BY <1>1, AppendAddsOne
    <2>2. \A p \in Existing' : p \in Existing /\ dir'[p] = dir[p] /\ dir[p] \in Inodes
      BY <1>0, <2>1 DEF TypeFacts
    <2> QED BY <1>0, <2>1, <2>2 DEF OneNameEach
  <1>2. ASSUME NEW i \in FreeInodes, NEW q \in Paths, dir' = [dir EXCEPT ![q] = i],
               UNCHANGED <<disk, written, fileSet, reader, out>>
        PROVE  /\ OneNameEach'
               /\ \A p \in Existing' :
                    disk'[dir'[p]] = <<>> \/ (p \in Existing /\ dir'[p] = dir[p])
    <2>1. i \in Inodes /\ disk[i] = <<>> /\ \A p \in Paths : dir[p] # i
      BY DEF FreeInodes
    <2>2. \A p \in Paths : dir'[p] = IF p = q THEN i ELSE dir[p]
      BY <1>0, <1>2 DEF TypeFacts
    <2> QED BY <1>2, <2>1, <2>2 DEF OneNameEach
  <1>3. ASSUME NEW i \in Inodes, disk' = [disk EXCEPT ![i] = <<>>],
               UNCHANGED <<dir, written, fileSet, reader, out>>
        PROVE  /\ OneNameEach'
               /\ \A p \in Existing' :
                    \/ disk'[dir'[p]] = <<>>
                    \/ p \in Existing /\ dir'[p] = dir[p] /\ disk'[dir[p]] = disk[dir[p]]
    <2>1. \A p \in Existing' : p \in Existing /\ dir'[p] = dir[p] /\ dir[p] \in Inodes
      BY <1>0, <1>3 DEF TypeFacts
    <2>2. \A j \in Inodes : disk'[j] = IF j = i THEN <<>> ELSE disk[j]
      BY <1>0, <1>3 DEF TypeFacts
    <2> QED BY <1>3, <2>1, <2>2 DEF OneNameEach
  <1>4. ASSUME NEW p \in Existing, dir'[p] = dir[p], disk'[dir[p]] = disk[dir[p]]
        PROVE  /\ Len(disk'[dir[p]]) \in Nat /\ Len(disk[dir[p]]) <= Len(disk'[dir[p]])
               /\ \A k \in 1..Len(disk'[dir[p]]) : ~(k > Len(disk[dir[p]]))
    BY <1>0, <1>4 DEF TypeFacts
  <1>5. CASE Rotate \/ Rename
    <2>1. PICK i \in FreeInodes, q \in Paths :
            dir' = [dir EXCEPT ![q] = i] /\ UNCHANGED <<disk, written, fileSet, reader, out>>
      <3>1. CASE Rotate
        <4>1. active + 1 \in Paths
          BY <3>1 DEF Rotate
        <4> QED BY <3>1, <4>1 DEF Rotate
      <3>2. CASE Rename
        BY <1>0, <3>2 DEF Rename, TypeFacts
      <3> QED BY <1>5, <3>1, <3>2
    <2>2. /\ OneNameEach'
          /\ \A p \in Existing' :
               disk'[dir'[p]] = <<>> \/ (p \in Existing /\ dir'[p] = dir[p])
      BY <2>1, <1>2
    <2>3. disk' = disk
      BY <2>1
    <2> QED BY <1>0, <1>4, <2>1, <2>2, <2>3
  <1>6. CASE Truncate \/ Reuse
    <2>1. PICK i \in Inodes :
            disk' = [disk EXCEPT ![i] = <<>>] /\ UNCHANGED <<dir, written, fileSet, reader, out>>
      <3>1. CASE Truncate
        BY <1>0, <3>1 DEF Truncate, TypeFacts
      <3>2. CASE Reuse
        <4>1. PICK p \in Existing \ {active} : disk' = [disk EXCEPT ![dir[p]] = <<>>]
          BY <3>2 DEF Reuse
        <4>2. dir[p] \in Inodes
          BY <1>0 DEF TypeFacts
        <4> QED BY <3>2, <4>1, <4>2 DEF Reuse
      <3> QED BY <1>6, <3>1, <3>2
    <2>2. /\ OneNameEach'
          /\ \A p \in Existing' :
               \/ disk'[dir'[p]] = <<>>
               \/ p \in Existing /\ dir'[p] = dir[p] /\ disk'[dir[p]] = disk[dir[p]]
      BY <2>1, <1>3
    <2> QED BY <1>0, <1>4, <2>1, <2>2
  <1>7. CASE Remove
    <2>1. PICK q \in Paths : dir' = [dir EXCEPT ![q] = 0]
      BY <1>7 DEF Remove
    <2>2. UNCHANGED <<disk, written, fileSet, reader, out>>
      BY <1>7 DEF Remove
    <2>3. \A p \in Paths : dir'[p] = IF p = q THEN 0 ELSE dir[p]
      BY <1>0, <2>1 DEF TypeFacts
    <2>4. \A p \in Existing' : p \in Existing /\ dir'[p] = dir[p]
      BY <2>3
    <2>5. OneNameEach'
      BY <2>3 DEF OneNameEach
    <2> QED BY <1>0, <1>4, <2>2, <2>4, <2>5
  <1> QED BY <1>1, <1>5, <1>6, <1>7 DEF Server

\* The numbers of the bytes stay in order, whatever the server does.
LEMMA ServerKeepsNumbers ==
  ASSUME TypeInv, BytesAreNumbered, Server
  PROVE  BytesAreNumbered'
  <1>0. TypeFacts
    BY TypeFactsHold
  <1>1. CASE Append1
    BY <1>1, AppendKeepsNumbers
  <1>2. CASE Rotate \/ Rename \/ Remove
    <2>1. UNCHANGED <<disk, written>>
      BY <1>2 DEF Rotate, Rename, Remove
    <2> QED BY <2>1 DEF BytesAreNumbered
  <1>3. CASE Truncate \/ Reuse
    <2>1. PICK j \in Inodes : disk' = [disk EXCEPT ![j] = <<>>] /\ UNCHANGED written
      <3>1. CASE Truncate
        BY <1>0, <3>1 DEF Truncate, TypeFacts
      <3>2. CASE Reuse
        <4>1. PICK p \in Existing \ {active} : disk' = [disk EXCEPT ![dir[p]] = <<>>]
          BY <3>2 DEF Reuse
        <4>2. dir[p] \in Inodes
          BY <1>0 DEF TypeFacts, Existing
        <4> QED BY <3>2, <4>1, <4>2 DEF Reuse
      <3> QED BY <1>3, <3>1, <3>2
    <2>2. ASSUME NEW i \in Inodes, NEW k \in 1..Len(disk'[i]) PROVE disk'[i] = disk[i]
      <3>1. CASE i = j
        <4>1. disk'[i] = <<>>
          BY <1>0, <2>1, <3>1 DEF TypeFacts
        <4>2. Len(disk'[i]) = 0
          BY <4>1
        <4> QED BY <4>2
      <3>2. CASE i # j
        BY <1>0, <2>1, <3>2 DEF TypeFacts
      <3> QED BY <3>1, <3>2
    <2>3. ASSUME NEW i \in Inodes, NEW k \in 1..Len(disk'[i])
          PROVE  k \in 1..Len(disk[i]) /\ disk'[i][k] = disk[i][k]
      BY <2>2
    <2> QED BY <2>1, <2>2, <2>3 DEF BytesAreNumbered
  <1> QED BY <1>1, <1>2, <1>3 DEF Server

(***************************************************************************)
(* Between two passes the server may do anything to a file: the head that  *)
(* is remembered goes on telling whether it is still the file that was     *)
(* read.  A byte that is new there has a number no head has.               *)
(***************************************************************************)
LEMMA ServerKeepsPass ==
  ASSUME PassInv, ReadInPasses, Server, TypeInv'
  PROVE  PassInv'
  <1>0. /\ TypeInv /\ BytesAreNumbered /\ OneNameEach /\ Undisturbed
        /\ OutIsWritten /\ HeldIsNew /\ HeadsTellApart /\ Distinct(store.order)
    BY DEF PassInv
  <1>1. /\ UNCHANGED <<store, ids, pc, cancelled, cur, done, pending, todo, target, out>>
        /\ written \in Nat /\ written' \in {written, written + 1}
        /\ OneNameEach'
    BY <1>0, ServerExtendsOrEmpties DEF fileSet, reader
  <1>2. pc = "none" /\ cur.path = 0 /\ pending = <<>> /\ done = {}
    <2>1. pc = "none"
      BY DEF ReadInPasses, Server, ServerMayAct, Append1, Rotate, Rename, Truncate, Reuse, Remove
    <2> QED BY <2>1, <1>0 DEF Undisturbed
  <1>3. Held = {} /\ Held' = {} /\ Delivered' = Delivered
    <2>1. Len(pending) = 0 /\ pending' = pending
      BY <1>1, <1>2
    <2> QED BY <2>1, <1>1 DEF Held, Delivered
  <1>4. written + 1 \notin Delivered
    BY <1>0, <1>1 DEF OutIsWritten, Delivered
  <1>5. ASSUME NEW p \in Existing', disk'[dir'[p]] # <<>>
        PROVE  /\ p \in Existing /\ dir'[p] = dir[p] /\ dir[p] \in Inodes
               /\ disk[dir[p]] \in Seq(Byte) /\ disk'[dir[p]] \in Seq(Byte)
               /\ Len(disk[dir[p]]) <= Len(disk'[dir[p]])
               /\ \A k \in 1..Len(disk[dir[p]]) : disk'[dir[p]][k] = disk[dir[p]][k]
               /\ \A k \in 1..Len(disk'[dir[p]]) : k > Len(disk[dir[p]]) =>
                    disk'[dir[p]][k].id = written + 1 /\ written' = written + 1
    <2>1. /\ p \in Existing /\ dir'[p] = dir[p]
          /\ Len(disk[dir[p]]) <= Len(disk'[dir[p]])
          /\ \A k \in 1..Len(disk[dir[p]]) : disk'[dir[p]][k] = disk[dir[p]][k]
          /\ \A k \in 1..Len(disk'[dir[p]]) : k > Len(disk[dir[p]]) =>
               disk'[dir[p]][k].id = written + 1 /\ written' = written + 1
      BY <1>0, <1>5, ServerExtendsOrEmpties
    <2>2. dir[p] \in Inodes /\ disk[dir[p]] \in Seq(Byte)
      BY <1>0, <2>1, FileOf
    <2>3. disk' \in [Inodes -> Seq(Byte)]
      BY DEF TypeInv, TypeOK, Inodes, Byte
    <2> QED BY <2>1, <2>2, <2>3
  <1>6. HeadsTellApart'
    <2>1. ASSUME NEW p \in Paths, ids[p].head # <<>>
          PROVE  ids[p].head[1].id \in 1..written'
      BY <1>0, <1>1, <2>1 DEF HeadsTellApart
    <2>2. ASSUME NEW p \in Paths, store.offset[p] > 0
          PROVE  /\ ids[p].head # <<>>
                 /\ dir'[p] # 0 => (Continues(p) \/ Replaced(p))'
      <3>1. p # cur.path
        BY <1>2, ZeroIsNothing
      <3>2. ids[p].head # <<>> /\ (dir[p] # 0 => Continues(p) \/ Replaced(p))
        BY <1>0, <2>2, <3>1 DEF HeadsTellApart
      <3>3. CASE disk'[dir'[p]] = <<>>
        BY <3>2, <3>3 DEF Replaced
      <3>4. CASE disk'[dir'[p]] # <<>> /\ dir'[p] # 0
        <4>1. p \in Existing'
          BY <3>4 DEF Existing
        <4> DEFINE c == disk[dir[p]]
                   d == disk'[dir[p]]
        <4>2. /\ p \in Existing /\ dir'[p] = dir[p] /\ c \in Seq(Byte) /\ d \in Seq(Byte)
              /\ Len(c) \in Nat /\ Len(d) \in Nat /\ Len(c) <= Len(d)
              /\ \A k \in 1..Len(c) : d[k] = c[k]
              /\ \A k \in 1..Len(d) : k > Len(c) => d[k].id = written + 1
          BY <4>1, <3>4, <1>5
        <4>3. store.offset[p] \in Nat /\ ids[p].head \in Seq(Byte) /\ dir[p] # 0
          BY <1>0, <4>2, FileOf
        <4> HIDE DEF c, d
        <4>4. CASE Continues(p)
          <5>1. /\ ids[p].ino = dir[p] /\ Len(ids[p].head) <= Len(c)
                /\ \A k \in 1..Len(ids[p].head) : ids[p].head[k] = c[k]
                /\ store.offset[p] <= Len(c)
            BY <4>4 DEF Continues, IdentityOf, c
          <5>2. Len(ids[p].head) \in Nat
            BY <4>3
          <5>3. Len(ids[p].head) <= Len(d) /\ store.offset[p] <= Len(d)
                /\ \A k \in 1..Len(ids[p].head) : ids[p].head[k] = d[k]
            BY <4>2, <4>3, <5>1, <5>2
          <5>4. IdentityOf(ids[p], dir[p])'
            BY <1>1, <4>2, <5>1, <5>3 DEF IdentityOf, d
          <5>5. Continues(p)'
            BY <1>1, <4>2, <5>3, <5>4 DEF Continues, d
          <5> QED BY <3>2, <5>5
        <4>5. CASE Replaced(p)
          <5>1. c = <<>> \/ c[1].id # ids[p].head[1].id
            BY <4>5 DEF Replaced, c
          <5>2. 1 \in 1..Len(d)
            BY <3>4, <4>2 DEF d
          <5>3. CASE c = <<>>
            <6>1. Len(c) = 0
              BY <5>3
            <6>2. d[1].id = written + 1
              BY <4>2, <5>2, <6>1
            <6>3. ids[p].head[1].id \in 1..written
              BY <1>0, <3>2 DEF HeadsTellApart
            <6>4. d[1].id # ids[p].head[1].id
              BY <1>1, <6>2, <6>3
            <6> QED BY <1>1, <3>2, <4>2, <6>4 DEF Replaced, d
          <5>4. CASE c # <<>>
            <6>1. d[1] = c[1]
              BY <4>2, <5>4
            <6> QED BY <1>1, <3>2, <4>2, <5>1, <5>4, <6>1 DEF Replaced, d
          <5> QED BY <5>3, <5>4
        <4> QED BY <3>2, <4>3, <4>4, <4>5
      <3> QED BY <3>2, <3>3, <3>4
    <2> QED BY <1>1, <2>1, <2>2 DEF HeadsTellApart
  <1>7. ASSUME NEW p \in Existing', disk'[dir'[p]] # <<>>
        PROVE  Consumed(p)' = Consumed(p)
    <2>1. p # cur.path /\ p \in Existing /\ dir'[p] = dir[p] /\ p \in Paths
      BY <1>2, <1>5, <1>7, ZeroIsNothing DEF Existing
    <2>2. Consumed(p) = IF Continues(p) THEN store.offset[p] ELSE 0
      BY <2>1 DEF Consumed
    <2>3. Consumed(p)' = IF Continues(p)' THEN store.offset[p] ELSE 0
      BY <1>1, <2>1 DEF Consumed
    <2>4. store.offset[p] \in Nat /\ ids[p].head \in Seq(Byte)
      BY <1>0, <2>1, FileOf
    <2>5. CASE store.offset[p] = 0
      BY <2>2, <2>3, <2>5
    <2>6. CASE store.offset[p] > 0 /\ Continues(p)
      <3> DEFINE c == disk[dir[p]]
                 d == disk'[dir[p]]
      <3>1. /\ Len(c) \in Nat /\ Len(d) \in Nat /\ Len(c) <= Len(d)
            /\ \A k \in 1..Len(c) : d[k] = c[k]
        BY <1>5, <1>7
      <3>2. /\ ids[p].ino = dir[p] /\ Len(ids[p].head) <= Len(c)
            /\ \A k \in 1..Len(ids[p].head) : ids[p].head[k] = c[k]
            /\ store.offset[p] <= Len(c) /\ Len(ids[p].head) \in Nat
        BY <2>4, <2>6 DEF Continues, IdentityOf
      <3> HIDE DEF c, d
      <3>3. /\ Len(ids[p].head) <= Len(d) /\ store.offset[p] <= Len(d)
            /\ \A k \in 1..Len(ids[p].head) : ids[p].head[k] = d[k]
        BY <2>4, <3>1, <3>2
      <3>4. Continues(p)'
        BY <1>1, <2>1, <3>2, <3>3 DEF Continues, IdentityOf, d
      <3> QED BY <2>2, <2>3, <2>6, <3>4
    <2>7. CASE store.offset[p] > 0 /\ ~Continues(p)
      <3>1. ids[p].head # <<>> /\ Replaced(p)
        BY <1>0, <2>1, <2>7 DEF HeadsTellApart, Existing
      <3> DEFINE c == disk[dir[p]]
                 d == disk'[dir[p]]
      <3>2. /\ Len(c) \in Nat /\ Len(d) \in Nat /\ Len(c) <= Len(d) /\ c \in Seq(Byte)
            /\ \A k \in 1..Len(c) : d[k] = c[k] /\ d \in Seq(Byte)
            /\ \A k \in 1..Len(d) : k > Len(c) => d[k].id = written + 1
        BY <1>5, <1>7
      <3>3. d # <<>> /\ (c = <<>> \/ c[1].id # ids[p].head[1].id)
        BY <1>7, <2>1, <3>1 DEF Replaced
      <3>4. ids[p].head[1].id \in 1..written
        BY <1>0, <2>1, <3>1 DEF HeadsTellApart
      <3> HIDE DEF c, d
      <3>5. d[1].id # ids[p].head[1].id
        <4>1. CASE c = <<>>
          <5>1. Len(c) = 0 /\ Len(d) > 0
            BY <3>3, <4>1, <1>5, <1>7 DEF d
          <5>2. d[1].id = written + 1
            BY <3>2, <5>1
          <5> QED BY <1>1, <3>4, <5>2
        <4>2. CASE c # <<>>
          <5>1. 1 \in 1..Len(c)
            BY <3>2, <4>2
          <5> QED BY <3>2, <3>3, <4>2, <5>1
        <4> QED BY <4>1, <4>2
      <3>6. ~Continues(p)'
        <4>1. 1 \in 1..Len(ids[p].head)
          BY <2>4, <3>1
        <4>2. ASSUME Continues(p)' PROVE FALSE
          <5>1. ids[p].head[1] = d[1]
            BY <1>1, <2>1, <4>1, <4>2 DEF Continues, IdentityOf, d
          <5> QED BY <3>5, <5>1
        <4> QED BY <4>2
      <3> QED BY <2>2, <2>3, <2>7, <3>6
    <2> QED BY <2>4, <2>5, <2>6, <2>7
  <1>8. BytesAreAccountedFor'
    <2> SUFFICES ASSUME NEW p \in Existing', NEW i \in 1..Len(disk'[dir'[p]])
                 PROVE  i <= Consumed(p)' <=> disk'[dir'[p]][i].id \in Delivered
      BY <1>3 DEF BytesAreAccountedFor
    <2>1. disk'[dir'[p]] # <<>>
      <3>1. CASE disk'[dir'[p]] = <<>>
        <4>1. Len(disk'[dir'[p]]) = 0
          BY <3>1
        <4> QED BY <4>1
      <3> QED BY <3>1
    <2> DEFINE c == disk[dir[p]]
               d == disk'[dir[p]]
    <2>2. /\ Len(c) \in Nat /\ Len(c) <= Len(d) /\ dir'[p] = dir[p] /\ p \in Existing
          /\ \A k \in 1..Len(c) : d[k] = c[k]
          /\ \A k \in 1..Len(d) : k > Len(c) => d[k].id = written + 1
      BY <1>5, <2>1
    <2>3. Consumed(p)' = Consumed(p) /\ Consumed(p) \in 0..Len(c)
      BY <1>7, <2>1, <2>2, ConsumedIsPlace
    <2>4. CASE i <= Len(c)
      <3>1. i \in 1..Len(c)
        BY <2>2, <2>4
      <3>2. i <= Consumed(p) <=> c[i].id \in Delivered
        BY <1>3, <2>2, <3>1 DEF PassInv, BytesAreAccountedFor
      <3> QED BY <2>2, <2>3, <3>1, <3>2
    <2>5. CASE ~(i <= Len(c))
      <3>1. d[i].id = written + 1
        BY <2>2, <2>5
      <3>2. ~(i <= Consumed(p))
        BY <2>2, <2>3, <2>5
      <3> QED BY <1>4, <2>2, <2>3, <3>1, <3>2
    <2> QED BY <2>4, <2>5
  <1>9. OutIsWritten' /\ HeldIsNew'
    <2>1. Len(pending') = 0 /\ Len(pending) = 0
      BY <1>1, <1>2
    <2> QED BY <1>0, <1>1, <2>1 DEF OutIsWritten, HeldIsNew
  <1>10. Undisturbed' /\ OpenFileIsItself' /\ TargetIsChosen' /\ ReadToTheEnd'
    BY <1>0, <1>1, <1>2 DEF Undisturbed, OpenFileIsItself, TargetIsChosen, ReadToTheEnd
  <1>11. BytesAreNumbered' /\ Distinct(store.order)'
    BY <1>0, <1>1, ServerKeepsNumbers
  <1> QED BY <1>1, <1>6, <1>8, <1>9, <1>10, <1>11 DEF PassInv

\* A file with a byte in it has a head.
LEMMA HeadOfContent ==
  ASSUME TypeOK, NEW p \in Existing, ContentOf(p) # <<>>
  PROVE  Identify(p).head # <<>>
  <1> DEFINE c == ContentOf(p)
             m == MinOf(HeadSize, Len(c))
  <1>1. c \in Seq(Byte) /\ Len(c) \in Nat
    BY DEF TypeOK, Existing, ContentOf
  <1>2. HeadSize \in Nat \ {0} /\ Len(c) > 0
    BY <1>1, FileSetAssumption
  <1>3. m \in 1..Len(c)
    BY <1>1, <1>2 DEF MinOf
  <1>4. Identify(p).head = SubSeq(c, 1, m)
    BY DEF Identify
  <1> HIDE DEF m, c
  <1>5. Len(Identify(p).head) = m
    BY <1>1, <1>3, <1>4
  <1> QED BY <1>3, <1>5

(***************************************************************************)
(* A step that moves no byte, no offset and no handle.                     *)
(***************************************************************************)
LEMMA NothingMoves ==
  ASSUME PassInv, Distinct(store.order)',
         UNCHANGED <<dir, disk, written, ids, pending, out>>,
         store'.offset = store.offset,
         cur'.path = cur.path, cur.path # 0 => cur' = cur
  PROVE  /\ BytesAreNumbered' /\ OneNameEach' /\ OutIsWritten' /\ HeldIsNew'
         /\ HeadsTellApart' /\ BytesAreAccountedFor'
         /\ pc' # "eof" => OpenFileIsItself'
         /\ \A p \in Paths : Consumed(p)' = Consumed(p) /\ (IsRead(p)' <=> IsRead(p))
         /\ Existing' = Existing
  <1>1. 0 \notin Paths
    BY ZeroIsNothing
  <1>2. \A p \in Paths : /\ Continues(p)' <=> Continues(p)
                         /\ Replaced(p)' <=> Replaced(p)
    BY DEF Continues, Replaced, IdentityOf
  <1>3. \A p \in Paths : Consumed(p)' = Consumed(p)
    BY <1>1, <1>2 DEF Consumed
  <1>4. Delivered' = Delivered /\ Held' = Held /\ Existing' = Existing
    BY DEF Delivered, Held, Existing
  <1>5. BytesAreNumbered' /\ OneNameEach' /\ OutIsWritten' /\ HeldIsNew'
    BY <1>4 DEF PassInv, BytesAreNumbered, OneNameEach, OutIsWritten, HeldIsNew
  <1>6. HeadsTellApart'
    BY <1>2 DEF PassInv, HeadsTellApart
  <1>7. BytesAreAccountedFor'
    BY <1>3, <1>4 DEF PassInv, BytesAreAccountedFor, Existing
  <1>8. pc' # "eof" => OpenFileIsItself'
    BY DEF PassInv, OpenFileIsItself, IdentityOf
  <1>9. \A p \in Paths : IsRead(p)' <=> IsRead(p)
    BY <1>3 DEF IsRead
  <1> QED BY <1>3, <1>4, <1>5, <1>6, <1>7, <1>8, <1>9

\* A session that is drained begins with nothing held and ends with nothing held.
LEMMA SessionKeepsPass ==
  ASSUME PassInv, ReadInPasses, TypeInv',
         Open \/ ReadCall \/ Cancel \/ ReadCancelled \/ Close \/ Restart
  PROVE  PassInv'
  <1>1. /\ ~Abandon /\ ~cancelled
        /\ pc \in {"none", "ended"} => cur.path = 0 /\ pending = <<>>
        /\ pc = "none" => done = {}
    BY DEF PassInv, ReadInPasses, Undisturbed
  <1>2. Open \/ ReadCall \/ Close
    BY <1>1 DEF Cancel, ReadCancelled, Restart
  <1>3. /\ UNCHANGED <<dir, disk, written, ids, store, out>>
        /\ pending' = pending /\ cur'.path = cur.path /\ (cur.path # 0 => cur' = cur)
        /\ pc' \in {"none", "idle", "loop"} /\ ~cancelled'
        /\ done' \subseteq done
        /\ pc' = "none" => done' = {} /\ cur'.path = 0 /\ pending' = <<>>
    <2>1. CASE Open
      BY <1>1, <2>1 DEF Open, server, fileSet, NoFile
    <2>2. CASE ReadCall
      BY <1>1, <2>2 DEF ReadCall, server, fileSet
    <2>3. CASE Close
      BY <1>1, <2>3 DEF Close, Reset, server, fileSet, NoFile
    <2> QED BY <1>2, <2>1, <2>2, <2>3
  <1>4. Distinct(store.order)'
    BY <1>3 DEF PassInv, Distinct
  <1>5. /\ BytesAreNumbered' /\ OneNameEach' /\ OutIsWritten' /\ HeldIsNew'
        /\ HeadsTellApart' /\ BytesAreAccountedFor' /\ OpenFileIsItself'
        /\ \A p \in Paths : IsRead(p)' <=> IsRead(p)
        /\ Existing' = Existing
    BY <1>3, <1>4, NothingMoves
  <1>6. Undisturbed' /\ TargetIsChosen'
    BY <1>3 DEF Undisturbed, TargetIsChosen
  <1>7. ReadToTheEnd'
    BY <1>3, <1>5 DEF PassInv, ReadToTheEnd, Existing
  <1> QED BY <1>4, <1>5, <1>6, <1>7 DEF PassInv

(***************************************************************************)
(* openNext: what it passes over is read to its end, what it settles on is *)
(* opened where reading stopped.                                           *)
(***************************************************************************)
LEMMA ScanKeepsPass ==
  ASSUME PassInv, ReadInPasses, TypeInv', StartScan \/ ScanPath \/ ScanEnd
  PROVE  PassInv'
  <1>0. /\ TypeInv /\ TypeOK /\ SessionShape /\ StoreShape /\ Undisturbed /\ ReadToTheEnd
        /\ Distinct(store.order) /\ SessionShape'
    BY DEF PassInv, TypeInv
  <1>1. /\ UNCHANGED <<dir, disk, written, ids, pending, out, cur, done, cancelled>>
        /\ pc' \in {"loop", "ended", "scan", "open"}
    BY DEF StartScan, ScanPath, ScanEnd, server, fileSet
  <1>2. Undisturbed'
    <2>1. pc' = "ended" => cur.path = 0 /\ pending = <<>>
      BY <1>0 DEF StartScan, ScanPath, ScanEnd, SessionShape
    <2> QED BY <1>0, <1>1, <2>1 DEF Undisturbed
  <1>3. CASE StartScan \/ ScanEnd
    <2>1. store' = store /\ Distinct(store.order)'
      BY <1>0, <1>3 DEF StartScan, ScanEnd, fileSet, Distinct
    <2>2. /\ BytesAreNumbered' /\ OneNameEach' /\ OutIsWritten' /\ HeldIsNew'
          /\ HeadsTellApart' /\ BytesAreAccountedFor' /\ OpenFileIsItself'
          /\ \A p \in Paths : IsRead(p)' <=> IsRead(p)
          /\ Existing' = Existing
      BY <1>1, <2>1, NothingMoves
    <2>3. TargetIsChosen'
      BY <1>3 DEF StartScan, ScanEnd, TargetIsChosen
    <2>4. ReadToTheEnd'
      <3> SUFFICES ASSUME NEW p \in Existing,
                          p \in done \/ (pc' = "scan" /\ p \notin todo') \/ pc' = "ended"
                   PROVE  IsRead(p)
        BY <1>1, <2>2 DEF ReadToTheEnd, Existing
      <3>1. CASE p \in done
        BY <1>0, <3>1 DEF ReadToTheEnd
      <3>2. CASE pc' = "scan" /\ p \notin todo'
        BY <1>3, <3>2 DEF StartScan, ScanEnd
      <3>3. CASE pc' = "ended"
        BY <1>0, <1>3, <3>3 DEF StartScan, ScanEnd, ReadToTheEnd
      <3> QED BY <3>1, <3>2, <3>3
    <2> QED BY <1>2, <2>1, <2>2, <2>3, <2>4 DEF PassInv
  <1>4. CASE ScanPath
    <2>1. /\ pc = "scan" /\ todo # {} /\ todo \subseteq Paths /\ cur.path = 0
          /\ store.order \in Seq(Paths) /\ store.offset \in [Paths -> Nat]
          /\ store = [order |-> store.order, offset |-> store.offset]
      BY <1>0, <1>4 DEF ScanPath, TypeOK, SessionShape, StoreShape
    <2>2. PICK p \in todo : p = Min(todo) /\ p \in Paths /\ p # cur.path
      <3>1. todo \subseteq Nat /\ 0 \notin Paths
        BY <2>1, ZeroIsNothing
      <3>2. Min(todo) \in todo
        BY <2>1, <3>1, LeastOf
      <3> QED BY <2>1, <3>1, <3>2
    <2> DEFINE o == store.offset[p]
    <2>3. /\ todo' = todo \ {p}
          /\ store' = IF p \in done THEN store ELSE AfterGet(store, p)
          /\ IF p \in done \/ dir[p] = 0 \/ NothingNew(p, o)
             THEN UNCHANGED <<pc, target>>
             ELSE /\ pc' = "open"
                  /\ target' = [path |-> p, offset |-> StartOffset(p, o),
                                id |-> Identify(p)]
      BY <1>4, <2>2 DEF ScanPath, OffsetOf
    <2> HIDE DEF o
    <2>5. store'.offset = store.offset /\ Distinct(store.order)'
      <3>1. CASE p \in done
        BY <1>0, <2>3, <3>1 DEF Distinct
      <3>2. CASE p \notin done
        <4>1. AfterGet(store, p).offset = store.offset
          BY <2>1, <2>2, AfterGetTyped
        <4>2. Distinct(AfterGet(store, p).order)
          BY <1>0, <2>1, <2>2, GetKeepsDistinct
        <4>3. store' = AfterGet(store, p)
          BY <2>3, <3>2
        <4> QED BY <4>1, <4>2, <4>3
      <3> QED BY <3>1, <3>2
    <2>6. pc' # "eof"
      BY <1>1
    <2>7. /\ BytesAreNumbered' /\ OneNameEach' /\ OutIsWritten' /\ HeldIsNew'
          /\ HeadsTellApart' /\ BytesAreAccountedFor' /\ OpenFileIsItself'
          /\ \A q \in Paths : Consumed(q)' = Consumed(q) /\ (IsRead(q)' <=> IsRead(q))
          /\ Existing' = Existing
      BY <1>1, <2>5, <2>6, NothingMoves
    <2>8. dir[p] # 0 =>
            /\ StartOffset(p, o) = Consumed(p)
            /\ NothingNew(p, o) => Consumed(p) = Len(disk[dir[p]])
      BY <2>2, StartIsConsumed DEF Existing, o
    <2>9. CASE p \in done \/ dir[p] = 0 \/ NothingNew(p, o)
      <3>1. pc' = "scan"
        BY <2>1, <2>3, <2>9
      <3>2. ReadToTheEnd'
        <4> SUFFICES ASSUME NEW q \in Existing, q \in done \/ q \notin todo'
                     PROVE  IsRead(q)
          BY <1>1, <2>7, <3>1 DEF ReadToTheEnd, Existing
        <4>1. CASE q \in done \/ q \notin todo
          BY <1>0, <2>1, <4>1 DEF ReadToTheEnd
        <4>2. CASE q = p /\ q \notin done
          <5>1. NothingNew(p, o) /\ dir[p] # 0
            BY <2>9, <4>2 DEF Existing
          <5> QED BY <2>2, <2>8, <4>2, <5>1 DEF IsRead
        <4> QED BY <2>3, <4>1, <4>2
      <3>3. TargetIsChosen'
        BY <3>1 DEF TargetIsChosen
      <3> QED BY <1>2, <2>5, <2>7, <3>2, <3>3 DEF PassInv
    <2>10. CASE ~(p \in done \/ dir[p] = 0 \/ NothingNew(p, o))
      <3>1. /\ pc' = "open"
            /\ target' = [path |-> p, offset |-> StartOffset(p, o), id |-> Identify(p)]
        BY <2>3, <2>10
      <3>2. /\ target'.path = p /\ target'.offset = Consumed(p)
            /\ target'.id = Identify(p)
        BY <2>8, <2>10, <3>1
      <3>3. Identify(p)' = Identify(p)
        BY <1>1 DEF Identify, ContentOf
      <3>4. TargetIsChosen'
        BY <1>1, <2>2, <2>7, <2>10, <3>2, <3>3 DEF TargetIsChosen
      <3>5. ReadToTheEnd'
        BY <1>0, <1>1, <2>7, <3>1 DEF ReadToTheEnd, Existing
      <3> QED BY <1>2, <2>5, <2>7, <3>4, <3>5 DEF PassInv
    <2> QED BY <2>9, <2>10
  <1> QED BY <1>3, <1>4

\* The file chosen is opened at the first byte of it that was not read.
LEMMA OpenKeepsPass ==
  ASSUME PassInv, ReadInPasses, TypeInv', OpenTarget
  PROVE  PassInv'
  <1>0. /\ TypeInv /\ TypeOK /\ SessionShape /\ Undisturbed /\ ReadToTheEnd
        /\ Distinct(store.order) /\ TargetIsChosen /\ BytesAreNumbered /\ HeadsTellApart
        /\ BytesAreAccountedFor /\ OneNameEach /\ OutIsWritten /\ HeldIsNew
    BY DEF PassInv, TypeInv
  <1>1. PICK p \in Existing :
        /\ p = target.path /\ pc = "open" /\ p \in Paths /\ dir[p] # 0 /\ p # 0
        /\ target.offset = Consumed(p) /\ target.id = Identify(p)
        /\ p \notin done /\ cur.path = 0 /\ pending = <<>>
    BY <1>0, ZeroIsNothing DEF OpenTarget, TargetIsChosen, SessionShape, Existing
  <1>2. /\ pc' = "fill" /\ cur'.path = p /\ cur'.ino = dir[p]
        /\ cur'.pos = StartPosition(ContentOf(p), target.offset)
        /\ ids' = [ids EXCEPT ![p] = target.id]
        /\ UNCHANGED <<dir, disk, written, store, cancelled, done, pending, out>>
    BY <1>1 DEF OpenTarget, Remember, server
  <1> DEFINE c == disk[dir[p]]
  <1>3. ContentOf(p) = c /\ dir[p] \in Inodes /\ c \in Seq(Byte) /\ Len(c) \in Nat
    BY <1>0, <1>1, FileOf
  <1>4. Consumed(p) \in 0..Len(c)
    BY <1>1, ConsumedIsPlace
  <1>5. cur'.pos = Consumed(p)
    BY <1>1, <1>2, <1>3, <1>4 DEF StartPosition
  <1>6. ids'[p] = Identify(p) /\ \A q \in Paths : q # p => ids'[q] = ids[q]
    <2>1. ids \in [Paths -> Identities]
      BY <1>0 DEF TypeOK
    <2> QED BY <1>1, <1>2, <2>1
  <1>7. IdentityOf(Identify(p), dir[p]) /\ (c # <<>> => Identify(p).head # <<>>)
    BY <1>0, <1>1, <1>3, IdentifyIsIdentity, HeadOfContent
  <1> HIDE DEF c
  <1>8. \A q \in Paths : Consumed(q)' = Consumed(q)
    <2> SUFFICES ASSUME NEW q \in Paths PROVE Consumed(q)' = Consumed(q)
      OBVIOUS
    <2>1. CASE q = p
      BY <1>2, <1>5, <2>1 DEF Consumed
    <2>2. CASE q # p
      <3>1. Continues(q)' <=> Continues(q)
        BY <1>2, <1>6, <2>2 DEF Continues, IdentityOf
      <3>2. q # cur.path /\ q # cur'.path
        BY <1>1, <1>2, <2>2, ZeroIsNothing
      <3> QED BY <1>2, <3>1, <3>2 DEF Consumed
    <2> QED BY <2>1, <2>2
  <1>9. HeadsTellApart'
    <2>1. ASSUME NEW q \in Paths, ids'[q].head # <<>>
          PROVE  ids'[q].head[1].id \in 1..written
      <3>1. CASE q = p
        <4>1. Len(Identify(p).head) \in Nat /\ Identify(p).head # <<>>
              /\ Identify(p).head \in Seq(Byte)
          <5>1. Identify(p) \in Identities
            BY <1>0, <1>1, IdentifyTyped
          <5> QED BY <1>6, <2>1, <3>1, <5>1 DEF Identities
        <4>2. 1 \in 1..Len(Identify(p).head)
          BY <4>1
        <4>3. Identify(p).head[1] = c[1] /\ 1 \in 1..Len(c)
          BY <1>3, <1>7, <4>1, <4>2 DEF IdentityOf, c
        <4> QED BY <1>0, <1>3, <1>6, <3>1, <4>3 DEF BytesAreNumbered, c
      <3>2. CASE q # p
        BY <1>0, <1>6, <2>1, <3>2 DEF HeadsTellApart
      <3> QED BY <3>1, <3>2
    <2>2. ASSUME NEW q \in Paths, q # p, store.offset[q] > 0
          PROVE  /\ ids'[q].head # <<>>
                 /\ dir[q] # 0 => Continues(q)' \/ Replaced(q)'
      <3>1. q # cur.path
        BY <1>1, ZeroIsNothing
      <3>2. /\ Continues(q)' <=> Continues(q)
            /\ Replaced(q)' <=> Replaced(q)
        BY <1>2, <1>6, <2>2 DEF Continues, Replaced, IdentityOf
      <3> QED BY <1>0, <1>6, <2>2, <3>1, <3>2 DEF HeadsTellApart
    <2> QED BY <1>2, <2>1, <2>2 DEF HeadsTellApart
  <1>10. OpenFileIsItself'
    <2>1. Len(pending') = 0
      BY <1>1, <1>2
    <2>2. cur'.pos <= Len(c)
      BY <1>4, <1>5, <1>3
    <2>3. IdentityOf(ids[p], dir[p])'
      BY <1>2, <1>6, <1>7 DEF IdentityOf
    <2>4. IdentityOf(ids[cur.path], cur.ino)'
      BY <1>2, <2>3 DEF IdentityOf
    <2> QED BY <1>2, <1>6, <1>7, <2>1, <2>2, <2>4 DEF OpenFileIsItself, c
  <1>11. Delivered' = Delivered /\ Held' = Held /\ Existing' = Existing
    BY <1>2 DEF Delivered, Held, Existing
  <1>12. BytesAreAccountedFor'
    BY <1>0, <1>2, <1>8, <1>11 DEF BytesAreAccountedFor, Existing
  <1>13. ReadToTheEnd'
    <2>1. \A q \in Existing : q \in done => q # p /\ IsRead(q)'
      BY <1>0, <1>1, <1>2, <1>8 DEF ReadToTheEnd, IsRead, Existing
    <2> QED BY <1>2, <1>11, <2>1 DEF ReadToTheEnd
  <1>14. Undisturbed' /\ TargetIsChosen' /\ Distinct(store.order)'
    BY <1>0, <1>2 DEF Undisturbed, TargetIsChosen, Distinct
  <1>15. BytesAreNumbered' /\ OneNameEach' /\ OutIsWritten' /\ HeldIsNew'
    BY <1>0, <1>2, <1>11 DEF BytesAreNumbered, OneNameEach, OutIsWritten, HeldIsNew
  <1> QED BY <1>9, <1>10, <1>12, <1>13, <1>14, <1>15 DEF PassInv

(***************************************************************************)
(* Of a file that is open: its path names it, and its numbers ascend along *)
(* it and are those of no other file.                                      *)
(***************************************************************************)
LEMMA OpenFileOf ==
  ASSUME PassInv, cur.path # 0
  PROVE  /\ cur.path \in Existing /\ cur.path \in Paths /\ cur.ino \in Inodes
         /\ dir[cur.path] = cur.ino /\ Consumed(cur.path) = cur.pos
         /\ disk[cur.ino] \in Seq(Byte) /\ Len(disk[cur.ino]) \in Nat
         /\ cur.pos \in Nat /\ cur.pos <= Len(disk[cur.ino])
         /\ pending \in Seq(Byte) /\ Len(pending) \in Nat /\ Len(pending) <= cur.pos
         /\ \A i \in 1..Len(pending) :
              pending[i] = disk[cur.ino][(cur.pos - Len(pending)) + i]
  <1>1. TypeFacts /\ cur.path \in {0} \cup Paths
    BY TypeFactsHold DEF PassInv, TypeFacts
  <1>2. OpenFileIsItself
    BY DEF PassInv
  <1>3. cur.path \in Paths /\ cur.ino \in Inodes /\ cur.ino = dir[cur.path]
    BY <1>1, <1>2 DEF TypeFacts, OpenFileIsItself
  <1>4. 0 \notin Inodes
    BY ZeroIsNothing
  <1> QED BY <1>1, <1>2, <1>3, <1>4 DEF TypeFacts, OpenFileIsItself, Existing, Consumed

\* A delivery moves bytes from the held to the delivered, in order.
LEMMA DeliverKeepsPass ==
  ASSUME PassInv, ReadInPasses, TypeInv', NEW size \in BufSizes, Deliver(size)
  PROVE  PassInv'
  <1> DEFINE l == Len(pending)
  <1>0. /\ TypeInv /\ TypeOK /\ Undisturbed /\ ReadToTheEnd /\ StoreShape
        /\ Distinct(store.order) /\ BytesAreNumbered /\ HeadsTellApart
        /\ BytesAreAccountedFor /\ OneNameEach /\ OutIsWritten /\ HeldIsNew
    BY DEF PassInv, TypeInv
  <1>1. PICK n \in 1..l :
          /\ Len(pending') = l - n
          /\ \A i \in 1..(l - n) : pending'[i] = pending[n + i]
          /\ Delivered' = Delivered \cup {pending[i].id : i \in 1..n}
          /\ store' = IF cur.path = 0 THEN store
                      ELSE AfterSet(store, cur.path, cur.pos - (l - n))
    BY <1>0, DeliverOutput
  <1>2. /\ pc' = "idle"
        /\ UNCHANGED <<dir, disk, written, ids, cancelled, cur, done, todo, target>>
    BY DEF Deliver, server
  <1>3. l \in Nat /\ pending \in Seq(Byte) /\ TypeFacts
    BY <1>0, TypeFactsHold DEF TypeFacts
  <1>4. /\ Distinct(store'.order)
        /\ \A q \in Paths : q # cur.path => store'.offset[q] = store.offset[q]
    <2>1. CASE cur.path = 0
      BY <1>0, <1>1, <2>1
    <2>2. CASE cur.path # 0
      <3>1. cur.path \in Paths /\ cur.pos - (l - n) \in Nat
        <4>1. cur.path \in Paths /\ cur.pos \in Nat /\ l <= cur.pos
          BY <1>3, <2>2 DEF TypeFacts
        <4> HIDE DEF l
        <4> QED BY <1>3, <4>1
      <3>2. store.order \in Seq(Paths) /\ store.offset \in [Paths -> Nat]
        BY <1>0 DEF TypeOK
      <3>3. Cardinality(Paths) <= MaxTracked
        BY DEF ReadInPasses
      <3> DEFINE o == cur.pos - (l - n)
      <3>4. o \in Nat /\ store' = AfterSet(store, cur.path, o)
        BY <1>1, <2>2, <3>1
      <3> HIDE DEF o
      <3>5. Distinct(AfterSet(store, cur.path, o).order)
        BY <1>0, <3>1, <3>2, <3>3, <3>4, SetKeepsTheOthers
      <3>6. AfterSet(store, cur.path, o).offset = [store.offset EXCEPT ![cur.path] = o]
        BY <1>0, <3>1, <3>2, <3>3, <3>4, SetKeepsTheOthers
      <3> QED BY <3>2, <3>4, <3>5, <3>6
    <2> QED BY <2>1, <2>2
  <1> HIDE DEF l
  <1>5. \A q \in Paths : /\ Consumed(q)' = Consumed(q)
                         /\ IsRead(q)' <=> IsRead(q)
                         /\ q # cur.path => /\ Continues(q)' <=> Continues(q)
                                            /\ Replaced(q)' <=> Replaced(q)
    BY <1>2, <1>4 DEF Consumed, Continues, Replaced, IdentityOf, IsRead
  <1>6. Existing' = Existing
    BY <1>2 DEF Existing
  <1>7. /\ Held = {pending[i].id : i \in 1..n} \cup Held'
        /\ Held' = {pending[i].id : i \in (n + 1)..l}
    <2>1. Held = {pending[i].id : i \in 1..l}
      BY DEF Held, l
    <2>2. Held' = {pending'[i].id : i \in 1..(l - n)}
      BY <1>1 DEF Held
    <2>3. Held' = {pending[n + i].id : i \in 1..(l - n)}
      BY <1>1, <2>2
    <2>4. ASSUME NEW i \in (n + 1)..l PROVE i - n \in 1..(l - n) /\ n + (i - n) = i
      BY <1>3
    <2>5. ASSUME NEW i \in 1..(l - n) PROVE n + i \in (n + 1)..l
      BY <1>3
    <2>6. Held' = {pending[i].id : i \in (n + 1)..l}
      BY <2>3, <2>4, <2>5
    <2>7. 1..l = 1..n \cup (n + 1)..l
      BY <1>3
    <2> QED BY <2>1, <2>6, <2>7
  <1>8. Delivered' \cup Held' = Delivered \cup Held
    BY <1>1, <1>7
  <1>9. BytesAreAccountedFor'
    <2> SUFFICES ASSUME NEW p \in Existing, NEW i \in 1..Len(disk[dir[p]])
                 PROVE  /\ i <= Consumed(p) <=> disk[dir[p]][i].id \in Delivered' \cup Held'
                        /\ disk[dir[p]][i].id \in Held' =>
                             \A j \in i..Consumed(p) : disk[dir[p]][j].id \in Held'
      BY <1>2, <1>5, <1>6 DEF BytesAreAccountedFor, Existing
    <2>1. /\ i <= Consumed(p) <=> disk[dir[p]][i].id \in Delivered' \cup Held'
          /\ disk[dir[p]][i].id \in Held =>
               \A j \in i..Consumed(p) : disk[dir[p]][j].id \in Held
      BY <1>0, <1>8 DEF BytesAreAccountedFor
    <2>2. ASSUME disk[dir[p]][i].id \in Held', NEW j \in i..Consumed(p)
          PROVE  disk[dir[p]][j].id \in Held'
      <3>1. PICK a \in (n + 1)..l : disk[dir[p]][i].id = pending[a].id
        BY <1>7, <2>2
      <3>2. disk[dir[p]][j].id \in Held
        BY <1>7, <2>1, <2>2
      <3>3. PICK b \in 1..l : disk[dir[p]][j].id = pending[b].id
        BY <3>2 DEF Held, l
      <3>4. /\ dir[p] \in Inodes /\ Len(disk[dir[p]]) \in Nat
            /\ Consumed(p) \in 0..Len(disk[dir[p]])
        BY <1>0, FileOf, ConsumedIsPlace
      <3>5. i \in Nat /\ j \in 1..Len(disk[dir[p]]) /\ i <= j
        BY <3>4
      <3>6. disk[dir[p]][i].id <= disk[dir[p]][j].id
        <4>1. /\ disk[dir[p]][i].id \in 1..written
              /\ i < j => disk[dir[p]][i].id < disk[dir[p]][j].id
          BY <1>0, <3>4, <3>5 DEF BytesAreNumbered
        <4>2. disk[dir[p]][j].id \in 1..written
          BY <1>0, <3>4, <3>5 DEF BytesAreNumbered
        <4>3. CASE i < j
          BY <4>1, <4>2, <4>3
        <4>4. CASE i = j
          BY <4>1, <4>4
        <4> QED BY <3>5, <4>3, <4>4
      <3>7. /\ a \in 1..l /\ pending[a].id \in 1..written /\ pending[b].id \in 1..written
            /\ b < a => pending[b].id < pending[a].id
        <4>1. a \in 1..l
          BY <1>3
        <4> QED BY <1>0, <4>1 DEF HeldIsNew, l
      <3>8. b \in (n + 1)..l
        BY <1>3, <3>1, <3>3, <3>6, <3>7
      <3> QED BY <1>7, <3>3, <3>8
    <2> QED BY <2>1, <2>2
  <1>10. OpenFileIsItself'
    <2>1. CASE cur.path = 0
      BY <1>2, <2>1 DEF OpenFileIsItself
    <2>2. CASE cur.path # 0
      <3>1. /\ l <= cur.pos /\ cur.pos \in Nat
            /\ \A i \in 1..l : pending[i] = disk[cur.ino][(cur.pos - l) + i]
        BY <2>2, OpenFileOf DEF l
      <3>2. ASSUME NEW i \in 1..(l - n)
            PROVE  pending'[i] = disk[cur.ino][(cur.pos - (l - n)) + i]
        <4>1. n + i \in 1..l /\ (cur.pos - l) + (n + i) = (cur.pos - (l - n)) + i
          BY <1>3, <3>1
        <4> QED BY <1>1, <3>1, <4>1
      <3>3. IdentityOf(ids[cur.path], cur.ino)' <=> IdentityOf(ids[cur.path], cur.ino)
        BY <1>2 DEF IdentityOf
      <3> QED BY <1>1, <1>2, <3>2, <3>3 DEF PassInv, OpenFileIsItself
    <2> QED BY <2>1, <2>2
  <1>11. OutIsWritten' /\ HeldIsNew'
    BY <1>0, DeliverKeepsNew
  <1>12. HeadsTellApart' /\ BytesAreNumbered' /\ OneNameEach'
    BY <1>0, <1>2, <1>4, <1>5 DEF HeadsTellApart, BytesAreNumbered, OneNameEach
  <1>13. Undisturbed' /\ TargetIsChosen'
    BY <1>0, <1>2 DEF Undisturbed, TargetIsChosen
  <1>14. ReadToTheEnd'
    BY <1>0, <1>2, <1>5, <1>6 DEF ReadToTheEnd, Existing
  <1> QED BY <1>4, <1>9, <1>10, <1>11, <1>12, <1>13, <1>14 DEF PassInv

(***************************************************************************)
(* A file that is closed has been read to its end, and the offset stored   *)
(* for it says so, with the head beside it that was taken when it was      *)
(* opened.                                                                 *)
(***************************************************************************)
LEMMA CloseKeepsPass ==
  ASSUME PassInv, ReadInPasses, TypeInv', CloseCurrent, pc' = "loop",
         cur.path # 0, cur.pos = Len(disk[cur.ino]),
         UNCHANGED <<dir, disk, written, ids, cancelled, pending, out>>
  PROVE  PassInv'
  <1>0. /\ TypeInv /\ TypeOK /\ Undisturbed /\ ReadToTheEnd /\ StoreShape
        /\ Distinct(store.order) /\ BytesAreNumbered /\ HeadsTellApart
        /\ BytesAreAccountedFor /\ OneNameEach /\ OutIsWritten /\ HeldIsNew
        /\ OpenFileIsItself
    BY DEF PassInv, TypeInv
  <1>1. PICK c \in Paths : c = cur.path
    BY OpenFileOf
  <1>2. /\ c \in Existing /\ cur.ino \in Inodes /\ dir[c] = cur.ino
        /\ cur.pos \in Nat /\ disk[cur.ino] \in Seq(Byte) /\ Consumed(c) = cur.pos
        /\ c # 0 /\ IdentityOf(ids[c], dir[c])
        /\ disk[dir[c]] # <<>> => ids[c].head # <<>>
    BY <1>0, <1>1, OpenFileOf DEF OpenFileIsItself
  <1>3. /\ store' = AfterSet(store, c, cur.pos) /\ done' = done \cup {c}
        /\ cur'.path = 0
    BY <1>1 DEF CloseCurrent, OffsetAtClose, NoFile
  <1>4. Distinct(store'.order) /\ store'.offset = [store.offset EXCEPT ![c] = cur.pos]
    <2>1. /\ store.order \in Seq(Paths) /\ store.offset \in [Paths -> Nat]
          /\ Cardinality(Paths) <= MaxTracked
      BY <1>0 DEF TypeOK, ReadInPasses
    <2>2. Distinct(AfterSet(store, c, cur.pos).order)
      BY <1>0, <1>2, <2>1, SetKeepsTheOthers
    <2>3. AfterSet(store, c, cur.pos).offset = [store.offset EXCEPT ![c] = cur.pos]
      BY <1>0, <1>2, <2>1, SetKeepsTheOthers
    <2> QED BY <1>3, <2>2, <2>3
  <1>5. /\ store'.offset[c] = cur.pos
        /\ \A q \in Paths : q # c => store'.offset[q] = store.offset[q]
    BY <1>0, <1>4 DEF TypeOK
  <1>6. Continues(c)'
    <2>1. IdentityOf(ids[c], dir[c])'
      BY <1>2 DEF IdentityOf
    <2> QED BY <1>2, <1>5, <2>1 DEF Continues
  <1>7. \A q \in Paths : Consumed(q)' = Consumed(q)
    <2>1. Consumed(c)' = Consumed(c)
      BY <1>2, <1>3, <1>5, <1>6 DEF Consumed
    <2>2. ASSUME NEW q \in Paths, q # c PROVE Consumed(q)' = Consumed(q)
      <3>1. q # cur.path /\ q # cur'.path
        BY <1>1, <1>3, <2>2, ZeroIsNothing
      <3>2. Continues(q)' <=> Continues(q)
        BY <1>5, <2>2 DEF Continues, IdentityOf
      <3> QED BY <1>5, <2>2, <3>1, <3>2 DEF Consumed
    <2> QED BY <2>1, <2>2
  <1>8. Existing' = Existing /\ Delivered' = Delivered /\ Held' = Held
    BY DEF Existing, Delivered, Held
  <1>9. HeadsTellApart'
    <2>1. ASSUME NEW q \in Paths, store'.offset[q] > 0
          PROVE  /\ ids[q].head # <<>>
                 /\ dir[q] # 0 => Continues(q)' \/ Replaced(q)'
      <3>1. CASE q = c
        <4>1. disk[dir[c]] # <<>>
          BY <1>2, <1>5, <2>1, <3>1
        <4> QED BY <1>2, <1>6, <3>1, <4>1
      <3>2. CASE q # c
        <4>1. /\ Continues(q)' <=> Continues(q)
              /\ Replaced(q)' <=> Replaced(q)
          BY <1>5, <3>2 DEF Continues, Replaced, IdentityOf
        <4> QED BY <1>0, <1>1, <1>5, <2>1, <3>2, <4>1 DEF HeadsTellApart
      <3> QED BY <3>1, <3>2
    <2> QED BY <1>0, <2>1 DEF HeadsTellApart
  <1>10. BytesAreAccountedFor'
    BY <1>0, <1>7, <1>8 DEF BytesAreAccountedFor, Existing
  <1>11. ReadToTheEnd'
    <2>1. IsRead(c)'
      BY <1>2, <1>3, <1>7 DEF IsRead
    <2>2. ASSUME NEW q \in Existing, q \in done PROVE IsRead(q)'
      <3>1. IsRead(q) /\ q \in Paths /\ q # 0
        BY <1>0, <2>2, ZeroIsNothing DEF ReadToTheEnd, Existing
      <3> QED BY <1>3, <1>7, <3>1 DEF IsRead
    <2> QED BY <1>3, <1>8, <2>1, <2>2 DEF ReadToTheEnd
  <1>12. OpenFileIsItself' /\ Undisturbed' /\ TargetIsChosen'
    BY <1>0, <1>3 DEF OpenFileIsItself, Undisturbed, TargetIsChosen
  <1>13. BytesAreNumbered' /\ OneNameEach' /\ OutIsWritten' /\ HeldIsNew'
    BY <1>0, <1>8 DEF BytesAreNumbered, OneNameEach, OutIsWritten, HeldIsNew
  <1> QED BY <1>4, <1>9, <1>10, <1>11, <1>12, <1>13 DEF PassInv

\* At the end of a file it is closed, or kept open and polled.
LEMMA EndKeepsPass ==
  ASSUME PassInv, ReadInPasses, TypeInv', FillEnd \/ AtEndOfFile
  PROVE  PassInv'
  <1>0. /\ TypeInv /\ SessionShape /\ Undisturbed /\ ReadToTheEnd
        /\ Distinct(store.order) /\ OpenFileIsItself
    BY DEF PassInv, TypeInv
  <1>1. UNCHANGED <<dir, disk, written, ids, cancelled, pending, out>>
    BY DEF FillEnd, AtEndOfFile, server
  <1>2. cur.path # 0
    BY <1>0 DEF FillEnd, AtEndOfFile, Filling, SessionShape
  <1>3. cur.pos = Len(disk[cur.ino])
    <2>1. CASE FillEnd
      <3>1. cur.pos >= Len(disk[cur.ino])
        BY <2>1 DEF FillEnd
      <3> QED BY <1>2, <3>1, OpenFileOf
    <2>2. CASE AtEndOfFile
      BY <1>0, <1>2, <2>2 DEF AtEndOfFile, OpenFileIsItself
    <2> QED BY <2>1, <2>2
  <1>4. CASE CloseCurrent /\ pc' = "loop"
    BY <1>1, <1>2, <1>3, <1>4, CloseKeepsPass
  <1>5. CASE UNCHANGED <<store, done, flush, cur>> /\ pc' \in {"eof", "loop"}
    <2>1. Distinct(store.order)' /\ store'.offset = store.offset /\ cur'.path = cur.path
      BY <1>0, <1>5 DEF Distinct
    <2>2. /\ BytesAreNumbered' /\ OneNameEach' /\ OutIsWritten' /\ HeldIsNew'
          /\ HeadsTellApart' /\ BytesAreAccountedFor'
          /\ \A p \in Paths : IsRead(p)' <=> IsRead(p)
          /\ Existing' = Existing
      BY <1>1, <1>5, <2>1, NothingMoves
    <2>3. OpenFileIsItself'
      BY <1>0, <1>1, <1>3, <1>5 DEF OpenFileIsItself, IdentityOf
    <2>4. Undisturbed' /\ TargetIsChosen'
      BY <1>0, <1>1, <1>5 DEF Undisturbed, TargetIsChosen
    <2>5. ReadToTheEnd'
      BY <1>0, <1>5, <2>2 DEF ReadToTheEnd, Existing
    <2> QED BY <2>1, <2>2, <2>3, <2>4, <2>5 DEF PassInv
  <1>6. \/ CloseCurrent /\ pc' = "loop"
        \/ UNCHANGED <<store, done, flush, cur>> /\ pc' \in {"eof", "loop"}
    BY DEF FillEnd, AtEndOfFile
  <1> QED BY <1>4, <1>5, <1>6

(***************************************************************************)
(* A block that is read lies beyond everything delivered or held, so it is *)
(* new, and the file it lies in is told from the others by its numbers.    *)
(***************************************************************************)
LEMMA FillKeepsPass ==
  ASSUME PassInv, ReadInPasses, TypeInv', FillBlock
  PROVE  PassInv'
  <1> DEFINE f == disk[cur.ino]
             l == Len(pending)
             n == MinOf(ReadSize, Len(f) - cur.pos)
             x == cur.pos
  <1>0. /\ TypeInv /\ TypeOK /\ Undisturbed /\ ReadToTheEnd
        /\ Distinct(store.order) /\ BytesAreNumbered /\ HeadsTellApart
        /\ BytesAreAccountedFor /\ OneNameEach /\ OutIsWritten /\ HeldIsNew
        /\ OpenFileIsItself
    BY DEF PassInv, TypeInv
  <1>1. /\ cur.path # 0 /\ Len(f) \in Nat /\ n \in 1..(Len(f) - x)
        /\ cur' = [cur EXCEPT !.pos = @ + n]
        /\ Len(pending') = l + n
        /\ \A i \in 1..l : pending'[i] = pending[i]
        /\ \A i \in 1..n : pending'[l + i] = f[x + i]
    BY <1>0, FillLengths
  <1> HIDE DEF n
  <1>2. /\ cur.path \in Existing /\ cur.path \in Paths /\ cur.ino \in Inodes
        /\ dir[cur.path] = cur.ino /\ Consumed(cur.path) = x
        /\ x \in Nat /\ l \in Nat /\ l <= x
        /\ \A i \in 1..l : pending[i] = f[(x - l) + i]
    BY <1>1, OpenFileOf
  <1>3. /\ cur'.path = cur.path /\ cur'.ino = cur.ino /\ cur'.pos = x + n
    BY <1>0, <1>1 DEF TypeOK
  <1>4. /\ pc' = "loop"
        /\ UNCHANGED <<dir, disk, written, store, ids, cancelled, done, out>>
    BY DEF FillBlock, server, fileSet
  <1>5. /\ \A i \in 1..Len(f) : f[i].id \in 1..written
        /\ \A i, j \in 1..Len(f) : i < j => f[i].id < f[j].id
    BY <1>0, <1>2 DEF BytesAreNumbered
  <1>6. \A i \in 1..Len(f) :
          /\ i <= x <=> f[i].id \in Delivered \cup Held
          /\ f[i].id \in Held => \A j \in i..x : f[j].id \in Held
    BY <1>0, <1>2 DEF BytesAreAccountedFor
  <1>7. n \in Nat /\ n >= 1 /\ x + n <= Len(f)
    BY <1>1, <1>2
  <1> HIDE DEF f, l, x
  <1>8. \A i \in 1..(l + n) : /\ pending'[i] = f[(x - l) + i]
                              /\ (x - l) + i \in 1..Len(f)
    <2> SUFFICES ASSUME NEW i \in 1..(l + n)
                 PROVE  pending'[i] = f[(x - l) + i] /\ (x - l) + i \in 1..Len(f)
      OBVIOUS
    <2>1. (x - l) + i \in 1..Len(f)
      BY <1>1, <1>2, <1>7
    <2>2. CASE i <= l
      <3>1. i \in 1..l
        BY <1>2, <2>2
      <3> QED BY <1>1, <1>2, <2>1, <3>1
    <2>3. CASE i > l
      <3>1. i - l \in 1..n /\ l + (i - l) = i /\ x + (i - l) = (x - l) + i
        BY <1>2, <1>7, <2>3
      <3>2. pending'[l + (i - l)] = f[x + (i - l)]
        BY <1>1, <3>1
      <3> QED BY <2>1, <3>1, <3>2
    <2> QED BY <1>2, <2>2, <2>3
  <1> DEFINE New == {f[x + i].id : i \in 1..n}
  <1>9. Held' = Held \cup New /\ Delivered' = Delivered /\ Existing' = Existing
    <2>1. Held' = {pending'[i].id : i \in 1..(l + n)}
      BY <1>1 DEF Held
    <2>2. ASSUME NEW i \in 1..(l + n) PROVE pending'[i].id \in Held \cup New
      <3>1. CASE i <= l
        <4>1. i \in 1..l
          BY <1>2, <3>1
        <4>2. pending'[i].id = pending[i].id
          BY <1>1, <4>1
        <4> QED BY <4>1, <4>2 DEF Held, l
      <3>2. CASE i > l
        <4>1. i - l \in 1..n /\ l + (i - l) = i
          BY <1>2, <1>7, <3>2
        <4>2. pending'[i] = f[x + (i - l)]
          BY <1>1, <4>1
        <4> QED BY <4>1, <4>2
      <3> QED BY <1>2, <3>1, <3>2
    <2>3. ASSUME NEW i \in 1..l PROVE pending[i].id \in Held'
      <3>1. i \in 1..(l + n)
        BY <1>2, <1>7
      <3> QED BY <1>1, <2>1, <3>1
    <2>4. ASSUME NEW i \in 1..n PROVE f[x + i].id \in Held'
      <3>1. l + i \in 1..(l + n)
        BY <1>2, <1>7
      <3> QED BY <1>1, <2>1, <3>1
    <2>5. Held = {pending[i].id : i \in 1..l}
      BY DEF Held, l
    <2>6. Delivered' = Delivered /\ Existing' = Existing
      BY <1>4 DEF Delivered, Existing
    <2> QED BY <2>1, <2>2, <2>3, <2>4, <2>5, <2>6
  <1>10. \A i \in 1..Len(f) : f[i].id \in New <=> i \in (x + 1)..(x + n)
    <2>1. ASSUME NEW i \in 1..Len(f), f[i].id \in New PROVE i \in (x + 1)..(x + n)
      <3>1. PICK k \in 1..n : f[i].id = f[x + k].id
        BY <2>1
      <3>2. x + k \in 1..Len(f) /\ x + k \in (x + 1)..(x + n)
        BY <1>1, <1>2, <1>7
      <3>3. f[i].id \in Nat /\ f[x + k].id \in Nat
        BY <1>5, <3>2
      <3>4. i = x + k
        <4>1. i < x + k => f[i].id < f[x + k].id
          BY <1>5, <3>2
        <4>2. x + k < i => f[x + k].id < f[i].id
          BY <1>5, <3>2
        <4> QED BY <1>1, <3>1, <3>2, <3>3, <4>1, <4>2
      <3> QED BY <3>2, <3>4
    <2>2. ASSUME NEW i \in (x + 1)..(x + n) PROVE f[i].id \in New
      <3>1. i - x \in 1..n /\ x + (i - x) = i
        BY <1>2, <1>7
      <3> QED BY <3>1
    <2> QED BY <2>1, <2>2
  <1>11. \A p \in Existing : p # cur.path =>
           \A i \in 1..Len(disk[dir[p]]) : disk[dir[p]][i].id \notin New
    <2> SUFFICES ASSUME NEW p \in Existing, p # cur.path,
                        NEW i \in 1..Len(disk[dir[p]]), NEW k \in 1..n,
                        disk[dir[p]][i].id = f[x + k].id
                 PROVE  FALSE
      OBVIOUS
    <2>1. dir[p] \in Inodes /\ p \in Paths /\ dir[p] # 0
      BY <1>0, FileOf
    <2>2. x + k \in 1..Len(f)
      BY <1>1, <1>2, <1>7
    <2>3. dir[p] = cur.ino
      BY <1>0, <1>2, <2>1, <2>2, OnePlaceEach DEF f
    <2> QED BY <1>0, <1>2, <2>1, <2>3 DEF OneNameEach
  <1>12. /\ Consumed(cur.path)' = x + n
         /\ \A p \in Paths : p # cur.path =>
              /\ Consumed(p)' = Consumed(p)
              /\ Continues(p)' <=> Continues(p)
              /\ Replaced(p)' <=> Replaced(p)
              /\ IsRead(p)' <=> IsRead(p)
    <2>1. \A p \in Paths : Consumed(p)' = IF p = cur'.path THEN cur'.pos
                                          ELSE IF Continues(p)' THEN store.offset[p] ELSE 0
      BY <1>4 DEF Consumed
    <2>2. cur.path' = cur.path
      BY <1>3
    <2>3. Consumed(cur.path)' = x + n
      BY <1>2, <1>3, <1>4, <2>2 DEF Consumed
    <2>4. \A p \in Paths : /\ Continues(p)' <=> Continues(p)
                           /\ Replaced(p)' <=> Replaced(p)
      BY <1>4 DEF Continues, Replaced, IdentityOf
    <2>5. \A p \in Paths : p # cur.path => Consumed(p)' = Consumed(p)
      BY <1>3, <1>4, <2>1, <2>4 DEF Consumed
    <2> QED BY <1>3, <1>4, <2>3, <2>4, <2>5 DEF IsRead
  <1>13. BytesAreAccountedFor'
    <2> SUFFICES ASSUME NEW p \in Existing, NEW i \in 1..Len(disk[dir[p]])
                 PROVE  /\ i <= Consumed(p)' <=> disk[dir[p]][i].id \in Delivered \cup Held'
                        /\ disk[dir[p]][i].id \in Held' =>
                             \A j \in i..Consumed(p)' : disk[dir[p]][j].id \in Held'
      BY <1>4, <1>9 DEF BytesAreAccountedFor, Existing
    <2>1. CASE p # cur.path
      <3>1. /\ i <= Consumed(p) <=> disk[dir[p]][i].id \in Delivered \cup Held
            /\ disk[dir[p]][i].id \in Held =>
                 \A j \in i..Consumed(p) : disk[dir[p]][j].id \in Held
        BY <1>0 DEF BytesAreAccountedFor
      <3>2. disk[dir[p]][i].id \notin New
        BY <1>11, <2>1
      <3>3. Consumed(p)' = Consumed(p)
        BY <1>12, <2>1 DEF Existing
      <3> HIDE DEF New
      <3> QED BY <1>9, <3>1, <3>2, <3>3
    <2>2. CASE p = cur.path
      <3>1. disk[dir[p]] = f /\ Consumed(p)' = x + n
        BY <1>2, <1>4, <1>3, <1>12, <2>2 DEF f, Consumed
      <3>2. i \in 1..Len(f)
        BY <3>1
      <3>3. /\ i <= x <=> f[i].id \in Delivered \cup Held
            /\ f[i].id \in Held => \A j \in i..x : f[j].id \in Held
            /\ f[i].id \in New <=> i \in (x + 1)..(x + n)
        BY <1>6, <1>10, <3>2
      <3>4. \A j \in (x + 1)..(x + n) : f[j].id \in New
        <4>1. \A j \in (x + 1)..(x + n) : j \in 1..Len(f)
          BY <1>1, <1>2, <1>7
        <4> QED BY <1>10, <4>1
      <3> HIDE DEF New
      <3>5. i <= x + n <=> f[i].id \in Delivered \cup Held'
        BY <1>2, <1>7, <1>9, <3>2, <3>3
      <3>6. ASSUME f[i].id \in Held', NEW j \in i..(x + n) PROVE f[j].id \in Held'
        <4>1. CASE j <= x
          <5>1. i <= x
            BY <1>2, <3>2, <4>1
          <5>2. ~(i \in (x + 1)..(x + n))
            BY <1>2, <3>2, <5>1
          <5>3. f[i].id \in Held
            BY <1>9, <3>3, <3>6, <5>2
          <5>4. j \in i..x
            BY <1>2, <3>2, <4>1
          <5> QED BY <1>9, <3>3, <5>3, <5>4
        <4>2. CASE j > x
          <5>1. j \in (x + 1)..(x + n)
            BY <1>2, <1>7, <3>2, <4>2
          <5> QED BY <1>9, <3>4, <5>1
        <4> QED BY <1>2, <3>2, <4>1, <4>2
      <3> QED BY <3>1, <3>5, <3>6
    <2> QED BY <2>1, <2>2
  <1>14. HeldIsNew'
    <2>1. ASSUME NEW i \in 1..(l + n)
          PROVE  pending'[i].id \in 1..written /\ pending'[i].id \notin Delivered
      <3>1. /\ pending'[i] = f[(x - l) + i] /\ (x - l) + i \in 1..Len(f)
        BY <1>8
      <3>2. pending'[i].id \in 1..written
        BY <1>5, <3>1
      <3>3. CASE i <= l
        <4>1. i \in 1..l
          BY <1>2, <3>3
        <4> QED BY <1>0, <1>1, <3>2, <4>1 DEF HeldIsNew, l
      <3>4. CASE i > l
        <4>1. ~((x - l) + i <= x)
          BY <1>2, <1>7, <3>4
        <4> QED BY <1>6, <3>1, <3>2, <4>1
      <3> QED BY <1>2, <3>3, <3>4
    <2>2. ASSUME NEW i \in 1..(l + n), NEW j \in 1..(l + n), i < j
          PROVE  pending'[i].id < pending'[j].id
      <3>1. /\ pending'[i] = f[(x - l) + i] /\ (x - l) + i \in 1..Len(f)
            /\ pending'[j] = f[(x - l) + j] /\ (x - l) + j \in 1..Len(f)
        BY <1>8
      <3>2. (x - l) + i < (x - l) + j
        BY <1>2, <2>2
      <3> QED BY <1>5, <3>1, <3>2
    <2> QED BY <1>1, <1>4, <1>9, <2>1, <2>2 DEF HeldIsNew
  <1>15. OpenFileIsItself'
    <2>1. ASSUME NEW i \in 1..(l + n)
          PROVE  pending'[i] = f[((x + n) - (l + n)) + i]
      <3>1. ((x + n) - (l + n)) + i = (x - l) + i
        BY <1>2, <1>7
      <3> QED BY <1>8, <3>1
    <2>2. IdentityOf(ids[cur.path], cur.ino)'
      BY <1>0, <1>1, <1>3, <1>4 DEF OpenFileIsItself, IdentityOf
    <2>3. disk[cur.ino] # <<>> => ids[cur.path].head # <<>>
      BY <1>0, <1>1 DEF OpenFileIsItself
    <2>4. disk'[cur'.ino] = f
      BY <1>3, <1>4 DEF f
    <2> QED BY <1>1, <1>2, <1>3, <1>4, <1>7, <2>1, <2>2, <2>3, <2>4 DEF OpenFileIsItself, f
  <1>16. HeadsTellApart'
    BY <1>0, <1>3, <1>4, <1>12 DEF HeadsTellApart
  <1>17. /\ BytesAreNumbered' /\ OneNameEach' /\ OutIsWritten'
         /\ Undisturbed' /\ TargetIsChosen' /\ Distinct(store.order)'
    BY <1>0, <1>4 DEF BytesAreNumbered, OneNameEach, OutIsWritten, Undisturbed,
                      TargetIsChosen, Distinct
  <1>18. ReadToTheEnd'
    <2>1. ASSUME NEW p \in Existing, p \in done PROVE IsRead(p)'
      <3>1. IsRead(p) /\ p \in Paths
        BY <1>0, <2>1 DEF ReadToTheEnd, Existing
      <3>2. p # cur.path
        BY <3>1 DEF IsRead
      <3> QED BY <1>12, <3>1, <3>2
    <2> QED BY <1>4, <1>9, <2>1 DEF ReadToTheEnd
  <1> QED BY <1>13, <1>14, <1>15, <1>16, <1>17, <1>18 DEF PassInv

LEMMA PassInvHolds ==
  ASSUME ReadInPasses
  PROVE  Spec => []PassInv
  <1>1. ASSUME Init, TypeInv PROVE PassInv
    <2>1. pending = <<>> /\ out = <<>> /\ cur.path = 0 /\ pc = "none" /\ done = {}
          /\ store.order = <<>> /\ ~cancelled /\ written = 0
      BY <1>1 DEF Init, NoFile, EmptyStore
    <2>2. Len(pending) = 0 /\ Len(out) = 0 /\ Len(store.order) = 0
      BY <2>1
    <2>3. \A i \in Inodes : disk[i] = <<>> /\ Len(disk[i]) = 0
      BY <1>1 DEF Init
    <2>4. \A p \in Paths : dir[p] # 0 => p = 1 /\ dir[p] \in Inodes
      BY <1>1, FileSetAssumption DEF Init, Inodes
    <2>5. \A p \in Paths : ids[p].head = <<>> /\ store.offset[p] = 0
      BY <1>1 DEF Init, NoId, EmptyStore
    <2>6. BytesAreNumbered /\ OneNameEach /\ Distinct(store.order) /\ OutIsWritten /\ HeldIsNew
      BY <2>2, <2>3, <2>4 DEF BytesAreNumbered, OneNameEach, Distinct, OutIsWritten, HeldIsNew
    <2>7. Undisturbed /\ OpenFileIsItself /\ TargetIsChosen /\ HeadsTellApart
      BY <2>1, <2>5 DEF Undisturbed, OpenFileIsItself, TargetIsChosen, HeadsTellApart
    <2>8. BytesAreAccountedFor
      <3>1. \A p \in Existing : Len(disk[dir[p]]) = 0
        BY <2>3, <2>4 DEF Existing
      <3> QED BY <3>1 DEF BytesAreAccountedFor
    <2>9. ReadToTheEnd
      BY <2>1 DEF ReadToTheEnd
    <2> QED BY <1>1, <2>6, <2>7, <2>8, <2>9 DEF PassInv
  <1>2. ASSUME PassInv, [Next]_vars, TypeInv' PROVE PassInv'
    <2>1. CASE UNCHANGED vars
      <3>1. /\ UNCHANGED <<dir, disk, written, ids, store, pending, out, cur, pc, done,
                           todo, target, cancelled>>
        BY <2>1 DEF vars, server, fileSet, reader
      <3>2. Distinct(store.order)'
        BY <1>2, <3>1 DEF PassInv, Distinct
      <3>3. /\ BytesAreNumbered' /\ OneNameEach' /\ OutIsWritten' /\ HeldIsNew'
            /\ HeadsTellApart' /\ BytesAreAccountedFor'
            /\ \A p \in Paths : Consumed(p)' = Consumed(p) /\ (IsRead(p)' <=> IsRead(p))
            /\ Existing' = Existing
        BY <1>2, <3>1, <3>2, NothingMoves
      <3>4. OpenFileIsItself' /\ Undisturbed' /\ ReadToTheEnd'
        BY <1>2, <3>1, <3>3 DEF PassInv, OpenFileIsItself, IdentityOf, Undisturbed,
                                ReadToTheEnd, Existing
      <3>5. TargetIsChosen'
        <4>1. ASSUME pc = "open" PROVE target.path \in Paths
          BY <1>2, <4>1, TypeFactsHold DEF PassInv, TypeFacts
        <4>2. Identify(target.path)' = Identify(target.path)
          BY <3>1 DEF Identify, ContentOf
        <4>3. ASSUME pc = "open" PROVE Consumed(target.path)' = Consumed(target.path)
          BY <3>1, <3>3, <4>1, <4>3
        <4> QED BY <1>2, <3>1, <4>2, <4>3 DEF PassInv, TargetIsChosen
      <3> QED BY <1>2, <3>2, <3>3, <3>4, <3>5 DEF PassInv
    <2>2. CASE Server
      BY <1>2, <2>2, ServerKeepsPass
    <2>3. CASE Open \/ ReadCall \/ Cancel \/ ReadCancelled \/ Close \/ Restart
      BY <1>2, <2>3, SessionKeepsPass
    <2>4. CASE StartScan \/ ScanPath \/ ScanEnd
      BY <1>2, <2>4, ScanKeepsPass
    <2>5. CASE OpenTarget
      BY <1>2, <2>5, OpenKeepsPass
    <2>6. CASE \E size \in BufSizes : Deliver(size)
      BY <1>2, <2>6, DeliverKeepsPass
    <2>7. CASE FillBlock
      BY <1>2, <2>7, FillKeepsPass
    <2>8. CASE FillEnd \/ AtEndOfFile
      BY <1>2, <2>8, EndKeepsPass
    <2> QED BY <1>2, <2>1, <2>2, <2>3, <2>4, <2>5, <2>6, <2>7, <2>8 DEF Next, ReadStep
  <1> QED BY <1>1, <1>2, TypeInvHolds, PTL DEF Spec

(***************************************************************************)
(* A pass is complete (COR-007): when it has ended, everything in the      *)
(* directory has been delivered, whatever the server and its housekeeping  *)
(* did to the files between the passes -- for any number of files and      *)
(* bytes, and any block, buffer and head size.                             *)
(***************************************************************************)
THEOREM PassDeliversAll ==
  ASSUME ReadInPasses
  PROVE  Spec => []PassIsComplete
  <1>1. ASSUME PassInv PROVE PassIsComplete
    <2> SUFFICES ASSUME pc = "ended", NEW p \in Existing, NEW i \in 1..Len(ContentOf(p))
                 PROVE  ContentOf(p)[i].id \in Delivered
      BY DEF PassIsComplete
    <2>1. Held = {}
      <3>1. Len(pending) = 0
        BY <1>1 DEF PassInv, Undisturbed
      <3> QED BY <3>1 DEF Held
    <2>2. ContentOf(p) = disk[dir[p]] /\ Len(disk[dir[p]]) \in Nat
      BY <1>1, FileOf DEF PassInv
    <2>3. Consumed(p) = Len(disk[dir[p]])
      BY <1>1 DEF PassInv, ReadToTheEnd, IsRead
    <2>4. i <= Consumed(p) => disk[dir[p]][i].id \in Delivered \cup Held
      BY <1>1, <2>2 DEF PassInv, BytesAreAccountedFor
    <2> QED BY <2>1, <2>2, <2>3, <2>4
  <1> QED BY <1>1, PassInvHolds, PTL

(***************************************************************************)
(* The bytes of a file leave without a gap: before a byte that has been    *)
(* delivered nothing of its file is outstanding, at any point of a pass.   *)
(***************************************************************************)
THEOREM PassLeavesNoGap ==
  ASSUME ReadInPasses
  PROVE  Spec => []NoGapWithinFile
  <1>1. ASSUME PassInv PROVE NoGapWithinFile
    <2> SUFFICES ASSUME NEW p \in Existing, NEW i \in 1..Len(ContentOf(p)),
                        NEW j \in 1..Len(ContentOf(p)), i < j,
                        ContentOf(p)[j].id \in Delivered
                 PROVE  ContentOf(p)[i].id \in Delivered
      BY DEF NoGapWithinFile
    <2> DEFINE f == disk[dir[p]]
               x == Consumed(p)
    <2>1. ContentOf(p) = f /\ Len(f) \in Nat /\ x \in 0..Len(f)
      BY <1>1, FileOf, ConsumedIsPlace DEF PassInv
    <2>2. \A k \in 1..Len(f) :
            /\ k <= x <=> f[k].id \in Delivered \cup Held
            /\ f[k].id \in Held => \A m \in k..x : f[m].id \in Held
      BY <1>1 DEF PassInv, BytesAreAccountedFor
    <2>3. Held \cap Delivered = {}
      BY <1>1 DEF PassInv, HeldIsNew, Held
    <2> HIDE DEF f, x
    <2>4. i \in 1..Len(f) /\ j \in 1..Len(f) /\ f[j].id \in Delivered
      BY <2>1
    <2>5. j <= x /\ j \in i..x
      BY <2>1, <2>2, <2>4
    <2>6. f[i].id \in Delivered \cup Held
      BY <2>1, <2>2, <2>4, <2>5
    <2>7. f[i].id \notin Held
      BY <2>2, <2>3, <2>4, <2>5
    <2> QED BY <2>1, <2>6, <2>7
  <1> QED BY <1>1, PassInvHolds, PTL

(***************************************************************************)
(* Over any number of passes the reader implements the abstract stream:    *)
(* what it delivers is new and in the order of writing, even when a file   *)
(* is renamed, truncated or removed and its name used again.               *)
(***************************************************************************)
THEOREM PassesImplementLogStream ==
  ASSUME ReadInPasses
  PROVE  Spec => ImplementsLogStream
  <1>1. Init => Stream!Init
    BY DEF Init, Stream!Init
  <1>2. ASSUME PassInv, [Next]_vars PROVE [Stream!Next]_(Stream!vars)
    BY <1>2, StepOfTheStream DEF PassInv
  <1> QED BY <1>1, <1>2, PassInvHolds, PTL DEF Spec, ImplementsLogStream, Stream!Spec

\* In passes no byte is delivered twice (COR-007).
THEOREM PassesRepeatNothing ==
  ASSUME ReadInPasses
  PROVE  Spec => []AtMostOnce
  <1> QED BY PassesImplementLogStream, StreamDeliversOnce
=============================================================================
