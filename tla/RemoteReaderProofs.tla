------------------------- MODULE RemoteReaderProofs -------------------------
(***************************************************************************)
(* Proofs about the remote reader, for any number of files, bytes,         *)
(* sessions and failed queries, any chunk size and any lengths of the      *)
(* caller's slices.                                                        *)
(***************************************************************************)
EXTENDS RemoteReader, FiniteSetTheorems, SequenceTheorems, WellFoundedInduction, TLAPS

(***************************************************************************)
(* The inductive strengthening of the type invariant: a file is no longer  *)
(* than what was written, what is held while a file is open is part of     *)
(* what was fetched of it, and what is held between files can go out.      *)
(***************************************************************************)
SessionShape ==
  /\ \A p \in Files : Len(content[p]) <= written
  /\ pc = "fetch" => cur.path # 0 /\ Len(pending) < MaxHeldBack
  /\ pc = "relist" => cur.path = 0 /\ pending = <<>>
  /\ cur.path # 0 => Len(pending) <= cur.off /\ ~flush
  /\ cur.path = 0 => pending = <<>> \/ flush \/ pending[Len(pending)].nl

TypeInv == TypeOK /\ SessionShape /\ HeldBackBounded

(***************************************************************************)
(* The n elements of a sequence that follow its first a.                   *)
(***************************************************************************)
LEMMA Slice ==
  ASSUME NEW S, NEW s \in Seq(S), NEW a \in Nat, NEW n \in Nat, a + n <= Len(s)
  PROVE  /\ SubSeq(s, a + 1, a + n) \in Seq(S)
         /\ Len(SubSeq(s, a + 1, a + n)) = n
         /\ \A i \in 1..n : SubSeq(s, a + 1, a + n)[i] = s[a + i]
  <1> DEFINE b == a + 1
             c == a + n
  <1>1. /\ b \in Int /\ c \in Int /\ (c - b) + 1 = n /\ (b > c => n = 0)
        /\ \A i \in 1..n : (b + i) - 1 = a + i
    OBVIOUS
  <1>2. \A i \in b..c : i \in 1..Len(s) /\ s[i] \in S
    OBVIOUS
  <1> HIDE DEF b, c
  <1>3. /\ SubSeq(s, b, c) \in Seq(S) /\ Len(SubSeq(s, b, c)) = n
        /\ \A i \in 1..n : SubSeq(s, b, c)[i] = s[(b + i) - 1]
    BY <1>1, <1>2, SubSeqProperties
  <1> QED BY <1>1, <1>3 DEF b, c

\* Every set of numbers has a least element, and a bounded one a greatest.
LEMMA LeastOf ==
  ASSUME NEW S, S \subseteq Nat, S # {}
  PROVE  \E x \in S : \A y \in S : x <= y
  <1> DEFINE R == OpToRel(<, Nat)
  <1>1. R = {ss \in Nat \X Nat : ss[1] < ss[2]}
    BY DEF OpToRel
  <1>2. IsWellFoundedOn(R, Nat)
    BY NatLessThanWellFounded
  <1> HIDE DEF R
  <1>3. PICK x \in S : \A y \in S : ~(<<y, x>> \in R)
    BY <1>2, WFMin
  <1>4. ASSUME NEW y \in S PROVE x <= y
    <2>1. <<y, x>> \in Nat \X Nat /\ ~(<<y, x>> \in R)
      BY <1>3
    <2> QED BY <2>1, <1>1
  <1> QED BY <1>4

\* The greatest element of a bounded set.
LEMMA GreatestOf ==
  ASSUME NEW n \in Nat, NEW S, S \subseteq 1..n, S # {}
  PROVE  Max(S) \in S /\ \A y \in S : y <= Max(S)
  <1> DEFINE T == {n - x : x \in S}
  <1>1. T \subseteq Nat /\ T # {}
    <2>1. \A x \in S : n - x \in Nat
      OBVIOUS
    <2> QED BY <2>1
  <1>2. PICK t \in T : \A y \in T : t <= y
    BY <1>1, LeastOf
  <1>3. PICK x \in S : n - x = t
    OBVIOUS
  <1>4. ASSUME NEW y \in S PROVE y <= x
    <2>1. n - y \in T
      OBVIOUS
    <2>2. n - x <= n - y
      BY <2>1, <1>2, <1>3
    <2> QED BY <2>2
  <1>5. \E z \in S : \A y \in S : z >= y
    BY <1>4
  <1>6. Max(S) \in S /\ \A y \in S : Max(S) >= y
    BY <1>5, Zenon DEF Max
  <1> QED BY <1>6

\* 0 names no file, and the files are in the order of the listing.
LEMMA FilesAreNumbers ==
  /\ Cardinality(Files) \in Nat /\ Files = 1..Cardinality(Files)
  /\ 0 \notin Files /\ Files \subseteq Nat
  /\ \A n \in Files : 1..n \subseteq Files
  <1>1. Cardinality(Files) \in Nat /\ Files = 1..Cardinality(Files)
    BY FS_CardinalityType, RemoteAssumption
  <1> QED BY <1>1

(***************************************************************************)
(* The facts about types the proofs below keep using.                      *)
(***************************************************************************)
TypeFacts ==
  /\ content \in [Files -> Seq(Byte)] /\ newest \in Files /\ newest \in Nat
  /\ written \in 0..MaxBytes /\ written \in Nat
  /\ \A p \in Files : Len(content[p]) \in 0..written /\ content[p] \in Seq(Byte)
  /\ offsets \in [Files -> 0..MaxBytes] /\ tracked \subseteq Files
  /\ follow \in BOOLEAN /\ flush \in BOOLEAN
  /\ cur.path \in {0} \cup Files /\ cur.off \in 0..MaxBytes
  /\ cur = [path |-> cur.path, off |-> cur.off]
  /\ pending \in Seq(Byte) /\ Len(pending) \in Nat
  /\ out \in Seq(1..MaxBytes) /\ Len(out) \in Nat
  /\ MaxBytes \in Nat /\ ChunkSize \in Nat \ {0} /\ MaxHeldBack = 2 * ChunkSize

\* The type invariant gives them.
LEMMA TypeFactsHold ==
  ASSUME TypeInv
  PROVE  TypeFacts
  <1>1. /\ content \in [Files -> Seq(Byte)] /\ newest \in Files
        /\ written \in 0..MaxBytes
        /\ offsets \in [Files -> 0..MaxBytes] /\ tracked \subseteq Files
        /\ follow \in BOOLEAN /\ flush \in BOOLEAN
        /\ pending \in Seq(Byte) /\ out \in Seq(1..MaxBytes)
    BY DEF TypeInv, TypeOK
  <1>2. cur \in [path : {0} \cup Files, off : 0..MaxBytes]
    BY DEF TypeInv, TypeOK
  <1>3. /\ cur.path \in {0} \cup Files /\ cur.off \in 0..MaxBytes
        /\ cur = [path |-> cur.path, off |-> cur.off]
    BY <1>2
  <1>4. MaxBytes \in Nat /\ ChunkSize \in Nat \ {0} /\ MaxHeldBack = 2 * ChunkSize
    BY RemoteAssumption DEF MaxHeldBack
  <1>5. newest \in Nat /\ written \in Nat
    BY <1>1, <1>4, FilesAreNumbers
  <1>6. \A p \in Files : Len(content[p]) \in 0..written /\ content[p] \in Seq(Byte)
    <2> TAKE p \in Files
    <2>1. content[p] \in Seq(Byte)
      BY <1>1
    <2>2. Len(content[p]) \in Nat /\ Len(content[p]) <= written
      BY <2>1 DEF TypeInv, SessionShape
    <2> QED BY <1>5, <2>1, <2>2
  <1>7. Len(pending) \in Nat /\ Len(out) \in Nat
    BY <1>1
  <1> QED BY <1>1, <1>3, <1>4, <1>5, <1>6, <1>7 DEF TypeFacts

(***************************************************************************)
(* The last newline of what is held, and what may go out.                  *)
(***************************************************************************)
LEMMA LastNewlineIs ==
  ASSUME NEW bytes \in Seq(Byte)
  PROVE  /\ LastNewline(bytes) \in 0..Len(bytes)
         /\ LastNewline(bytes) > 0 => bytes[LastNewline(bytes)].nl
         /\ \A i \in 1..Len(bytes) : bytes[i].nl => i <= LastNewline(bytes)
  <1>1. Len(bytes) \in Nat /\ Newlines(bytes) \subseteq 1..Len(bytes)
    BY DEF Newlines
  <1>2. CASE Newlines(bytes) = {}
    BY <1>1, <1>2 DEF LastNewline, Newlines
  <1>3. CASE Newlines(bytes) # {}
    <2> DEFINE j == Max(Newlines(bytes))
    <2>1. j \in Newlines(bytes) /\ \A y \in Newlines(bytes) : y <= j
      BY <1>1, <1>3, GreatestOf
    <2>2. LastNewline(bytes) = j
      BY <1>3 DEF LastNewline
    <2> HIDE DEF j
    <2> QED BY <1>1, <2>1, <2>2 DEF Newlines
  <1> QED BY <1>2, <1>3

\* What may go out is bounded; when nothing may, what is held is a short tail.
LEMMA EligibleIs ==
  ASSUME TypeInv
  PROVE  /\ Deliverable \in 0..Len(pending)
         /\ Deliverable = 0 => /\ \A i \in 1..Len(pending) : ~pending[i].nl
                               /\ Len(pending) < MaxHeldBack
                               /\ flush => pending = <<>>
  <1> DEFINE j == LastNewline(pending)
  <1>1. TypeFacts
    BY TypeFactsHold
  <1>2. j \in 0..Len(pending) /\ \A i \in 1..Len(pending) : pending[i].nl => i <= j
    BY <1>1, LastNewlineIs DEF TypeFacts
  <1>3. Deliverable = IF j > 0 THEN j
                      ELSE IF flush \/ Len(pending) >= MaxHeldBack THEN Len(pending) ELSE 0
    BY DEF Deliverable, Eligible
  <1> HIDE DEF j
  <1>4. Len(pending) \in Nat /\ MaxHeldBack \in Nat \ {0} /\ (Len(pending) = 0 => pending = <<>>)
    BY <1>1 DEF TypeFacts
  <1>5. Deliverable \in 0..Len(pending)
    BY <1>2, <1>3, <1>4
  <1>6. ASSUME Deliverable = 0
        PROVE  j = 0 /\ Len(pending) < MaxHeldBack /\ (flush => Len(pending) = 0)
    BY <1>2, <1>3, <1>4, <1>6
  <1>7. ASSUME Deliverable = 0 PROVE \A i \in 1..Len(pending) : ~pending[i].nl
    BY <1>2, <1>4, <1>6, <1>7
  <1> QED BY <1>4, <1>5, <1>6, <1>7

\* Between files nothing is held once nothing can go out.
LEMMA NothingBetweenFiles ==
  ASSUME TypeInv, Deliverable = 0, cur.path = 0
  PROVE  pending = <<>>
  <1>1. /\ \A i \in 1..Len(pending) : ~pending[i].nl
        /\ flush => pending = <<>>
    BY EligibleIs
  <1>2. pending = <<>> \/ flush \/ pending[Len(pending)].nl
    BY DEF TypeInv, SessionShape
  <1>3. Len(pending) \in Nat /\ (Len(pending) = 0 => pending = <<>>)
    BY TypeFactsHold DEF TypeFacts
  <1> QED BY <1>1, <1>2, <1>3
-----------------------------------------------------------------------------
(***************************************************************************)
(* What the operations of the reader do, as facts about sequences.         *)
(***************************************************************************)

\* The offset a session finds for a file.
FoundOffset(p) == IF HasStore(follow) THEN offsets[p] ELSE 0

\* What a store call leaves behind: the offset of the one path it names and,
\* unless the fallback store was full, those of the others as they were.
LEMMA RecordIs ==
  ASSUME TypeInv, NEW p \in {0} \cup Files, NEW o \in 0..MaxBytes, Record(p, o)
  PROVE  /\ offsets' \in [Files -> 0..MaxBytes] /\ tracked' \subseteq Files
         /\ p = 0 \/ ~HasStore(follow) => UNCHANGED store
         /\ HasStore(follow) /\ p # 0 => offsets'[p] = o
         /\ CallerOffsets \/ Cardinality(tracked) < MaxTracked =>
              \A q \in Files : q # p => offsets'[q] = offsets[q]
  <1>1. /\ offsets \in [Files -> 0..MaxBytes] /\ tracked \subseteq Files
        /\ 0 \in 0..MaxBytes
    BY TypeFactsHold DEF TypeFacts
  <1>2. CASE p = 0 \/ ~HasStore(follow)
    <2>1. UNCHANGED store
      BY <1>2 DEF Record
    <2> QED BY <2>1, <1>1, <1>2 DEF store
  <1>3. CASE p # 0 /\ HasStore(follow)
    <2>0. SetOffset(p, o) /\ p \in Files
      BY <1>3 DEF Record
    <2>1. CASE ~CallerOffsets /\ Cardinality(tracked) >= MaxTracked
      <3>1. offsets' = [q \in Files |-> IF q = p THEN o ELSE 0] /\ tracked' = {p}
        BY <2>0, <2>1 DEF SetOffset
      <3>2. ~(Cardinality(tracked) < MaxTracked)
        <4>1. Cardinality(tracked) \in Nat
          BY <1>1, FS_Subset, FS_CardinalityType, RemoteAssumption
        <4> QED BY <4>1, <2>1, RemoteAssumption
      <3> QED BY <3>1, <3>2, <2>0, <1>1, <1>3, <2>1
    <2>2. CASE ~(~CallerOffsets /\ Cardinality(tracked) >= MaxTracked)
      <3>1. offsets' = [offsets EXCEPT ![p] = o] /\ tracked' = tracked \cup {p}
        BY <2>0, <2>2 DEF SetOffset
      <3> QED BY <3>1, <2>0, <1>1, <1>3
    <2> QED BY <2>1, <2>2
  <1> QED BY <1>2, <1>3

(***************************************************************************)
(* A delivery: the first n bytes held leave, in order, and the offset of   *)
(* the open file moves over them.                                          *)
(***************************************************************************)
Sent(n) ==
  /\ n <= Deliverable /\ n <= Len(pending)
  /\ pending' \in Seq(Byte) /\ Len(pending') = Len(pending) - n
  /\ \A i \in 1..(Len(pending) - n) : pending'[i] = pending[n + i]
  /\ out' \in Seq(1..MaxBytes) /\ Len(out') = Len(out) + n
  /\ \A i \in 1..Len(out) : out'[i] = out[i]
  /\ \A i \in 1..n : out'[Len(out) + i] = pending[i].id
  /\ Delivered' = Delivered \cup {pending[i].id : i \in 1..n}
  /\ Record(cur.path, cur.off - (Len(pending) - n))

\* Deliver is such a step.
LEMMA DeliverSends ==
  ASSUME TypeInv, NEW size \in BufSizes, Deliver(size)
  PROVE  \E n \in 1..Len(pending) : Sent(n)
  <1> DEFINE n == MinOf(size, Deliverable)
             l == Len(pending)
             m == Len(out)
             chunk == [i \in 1..n |-> pending[i].id]
             rest == SubSeq(pending, n + 1, l)
  <1>0. TypeFacts
    BY TypeFactsHold
  <1>1. /\ Deliverable > 0 /\ out' = out \o chunk /\ pending' = rest
        /\ Record(cur.path, OffsetAfterDelivery(cur.off, rest))
    BY DEF Deliver
  <1>2. Deliverable \in 0..l
    BY EligibleIs
  <1>3. l \in Nat /\ m \in Nat /\ out \in Seq(1..MaxBytes) /\ pending \in Seq(Byte)
    BY <1>0 DEF TypeFacts
  <1>4. n \in 1..l /\ n <= Deliverable
    BY <1>1, <1>2, <1>3, RemoteAssumption DEF MinOf
  <1> HIDE DEF n
  <1>5. /\ rest \in Seq(Byte) /\ Len(rest) = l - n
        /\ \A i \in 1..(l - n) : rest[i] = pending[n + i]
    <2>1. n \in Nat /\ l - n \in Nat /\ n + (l - n) = l /\ n + (l - n) <= l
      BY <1>3, <1>4
    <2> DEFINE k == l - n
    <2>2. k \in Nat /\ n + k = l /\ n + k <= Len(pending)
      BY <2>1
    <2> HIDE DEF k
    <2>3. /\ SubSeq(pending, n + 1, n + k) \in Seq(Byte)
          /\ Len(SubSeq(pending, n + 1, n + k)) = k
          /\ \A i \in 1..k : SubSeq(pending, n + 1, n + k)[i] = pending[n + i]
      BY <1>3, <2>1, <2>2, Slice
    <2> QED BY <2>2, <2>3 DEF k
  <1>6. OffsetAfterDelivery(cur.off, rest) = cur.off - (l - n)
    BY <1>5 DEF OffsetAfterDelivery
  <1>7. \A i \in 1..n : i \in 1..l /\ pending[i].id \in 1..MaxBytes
    <2>1. \A i \in 1..n : i \in 1..l
      BY <1>3, <1>4
    <2>2. \A i \in 1..l : pending[i] \in Byte
      BY <1>3
    <2> QED BY <2>1, <2>2 DEF Byte
  <1>8. /\ out' \in Seq(1..MaxBytes) /\ Len(out') = m + n
        /\ \A i \in 1..m : out'[i] = out[i]
        /\ \A i \in 1..n : out'[m + i] = pending[i].id
    <2>1. /\ chunk \in Seq(1..MaxBytes) /\ Len(chunk) = n
          /\ \A i \in 1..n : chunk[i] = pending[i].id
      <3>1. n \in Nat /\ chunk = [i \in 1..n |-> pending[i].id]
        BY <1>3, <1>4
      <3> HIDE DEF chunk
      <3> QED BY <3>1, <1>7
    <2> HIDE DEF chunk, m
    <2>2. /\ out \o chunk \in Seq(1..MaxBytes)
          /\ Len(out \o chunk) = Len(out) + Len(chunk)
          /\ \A i \in 1..(Len(out) + Len(chunk)) :
               (out \o chunk)[i] = IF i <= Len(out) THEN out[i] ELSE chunk[i - Len(out)]
      BY <1>3, <2>1, ConcatProperties
    <2>3. \A i \in 1..m : i \in 1..(m + n) /\ i <= m
      BY <1>3, <1>4
    <2>4. \A i \in 1..n : m + i \in 1..(m + n) /\ ~(m + i <= m) /\ (m + i) - m = i
      BY <1>3, <1>4
    <2>5. /\ out' \in Seq(1..MaxBytes) /\ Len(out') = m + n
          /\ \A i \in 1..(m + n) : out'[i] = IF i <= m THEN out[i] ELSE chunk[i - m]
      BY <1>1, <2>1, <2>2 DEF m
    <2> QED BY <2>1, <2>3, <2>4, <2>5
  <1>9. Delivered' = Delivered \cup {pending[i].id : i \in 1..n}
    <2>1. Delivered' = {out'[i] : i \in 1..Len(out')} /\ Delivered = {out[i] : i \in 1..m}
      BY DEF Delivered
    <2> HIDE DEF m
    <2>2. \A i \in 1..Len(out') : i \in 1..m \/ (i - m \in 1..n /\ m + (i - m) = i)
      BY <1>3, <1>4, <1>8
    <2>3. \A i \in 1..m : i \in 1..Len(out')
      BY <1>3, <1>4, <1>8
    <2>4. \A i \in 1..n : m + i \in 1..Len(out')
      BY <1>3, <1>4, <1>8
    <2>5. ASSUME NEW i \in 1..Len(out')
          PROVE  out'[i] \in Delivered \cup {pending[k].id : k \in 1..n}
      <3>1. CASE i \in 1..m
        BY <3>1, <2>1, <1>8
      <3>2. CASE i - m \in 1..n /\ m + (i - m) = i
        <4> DEFINE k == i - m
        <4>1. k \in 1..n /\ out'[m + k] = pending[k].id /\ m + k = i
          BY <3>2, <1>8
        <4> QED BY <4>1
      <3> QED BY <3>1, <3>2, <2>2
    <2> QED BY <2>1, <2>3, <2>4, <2>5, <1>8
  <1>10. n <= Deliverable /\ n <= l
    BY <1>3, <1>4
  <1>11. Record(cur.path, cur.off - (l - n))
    BY <1>1, <1>6
  <1> QED BY <1>1, <1>4, <1>5, <1>8, <1>9, <1>10, <1>11 DEF Sent

(***************************************************************************)
(* A fetch: n more bytes of the open file behind those held.               *)
(***************************************************************************)
Extended(bytes, n) ==
  /\ bytes \in Seq(Byte) /\ Len(bytes) = Len(pending) + n
  /\ \A i \in 1..Len(pending) : bytes[i] = pending[i]
  /\ \A i \in 1..n : bytes[Len(pending) + i] = content[cur.path][cur.off + i]
  /\ n > 0 => cur.off + n <= Len(content[cur.path])
  /\ n < ChunkSize => Len(content[cur.path]) <= cur.off + n

\* A full chunk is held and the file stays open ...
ChunkTaken(bytes, n) ==
  /\ n = ChunkSize
  /\ pending' = bytes
  /\ cur' = [path |-> cur.path, off |-> cur.off + n]
  /\ UNCHANGED <<offsets, tracked, flush>>

\* ... a short one ends the file; a follower keeps its complete lines.
FileEnded(bytes, n, kept) ==
  /\ n < ChunkSize
  /\ kept \in 0..(Len(pending) + n)
  /\ kept = IF follow THEN LastNewline(bytes) ELSE Len(pending) + n
  /\ pending' \in Seq(Byte) /\ Len(pending') = kept
  /\ \A i \in 1..kept : pending'[i] = bytes[i]
  /\ flush' = ~follow /\ cur' = NoFile
  /\ Record(cur.path, (cur.off - Len(pending)) + kept)

\* Fetch is one or the other.
LEMMA FetchTakes ==
  ASSUME TypeInv, Fetch
  PROVE  \E n \in 0..ChunkSize, bytes \in Seq(Byte) :
           /\ Extended(bytes, n)
           /\ \/ ChunkTaken(bytes, n)
              \/ \E kept \in 0..Len(bytes) : FileEnded(bytes, n, kept)
  <1> DEFINE avail == content[cur.path]
             l == Len(pending)
             n == IF cur.off < Len(avail) THEN MinOf(ChunkSize, Len(avail) - cur.off)
                  ELSE 0
             more == SubSeq(avail, cur.off + 1, cur.off + n)
             bytes == pending \o more
             kept == IF follow THEN KeptOfFollower(bytes) ELSE Len(bytes)
  <1>0. TypeFacts /\ cur.path \in Files /\ l <= cur.off
    BY TypeFactsHold DEF Fetch, TypeInv, SessionShape, TypeFacts
  <1>1. /\ avail \in Seq(Byte) /\ Len(avail) \in Nat /\ l \in Nat /\ cur.off \in Nat
        /\ ChunkSize \in Nat \ {0} /\ pending \in Seq(Byte)
    BY <1>0 DEF TypeFacts
  <1>2. /\ n \in 0..ChunkSize
        /\ n > 0 => cur.off + n <= Len(avail)
        /\ n < ChunkSize => Len(avail) <= cur.off + n
    BY <1>1 DEF MinOf
  <1>3. IF EndsFile(n)
        THEN FinishFile(bytes, Advance(cur.off, n))
        ELSE /\ pending' = bytes
             /\ cur' = [cur EXCEPT !.off = Advance(@, n)]
             /\ UNCHANGED <<store, flush>>
    BY DEF Fetch
  <1> HIDE DEF n, avail
  <1>4. /\ more \in Seq(Byte) /\ Len(more) = n
        /\ \A i \in 1..n : more[i] = avail[cur.off + i]
    <2> HIDE DEF more
    <2>1. CASE n = 0
      <3>1. more = <<>>
        <4>1. cur.off + 1 > cur.off + n /\ cur.off + 1 \in Int /\ cur.off + n \in Int
          BY <1>1, <2>1
        <4>2. \A i \in (cur.off + 1)..(cur.off + n) : FALSE
          BY <1>1, <2>1
        <4> DEFINE b == cur.off + 1
                   c == cur.off + n
        <4>3. b > c /\ b \in Int /\ c \in Int /\ \A i \in b..c : avail[i] \in Byte
          BY <4>1, <4>2
        <4> HIDE DEF b, c
        <4>4. SubSeq(avail, b, c) \in Seq(Byte) /\ Len(SubSeq(avail, b, c)) = 0
          BY <1>1, <4>3, SubSeqProperties
        <4> QED BY <4>4 DEF b, c, more
      <3>2. <<>> \in Seq(Byte) /\ Len(<<>>) = 0 /\ \A i \in 1..0 : FALSE
        OBVIOUS
      <3> QED BY <3>1, <3>2, <2>1
    <2>2. CASE n > 0
      <3>1. n \in Nat /\ cur.off + n <= Len(avail)
        BY <1>1, <1>2, <2>2
      <3>2. /\ SubSeq(avail, cur.off + 1, cur.off + n) \in Seq(Byte)
            /\ Len(SubSeq(avail, cur.off + 1, cur.off + n)) = n
            /\ \A i \in 1..n : SubSeq(avail, cur.off + 1, cur.off + n)[i] = avail[cur.off + i]
        <4> DEFINE a == cur.off
        <4>1. a \in Nat /\ a + n <= Len(avail) /\ avail \in Seq(Byte) /\ n \in Nat
          BY <1>1, <3>1
        <4> HIDE DEF a
        <4>2. /\ SubSeq(avail, a + 1, a + n) \in Seq(Byte)
              /\ Len(SubSeq(avail, a + 1, a + n)) = n
              /\ \A i \in 1..n : SubSeq(avail, a + 1, a + n)[i] = avail[a + i]
          BY <4>1, Slice
        <4> QED BY <4>2 DEF a
      <3> QED BY <3>2 DEF more
    <2>3. n = 0 \/ n > 0
      BY <1>1, <1>2
    <2> QED BY <2>1, <2>2, <2>3
  <1> HIDE DEF more
  <1>5. /\ bytes \in Seq(Byte) /\ Len(bytes) = l + n
        /\ \A i \in 1..(l + n) : bytes[i] = IF i <= l THEN pending[i] ELSE more[i - l]
    <2>1. /\ pending \o more \in Seq(Byte)
          /\ Len(pending \o more) = Len(pending) + Len(more)
          /\ \A i \in 1..(Len(pending) + Len(more)) :
               (pending \o more)[i] = IF i <= Len(pending) THEN pending[i]
                                      ELSE more[i - Len(pending)]
      BY <1>1, <1>4, ConcatProperties
    <2> QED BY <2>1, <1>4
  <1> HIDE DEF bytes, l
  <1>6. Extended(bytes, n)
    <2>1. \A i \in 1..l : bytes[i] = pending[i]
      <3>1. \A i \in 1..l : i \in 1..(l + n) /\ i <= l
        BY <1>1, <1>2
      <3> QED BY <3>1, <1>5
    <2>2. \A i \in 1..n : bytes[l + i] = avail[cur.off + i]
      <3>1. \A i \in 1..n : l + i \in 1..(l + n) /\ ~(l + i <= l) /\ (l + i) - l = i
        BY <1>1, <1>2
      <3> QED BY <3>1, <1>4, <1>5
    <2> QED BY <1>2, <1>5, <2>1, <2>2 DEF Extended, avail, l
  <1>7. CASE ~(n < ChunkSize)
    <2>1. /\ pending' = bytes /\ UNCHANGED <<store, flush>>
          /\ cur' = [cur EXCEPT !.off = cur.off + n]
      BY <1>3, <1>7 DEF EndsFile, Advance
    <2>2. cur = [path |-> cur.path, off |-> cur.off]
      BY <1>0 DEF TypeFacts
    <2>3. cur' = [path |-> cur.path, off |-> cur.off + n]
      BY <2>1, <2>2
    <2>4. n = ChunkSize
      BY <1>1, <1>2, <1>7
    <2>5. ChunkTaken(bytes, n)
      BY <2>1, <2>3, <2>4 DEF ChunkTaken, store
    <2> QED BY <1>2, <1>5, <1>6, <2>5
  <1>8. CASE n < ChunkSize
    <2>1. FinishFile(bytes, cur.off + n)
      BY <1>3, <1>8 DEF EndsFile, Advance
    <2>2. /\ Record(cur.path, (cur.off + n) - (Len(bytes) - kept))
          /\ pending' = SubSeq(bytes, 1, kept) /\ flush' = ~follow /\ cur' = NoFile
      BY <2>1 DEF FinishFile
    <2>3. /\ kept = IF follow THEN LastNewline(bytes) ELSE l + n
          /\ kept \in 0..(l + n)
      <3>1. LastNewline(bytes) \in 0..(l + n)
        BY <1>5, LastNewlineIs
      <3>2. l + n \in 0..(l + n)
        BY <1>1, <1>2
      <3> QED BY <1>5, <3>1, <3>2 DEF KeptOfFollower
    <2> HIDE DEF kept
    <2>4. /\ SubSeq(bytes, 1, kept) \in Seq(Byte) /\ Len(SubSeq(bytes, 1, kept)) = kept
          /\ \A i \in 1..kept : SubSeq(bytes, 1, kept)[i] = bytes[i]
      <3>1. /\ kept \in Nat /\ 0 + kept <= Len(bytes) /\ 0 + kept = kept /\ 0 + 1 = 1
            /\ \A i \in 1..kept : 0 + i = i
        BY <1>1, <1>2, <1>5, <2>3
      <3>2. /\ SubSeq(bytes, 0 + 1, 0 + kept) \in Seq(Byte)
            /\ Len(SubSeq(bytes, 0 + 1, 0 + kept)) = kept
            /\ \A i \in 1..kept : SubSeq(bytes, 0 + 1, 0 + kept)[i] = bytes[0 + i]
        BY <1>5, <3>1, Slice
      <3> QED BY <3>1, <3>2
    <2>5. (cur.off + n) - (Len(bytes) - kept) = (cur.off - l) + kept
      <3>1. Len(bytes) = l + n /\ kept \in Nat /\ n \in Nat
        BY <1>1, <1>2, <1>5, <2>3
      <3> QED BY <1>1, <3>1
    <2>6. FileEnded(bytes, n, kept)
      BY <1>8, <2>2, <2>3, <2>4, <2>5 DEF FileEnded, l
    <2> QED BY <1>2, <1>5, <1>6, <2>3, <2>6
  <1> QED BY <1>7, <1>8

(***************************************************************************)
(* The next listed file is passed over, or opened at the offset found, or  *)
(* at its start when it is shorter than that.                              *)
(***************************************************************************)
Looked(f) ==
  /\ f \in listing /\ \A h \in listing : f.path <= h.path
  /\ f.path \in Files /\ f.size \in 0..MaxBytes
  /\ listing' = listing \ {f}
  /\ pending = <<>> /\ cur.path = 0 /\ pc = "loop"
  /\ \/ /\ FoundOffset(f.path) > 0 /\ f.size = FoundOffset(f.path)
        /\ UNCHANGED <<pc, cur, flush>>
     \/ /\ ~(FoundOffset(f.path) > 0 /\ f.size = FoundOffset(f.path))
        /\ cur' = [path |-> f.path,
                   off  |-> IF f.size < FoundOffset(f.path) THEN 0
                            ELSE FoundOffset(f.path)]
        /\ flush' = FALSE /\ pc' = "fetch"

\* NextFile is such a step.
LEMMA NextFileLooks ==
  ASSUME TypeInv, NextFile
  PROVE  \E f \in listing : Looked(f)
  <1> DEFINE f == CHOOSE g \in listing : \A h \in listing : g.path <= h.path
             off == IF HasStore(follow) THEN offsets[f.path] ELSE 0
             Paths == {g.path : g \in listing}
  <1>1. /\ listing' = listing \ {f}
        /\ IF PassedOver(f, off)
           THEN UNCHANGED <<pc, cur, flush>>
           ELSE /\ cur' = [path |-> f.path, off |-> StartOffset(f, off)]
                /\ flush' = FALSE
                /\ pc' = "fetch"
        /\ Deliverable = 0 /\ cur.path = 0 /\ listing # {} /\ pc = "loop"
    BY DEF NextFile
  <1>2. listing \subseteq [path : Files, size : 0..MaxBytes]
    BY DEF TypeInv, TypeOK
  <1>3. \E g \in listing : \A h \in listing : g.path <= h.path
    <2>1. Paths \subseteq Nat /\ Paths # {}
      BY <1>1, <1>2, FilesAreNumbers
    <2> HIDE DEF Paths
    <2>2. PICK x \in Paths : \A y \in Paths : x <= y
      BY <2>1, LeastOf
    <2> QED BY <2>2 DEF Paths
  <1>4. f \in listing /\ \A h \in listing : f.path <= h.path
    BY <1>3
  <1>5. off = FoundOffset(f.path)
    BY DEF FoundOffset
  <1> HIDE DEF f, off
  <1>6. f.path \in Files /\ f.size \in 0..MaxBytes
    BY <1>2, <1>4
  <1>7. pending = <<>>
    BY <1>1, NothingBetweenFiles
  <1> QED BY <1>1, <1>4, <1>5, <1>6, <1>7 DEF Looked, PassedOver, StartOffset
-----------------------------------------------------------------------------
(***************************************************************************)
(* An append adds byte written + 1 behind those of the newest file.        *)
(***************************************************************************)
LEMMA AppendAddsOne ==
  ASSUME TypeInv, Append1
  PROVE  /\ UNCHANGED <<newest, shrunk, store, reader, out>>
         /\ written' = written + 1 /\ written' \in 0..MaxBytes
         /\ content' \in [Files -> Seq(Byte)]
         /\ \A p \in Files :
              /\ Len(content[p]) \in Nat /\ Len(content'[p]) \in Nat
              /\ Len(content[p]) <= Len(content'[p])
              /\ Len(content'[p]) <= Len(content[p]) + 1
              /\ \A k \in 1..Len(content[p]) : content'[p][k] = content[p][k]
              /\ \A k \in 1..Len(content'[p]) : k > Len(content[p]) =>
                   /\ k = Len(content'[p]) /\ p = newest
                   /\ content'[p][k].id = written + 1
  <1>0. TypeFacts
    BY TypeFactsHold
  <1>1. PICK nl \in BOOLEAN :
          content' = [content EXCEPT ![newest] = Append(@, [id |-> written + 1, nl |-> nl])]
    BY DEF Append1
  <1> DEFINE b == [id |-> written + 1, nl |-> nl]
  <1>2. written' = written + 1 /\ written' \in 0..MaxBytes /\ written + 1 \in 1..MaxBytes
    BY <1>0 DEF Append1, TypeFacts
  <1>3. b \in Byte /\ b.id = written + 1
    BY <1>2 DEF Byte
  <1> HIDE DEF b
  <1>4. content' = [content EXCEPT ![newest] = Append(content[newest], b)]
    BY <1>1 DEF b
  <1>5. Append(content[newest], b) \in Seq(Byte)
    BY <1>0, <1>3 DEF TypeFacts
  <1>6. content' \in [Files -> Seq(Byte)]
    BY <1>0, <1>4, <1>5 DEF TypeFacts
  <1>7. ASSUME NEW p \in Files
        PROVE  /\ Len(content[p]) \in Nat /\ Len(content'[p]) \in Nat
               /\ Len(content[p]) <= Len(content'[p])
               /\ Len(content'[p]) <= Len(content[p]) + 1
               /\ \A k \in 1..Len(content[p]) : content'[p][k] = content[p][k]
               /\ \A k \in 1..Len(content'[p]) : k > Len(content[p]) =>
                    /\ k = Len(content'[p]) /\ p = newest
                    /\ content'[p][k].id = written + 1
    <2>1. CASE p # newest
      BY <1>0, <1>4, <2>1 DEF TypeFacts
    <2>2. CASE p = newest
      <3>1. content'[p] = Append(content[p], b) /\ content[p] \in Seq(Byte)
        BY <1>0, <1>4, <2>2 DEF TypeFacts
      <3>2. /\ Len(content[p]) \in Nat /\ Len(content'[p]) = Len(content[p]) + 1
            /\ \A k \in 1..Len(content[p]) : content'[p][k] = content[p][k]
            /\ content'[p][Len(content[p]) + 1] = b
        BY <3>1
      <3> QED BY <2>2, <3>2, <1>3
    <2> QED BY <2>1, <2>2
  <1> QED BY <1>2, <1>6, <1>7 DEF Append1

\* The server keeps the type invariant.
LEMMA ServerKeepsTypes ==
  ASSUME TypeInv, Server
  PROVE  TypeInv'
  <1> USE DEF server, store, reader
  <1>0. TypeFacts /\ UNCHANGED <<store, reader, out>>
    BY TypeFactsHold DEF Server, Append1, Rotate, Truncate
  <1>1. HeldBackBounded'
    BY <1>0 DEF TypeInv, HeldBackBounded
  <1>2. /\ content' \in [Files -> Seq(Byte)] /\ newest' \in Files
        /\ written' \in 0..MaxBytes /\ shrunk' \subseteq Files
        /\ \A p \in Files : Len(content'[p]) <= written'
    <2>1. CASE Append1
      <3>1. /\ UNCHANGED <<newest, shrunk>>
            /\ written' = written + 1 /\ written' \in 0..MaxBytes
            /\ content' \in [Files -> Seq(Byte)]
        BY <2>1, AppendAddsOne
      <3>2. \A p \in Files : Len(content'[p]) \in Nat /\ Len(content'[p]) <= Len(content[p]) + 1
        BY <2>1, AppendAddsOne
      <3>3. \A p \in Files : Len(content[p]) \in Nat /\ Len(content[p]) <= written
        BY <1>0 DEF TypeFacts
      <3>4. written \in Nat
        BY <1>0 DEF TypeFacts
      <3> QED BY <3>1, <3>2, <3>3, <3>4 DEF TypeInv, TypeOK
    <2>2. CASE Rotate
      BY <2>2, <1>0 DEF Rotate, TypeInv, TypeOK, SessionShape
    <2>3. CASE Truncate
      <3>1. /\ content' = [content EXCEPT ![newest] = <<>>]
            /\ UNCHANGED <<newest, written>> /\ shrunk' = shrunk \cup {newest}
        BY <2>3 DEF Truncate
      <3>2. <<>> \in Seq(Byte) /\ Len(<<>>) = 0
        OBVIOUS
      <3>3. content' \in [Files -> Seq(Byte)]
        BY <3>1, <3>2, <1>0 DEF TypeFacts
      <3>4. ASSUME NEW p \in Files PROVE Len(content'[p]) <= written'
        <4>1. content'[p] = IF p = newest THEN <<>> ELSE content[p]
          BY <3>1, <1>0 DEF TypeFacts
        <4>2. Len(content[p]) <= written /\ 0 <= written
          BY <1>0 DEF TypeFacts
        <4> QED BY <3>1, <3>2, <4>1, <4>2
      <3> QED BY <3>1, <3>3, <3>4 DEF TypeInv, TypeOK
    <2> QED BY <2>1, <2>2, <2>3 DEF Server
  <1>3. TypeOK'
    BY <1>0, <1>2 DEF TypeInv, TypeOK
  <1>4. SessionShape'
    BY <1>0, <1>2 DEF TypeInv, SessionShape
  <1> QED BY <1>1, <1>3, <1>4 DEF TypeInv

\* Beginning, ending and cancelling a session, and what only moves pc, too.
LEMMA SessionKeepsTypes ==
  ASSUME TypeInv, Open \/ ReadCall \/ Cancel \/ ReadCancelled \/ ListingDone \/ Relist
                  \/ FetchMore \/ QueryFails \/ WaitCancelled \/ Close
  PROVE  TypeInv'
  <1> USE DEF server, store, reader
  <1>0. TypeFacts /\ TypeOK
    BY TypeFactsHold DEF TypeInv
  <1>1. /\ UNCHANGED server
        /\ \A p \in Files : Len(content'[p]) <= written'
    <2>1. UNCHANGED server
      BY DEF Open, ReadCall, Cancel, ReadCancelled, ListingDone, Relist, FetchMore,
             QueryFails, WaitCancelled, Close
    <2> QED BY <2>1 DEF TypeInv, SessionShape
  <1>2. ChunkSize \in Nat \ {0} /\ 0 \in 0..MaxBytes /\ NoFile \in [path : {0} \cup Files, off : 0..MaxBytes]
    BY <1>0 DEF TypeFacts, NoFile
  <1>3. Listed \subseteq [path : Files, size : 0..MaxBytes]
    <2> SUFFICES ASSUME NEW p \in Existing
                 PROVE  p \in Files /\ Len(content[p]) \in 0..MaxBytes
      BY DEF Listed
    <2>1. p \in Files
      BY <1>0, FilesAreNumbers DEF TypeFacts, Existing
    <2>2. Len(content[p]) \in 0..written /\ written \in 0..MaxBytes /\ MaxBytes \in Nat
      BY <1>0, <2>1 DEF TypeFacts
    <2> QED BY <2>1, <2>2
  <1>4. <<>> \in Seq(Byte) /\ Len(<<>>) = 0 /\ <<>> \in Seq(1..MaxBytes) /\ 0 < 3 * ChunkSize
    BY <1>2
  <1>5. CASE Open
    <2>1. /\ offsets' \in [Files -> 0..MaxBytes] /\ tracked' \subseteq Files
          /\ out' \in Seq(1..MaxBytes)
      BY <1>0, <1>2, <1>4, <1>5 DEF Open, TypeFacts
    <2>2. /\ pc' = "idle" /\ follow' \in BOOLEAN /\ listing' = Listed
          /\ cancelled' = FALSE /\ cur' = NoFile /\ pending' = <<>> /\ flush' = FALSE
          /\ failures' = failures
      BY <1>5, RemoteAssumption DEF Open
    <2>3. TypeOK'
      BY <1>0, <1>1, <1>2, <1>3, <1>4, <2>1, <2>2 DEF TypeOK
    <2>4. SessionShape' /\ HeldBackBounded'
      BY <1>1, <1>4, <2>2 DEF SessionShape, HeldBackBounded, NoFile
    <2> QED BY <2>3, <2>4 DEF TypeInv
  <1>6. CASE Close
    <2>1. /\ pc' = "none" /\ follow' = FALSE /\ listing' = {}
          /\ cancelled' = FALSE /\ cur' = NoFile /\ pending' = <<>> /\ flush' = FALSE
          /\ UNCHANGED <<store, failures, out>>
      BY <1>6 DEF Close
    <2>2. TypeOK'
      BY <1>0, <1>1, <1>2, <1>4, <2>1 DEF TypeOK
    <2>3. SessionShape' /\ HeldBackBounded'
      BY <1>1, <1>4, <2>1 DEF SessionShape, HeldBackBounded, NoFile
    <2> QED BY <2>2, <2>3 DEF TypeInv
  <1>7. CASE ReadCall \/ Cancel \/ ReadCancelled \/ ListingDone \/ Relist \/ FetchMore
             \/ QueryFails \/ WaitCancelled
    <2>1. UNCHANGED <<server, store, follow, cur, pending, flush, out>>
      BY <1>7 DEF ReadCall, Cancel, ReadCancelled, ListingDone, Relist, FetchMore,
                  QueryFails, WaitCancelled
    <2>2. /\ pc' \in {"none", "idle", "loop", "fetch", "relist", "ended", "failed"}
          /\ cancelled' \in BOOLEAN /\ listing' \in {listing, Listed}
      BY <1>7, <1>0 DEF ReadCall, Cancel, ReadCancelled, ListingDone, Relist, FetchMore,
                  QueryFails, WaitCancelled, TypeOK
    <2>3. failures' \in 0..MaxFailures
      BY <1>7, <1>0, RemoteAssumption DEF ReadCall, Cancel, ReadCancelled, ListingDone, Relist,
                  FetchMore, QueryFails, WaitCancelled, TypeOK
    <2>4. TypeOK'
      BY <1>0, <1>3, <2>1, <2>2, <2>3 DEF TypeOK
    <2>5. HeldBackBounded'
      BY <2>1 DEF HeldBackBounded, TypeInv
    <2>6. pc' = "fetch" => cur.path # 0 /\ Len(pending) < MaxHeldBack
      <3>1. CASE FetchMore
        BY <3>1, EligibleIs DEF FetchMore
      <3>2. CASE Cancel
        BY <3>2 DEF Cancel, TypeInv, SessionShape
      <3> QED BY <1>7, <3>1, <3>2 DEF ReadCall, ReadCancelled, ListingDone, Relist,
                  QueryFails, WaitCancelled
    <2>7. pc' = "relist" => cur.path = 0 /\ pending = <<>>
      <3>1. CASE ListingDone
        BY <3>1, NothingBetweenFiles DEF ListingDone
      <3>2. CASE Cancel
        BY <3>2 DEF Cancel, TypeInv, SessionShape
      <3> QED BY <1>7, <3>1, <3>2 DEF ReadCall, ReadCancelled, FetchMore, Relist,
                  QueryFails, WaitCancelled
    <2>8. SessionShape'
      BY <1>1, <2>1, <2>6, <2>7 DEF SessionShape, TypeInv
    <2> QED BY <2>4, <2>5, <2>8 DEF TypeInv
  <1> QED BY <1>5, <1>6, <1>7

\* Delivering takes from what is held.
LEMMA DeliverKeepsTypes ==
  ASSUME TypeInv, NEW size \in BufSizes, Deliver(size)
  PROVE  TypeInv'
  <1> DEFINE l == Len(pending)
  <1>0. TypeFacts /\ TypeOK
    BY TypeFactsHold DEF TypeInv
  <1>1. PICK n \in 1..l : Sent(n)
    BY DeliverSends
  <1>2. /\ pending' \in Seq(Byte) /\ Len(pending') = l - n /\ n <= l
        /\ \A i \in 1..(l - n) : pending'[i] = pending[n + i]
        /\ out' \in Seq(1..MaxBytes)
        /\ Record(cur.path, cur.off - (l - n))
    BY <1>1 DEF Sent
  <1>3. /\ pc' = "idle"
        /\ UNCHANGED <<content, newest, written, shrunk, follow, cancelled, cur, listing,
                       flush, failures>>
    BY DEF Deliver, server
  <1>4. l \in Nat /\ cur.off \in 0..MaxBytes /\ MaxBytes \in Nat
    BY <1>0 DEF TypeFacts
  <1> HIDE DEF l
  <1>5. offsets' \in [Files -> 0..MaxBytes] /\ tracked' \subseteq Files
    <2>1. CASE cur.path = 0
      BY <1>0, <1>2, <2>1 DEF Record, store, TypeFacts
    <2>2. CASE cur.path # 0
      <3>1. l <= cur.off
        BY <2>2 DEF TypeInv, SessionShape, l
      <3>2. cur.off - (l - n) \in 0..MaxBytes
        BY <1>2, <1>4, <3>1
      <3>3. cur.path \in {0} \cup Files
        BY <1>0 DEF TypeFacts
      <3> QED BY <1>2, <3>2, <3>3, RecordIs
    <2> QED BY <2>1, <2>2
  <1>6. TypeOK'
    BY <1>0, <1>2, <1>3, <1>5 DEF TypeOK
  <1>7. Len(pending') <= l
    BY <1>2, <1>4
  <1>8. HeldBackBounded'
    <2>1. l < 3 * ChunkSize /\ ChunkSize \in Nat
      BY RemoteAssumption DEF TypeInv, HeldBackBounded, l
    <2> QED BY <1>2, <1>4, <1>7, <2>1 DEF HeldBackBounded
  <1>9. SessionShape'
    <2>1. cur.path # 0 => Len(pending') <= cur.off /\ ~flush
      <3>1. cur.path # 0 => l <= cur.off /\ ~flush
        BY DEF TypeInv, SessionShape, l
      <3> QED BY <3>1, <1>2, <1>4
    <2>2. cur.path = 0 => pending' = <<>> \/ flush \/ pending'[Len(pending')].nl
      <3> SUFFICES ASSUME cur.path = 0, ~flush, Len(pending') # 0
                   PROVE  pending'[Len(pending')].nl
        <4>1. Len(pending') = 0 => pending' = <<>>
          BY <1>2
        <4> QED BY <4>1
      <3>1. l - n \in 1..(l - n) /\ n + (l - n) = l /\ l # 0
        BY <1>2, <1>4
      <3>2. pending[l].nl
        BY <3>1 DEF TypeInv, SessionShape, l
      <3>3. pending'[l - n] = pending[l]
        BY <1>2, <3>1
      <3> QED BY <1>2, <3>2, <3>3
    <2>3. \A p \in Files : Len(content'[p]) <= written'
      BY <1>3 DEF TypeInv, SessionShape
    <2> QED BY <1>3, <2>1, <2>2, <2>3 DEF SessionShape
  <1> QED BY <1>6, <1>8, <1>9 DEF TypeInv

\* Looking at the next file holds nothing.
LEMMA NextFileKeepsTypes ==
  ASSUME TypeInv, NextFile
  PROVE  TypeInv'
  <1>0. TypeFacts /\ TypeOK
    BY TypeFactsHold DEF TypeInv
  <1>1. PICK f \in listing : Looked(f)
    BY NextFileLooks
  <1>2. UNCHANGED <<content, newest, written, shrunk, offsets, tracked, follow, cancelled,
                    pending, failures, out>>
    BY DEF NextFile, server, store
  <1>3. /\ f.path \in Files /\ f.size \in 0..MaxBytes /\ listing' \subseteq listing
        /\ pending = <<>> /\ Len(pending) = 0 /\ cur.path = 0
    BY <1>1 DEF Looked
  <1>4. FoundOffset(f.path) \in 0..MaxBytes /\ 0 \in 0..MaxBytes
    BY <1>0, <1>3 DEF FoundOffset, TypeFacts
  <1>5. \/ UNCHANGED <<pc, cur, flush>>
        \/ /\ cur'.path = f.path /\ cur' \in [path : {0} \cup Files, off : 0..MaxBytes]
           /\ cur'.off \in Nat /\ flush' = FALSE /\ pc' = "fetch"
    <2>1. CASE UNCHANGED <<pc, cur, flush>>
      BY <2>1
    <2>2. CASE ~UNCHANGED <<pc, cur, flush>>
      <3> DEFINE o == IF f.size < FoundOffset(f.path) THEN 0 ELSE FoundOffset(f.path)
      <3>1. cur' = [path |-> f.path, off |-> o] /\ flush' = FALSE /\ pc' = "fetch"
        BY <1>1, <2>2 DEF Looked
      <3>2. o \in 0..MaxBytes /\ o \in Nat
        BY <1>0, <1>4 DEF TypeFacts
      <3> HIDE DEF o
      <3> QED BY <1>3, <3>1, <3>2
    <2> QED BY <2>1, <2>2
  <1>6. TypeOK'
    BY <1>0, <1>2, <1>3, <1>5 DEF TypeOK
  <1>7. HeldBackBounded'
    BY <1>2 DEF TypeInv, HeldBackBounded
  <1>8. SessionShape'
    <2>1. \A p \in Files : Len(content'[p]) <= written'
      BY <1>2 DEF TypeInv, SessionShape
    <2>2. Len(pending') = 0 /\ pending' = <<>> /\ 0 < MaxHeldBack
      BY <1>0, <1>2, <1>3 DEF TypeFacts
    <2>3. CASE UNCHANGED <<pc, cur, flush>>
      BY <1>2, <1>3, <2>1, <2>3 DEF TypeInv, SessionShape
    <2>4. CASE /\ cur'.path = f.path /\ cur'.off \in Nat
               /\ flush' = FALSE /\ pc' = "fetch"
      <3>1. cur'.path # 0 /\ 0 <= cur'.off
        BY <1>3, <2>4, FilesAreNumbers
      <3> QED BY <2>1, <2>2, <2>4, <3>1 DEF SessionShape
    <2> QED BY <1>5, <2>3, <2>4
  <1> QED BY <1>6, <1>7, <1>8 DEF TypeInv

\* A chunk is fetched only while less than two are held back.
LEMMA FetchKeepsTypes ==
  ASSUME TypeInv, Fetch
  PROVE  TypeInv'
  <1> DEFINE l == Len(pending)
  <1>0. TypeFacts /\ TypeOK
    BY TypeFactsHold DEF TypeInv
  <1>1. PICK n \in 0..ChunkSize, bytes \in Seq(Byte) :
          /\ Extended(bytes, n)
          /\ \/ ChunkTaken(bytes, n)
             \/ \E kept \in 0..Len(bytes) : FileEnded(bytes, n, kept)
    BY FetchTakes
  <1>2. /\ pc' = "loop" /\ pc = "fetch"
        /\ UNCHANGED <<content, newest, written, shrunk, follow, cancelled, listing,
                       failures, out>>
    BY DEF Fetch, server
  <1>3. /\ cur.path # 0 /\ cur.path \in Files /\ l < MaxHeldBack /\ l <= cur.off /\ ~flush
    BY <1>0, <1>2 DEF TypeInv, SessionShape, TypeFacts
  <1>4. /\ Len(bytes) = l + n /\ bytes \in Seq(Byte)
        /\ n > 0 => cur.off + n <= Len(content[cur.path])
    BY <1>1 DEF Extended
  <1>5. /\ l \in Nat /\ n \in Nat /\ n <= ChunkSize /\ cur.off \in 0..MaxBytes
        /\ MaxBytes \in Nat /\ ChunkSize \in Nat \ {0} /\ MaxHeldBack = 2 * ChunkSize
        /\ Len(content[cur.path]) \in 0..written /\ written \in 0..MaxBytes
    BY <1>0, <1>3 DEF TypeFacts
  <1> HIDE DEF l
  <1>6. l + n < 3 * ChunkSize /\ cur.off + n \in 0..MaxBytes
    BY <1>3, <1>4, <1>5
  <1>7. \A p \in Files : Len(content'[p]) <= written'
    BY <1>2 DEF TypeInv, SessionShape
  <1>8. CASE ChunkTaken(bytes, n)
    <2>1. /\ pending' = bytes /\ UNCHANGED <<offsets, tracked, flush>>
          /\ cur' = [path |-> cur.path, off |-> cur.off + n]
      BY <1>8 DEF ChunkTaken
    <2>2. cur' \in [path : {0} \cup Files, off : 0..MaxBytes]
      BY <1>3, <1>6, <2>1
    <2>3. TypeOK'
      BY <1>0, <1>2, <1>4, <2>1, <2>2 DEF TypeOK
    <2>4. HeldBackBounded'
      BY <1>4, <1>6, <2>1 DEF HeldBackBounded
    <2>5. Len(pending') <= cur'.off /\ cur'.path = cur.path
      BY <1>3, <1>4, <1>5, <2>1
    <2>6. SessionShape'
      BY <1>2, <1>3, <1>7, <2>1, <2>5 DEF SessionShape
    <2> QED BY <2>3, <2>4, <2>6 DEF TypeInv
  <1>9. CASE \E kept \in 0..Len(bytes) : FileEnded(bytes, n, kept)
    <2>1. PICK kept \in 0..(l + n) : FileEnded(bytes, n, kept)
      BY <1>4, <1>9
    <2>2. /\ kept = IF follow THEN LastNewline(bytes) ELSE l + n
          /\ pending' \in Seq(Byte) /\ Len(pending') = kept
          /\ \A i \in 1..kept : pending'[i] = bytes[i]
          /\ flush' = ~follow /\ cur' = NoFile
          /\ Record(cur.path, (cur.off - l) + kept)
      BY <2>1 DEF FileEnded, l
    <2>3. (cur.off - l) + kept \in 0..MaxBytes
      <3>1. /\ cur.off \in Nat /\ l \in Nat /\ n \in Nat /\ l <= cur.off
            /\ MaxBytes \in Nat /\ cur.off + n <= MaxBytes
        BY <1>3, <1>5, <1>6
      <3>2. kept \in 0..(l + n)
        OBVIOUS
      <3> QED BY <3>1, <3>2
    <2>4. offsets' \in [Files -> 0..MaxBytes] /\ tracked' \subseteq Files
      <3>1. cur.path \in {0} \cup Files
        BY <1>3
      <3> QED BY <2>2, <2>3, <3>1, RecordIs
    <2>5. cur' \in [path : {0} \cup Files, off : 0..MaxBytes] /\ cur'.path = 0
      BY <1>5, <2>2 DEF NoFile
    <2>6. flush' \in BOOLEAN
      BY <2>2
    <2>7. TypeOK'
      BY <1>0, <1>2, <2>2, <2>4, <2>5, <2>6 DEF TypeOK
    <2>8. HeldBackBounded'
      <3>1. kept < 3 * ChunkSize
        BY <1>5, <1>6
      <3> QED BY <2>2, <3>1 DEF HeldBackBounded
    <2>9. pending' = <<>> \/ flush' \/ pending'[Len(pending')].nl
      <3> SUFFICES ASSUME follow, kept # 0 PROVE pending'[kept].nl
        <4>1. kept = 0 => pending' = <<>>
          BY <2>2
        <4> QED BY <1>0, <2>2, <4>1 DEF TypeFacts
      <3>1. kept = LastNewline(bytes) /\ kept > 0 /\ kept \in 1..kept
        BY <2>2, <1>5
      <3>2. bytes[kept].nl
        BY <1>4, <3>1, LastNewlineIs
      <3> QED BY <2>2, <3>1, <3>2
    <2>10. SessionShape'
      BY <1>2, <1>7, <2>5, <2>9 DEF SessionShape
    <2> QED BY <2>7, <2>8, <2>10 DEF TypeInv
  <1> QED BY <1>1, <1>8, <1>9

\* The strengthened type invariant holds of every behaviour.
LEMMA TypeInvHolds == Spec => []TypeInv
  <1>1. Init => TypeInv
    <2> SUFFICES ASSUME Init PROVE TypeInv
      OBVIOUS
    <2>1. MaxBytes \in Nat /\ MaxFailures \in Nat /\ 1 \in Files /\ ChunkSize \in Nat \ {0}
      BY RemoteAssumption
    <2>2. /\ <<>> \in Seq(Byte) /\ Len(<<>>) = 0 /\ <<>> \in Seq(1..MaxBytes)
          /\ 0 \in 0..MaxBytes /\ 0 \in 0..MaxFailures /\ 0 < 3 * ChunkSize
      BY <2>1
    <2>3. TypeOK
      BY <2>1, <2>2 DEF Init, TypeOK, NoFile
    <2>4. SessionShape /\ HeldBackBounded
      BY <2>2 DEF Init, SessionShape, HeldBackBounded, NoFile
    <2> QED BY <2>3, <2>4 DEF TypeInv
  <1>2. TypeInv /\ [Next]_vars => TypeInv'
    <2> SUFFICES ASSUME TypeInv, [Next]_vars PROVE TypeInv'
      OBVIOUS
    <2>1. CASE UNCHANGED vars
      <3>1. UNCHANGED <<content, newest, written, shrunk, offsets, tracked, pc, follow,
                        cancelled, listing, cur, pending, flush, failures, out>>
        BY <2>1 DEF vars, server, store, reader
      <3>2. TypeOK'
        BY <3>1 DEF TypeInv, TypeOK
      <3>3. SessionShape' /\ HeldBackBounded'
        BY <3>1 DEF TypeInv, SessionShape, HeldBackBounded
      <3> QED BY <3>2, <3>3 DEF TypeInv
    <2>2. CASE Server
      BY <2>2, ServerKeepsTypes
    <2>3. CASE Open \/ ReadCall \/ Cancel \/ ReadCancelled \/ ListingDone \/ Relist
               \/ FetchMore \/ QueryFails \/ WaitCancelled \/ Close
      BY <2>3, SessionKeepsTypes
    <2>4. CASE \E size \in BufSizes : Deliver(size)
      BY <2>4, DeliverKeepsTypes
    <2>5. CASE NextFile
      BY <2>5, NextFileKeepsTypes
    <2>6. CASE Fetch
      BY <2>6, FetchKeepsTypes
    <2> QED BY <2>1, <2>2, <2>3, <2>4, <2>5, <2>6 DEF Next, ReadStep
  <1> QED BY <1>1, <1>2, PTL DEF Spec

(***************************************************************************)
(* The remote reader is type correct, for any number of files and bytes    *)
(* and any chunk size, whatever the server does and whatever fails: no     *)
(* offset it stores exceeds what was written.                              *)
(***************************************************************************)
THEOREM RemoteTypeCorrect == Spec => []TypeOK
  <1>1. TypeInv => TypeOK
    BY DEF TypeInv
  <1> QED BY <1>1, TypeInvHolds, PTL

(***************************************************************************)
(* PERF-026: the reader never holds three chunks, whatever the length of   *)
(* the lines, of the chunks and of the caller's slices.                    *)
(***************************************************************************)
THEOREM ReaderHoldsLittle == Spec => []HeldBackBounded
  <1>1. TypeInv => HeldBackBounded
    BY DEF TypeInv
  <1> QED BY <1>1, TypeInvHolds, PTL
-----------------------------------------------------------------------------
(***************************************************************************)
(* The bytes, whatever the server truncates: they are numbered in the      *)
(* order of writing, and what was delivered or is held was written.        *)
(***************************************************************************)
BytesAreNumbered ==
  /\ \A p \in Files : \A k \in 1..Len(content[p]) : content[p][k].id \in 1..written
  /\ \A p \in Files : \A k, m \in 1..Len(content[p]) :
       k < m => content[p][k].id < content[p][m].id
  /\ \A p, q \in Files : \A k \in 1..Len(content[p]) : \A m \in 1..Len(content[q]) :
       content[p][k].id = content[q][m].id => p = q

BytesAreWritten ==
  /\ \A i \in 1..Len(out) : out[i] \in 1..written
  /\ \A i \in 1..Len(pending) : pending[i].id \in 1..written

BytesInv == TypeInv /\ BytesAreNumbered /\ BytesAreWritten

\* A number is found in one place only.
LEMMA OnePlaceEach ==
  ASSUME BytesInv, NEW p \in Files, NEW q \in Files,
         NEW k \in 1..Len(content[p]), NEW m \in 1..Len(content[q]),
         content[p][k].id = content[q][m].id
  PROVE  p = q /\ k = m
  <1>1. p = q
    BY DEF BytesInv, BytesAreNumbered
  <1>2. Len(content[p]) \in Nat /\ written \in Nat
    BY TypeFactsHold DEF BytesInv, TypeFacts
  <1>3. content[p][k].id \in 1..written /\ content[p][m].id \in 1..written
    BY <1>1 DEF BytesInv, BytesAreNumbered
  <1>4. ~(k < m) /\ ~(m < k)
    BY <1>1, <1>2, <1>3 DEF BytesInv, BytesAreNumbered
  <1> QED BY <1>1, <1>2, <1>4

\* The server numbers what it writes and truncates nothing else.
LEMMA ServerKeepsBytes ==
  ASSUME BytesInv, Server, TypeInv'
  PROVE  BytesInv'
  <1>0. TypeFacts /\ UNCHANGED <<pending, out>>
    BY TypeFactsHold DEF BytesInv, Server, Append1, Rotate, Truncate, reader
  <1>1. CASE Append1
    <2>1. written' = written + 1 /\ written \in Nat
      BY <1>0, <1>1, AppendAddsOne DEF BytesInv, TypeFacts
    <2>2. ASSUME NEW p \in Files, NEW k \in 1..Len(content'[p])
          PROVE  \/ /\ k \in 1..Len(content[p]) /\ content'[p][k] = content[p][k]
                    /\ content[p][k].id \in 1..written
                 \/ /\ k = Len(content'[p]) /\ p = newest
                    /\ content'[p][k].id = written + 1
      <3>1. /\ Len(content[p]) \in Nat /\ Len(content'[p]) \in Nat
            /\ \A j \in 1..Len(content[p]) : content'[p][j] = content[p][j]
            /\ \A j \in 1..Len(content'[p]) : j > Len(content[p]) =>
                 /\ j = Len(content'[p]) /\ p = newest
                 /\ content'[p][j].id = written + 1
        BY <1>1, AppendAddsOne DEF BytesInv
      <3>2. CASE k > Len(content[p])
        BY <3>1, <3>2
      <3>3. CASE ~(k > Len(content[p]))
        <4>1. k \in 1..Len(content[p])
          BY <3>1, <3>3
        <4> QED BY <3>1, <4>1 DEF BytesInv, BytesAreNumbered
      <3> QED BY <3>2, <3>3
    <2>3. ASSUME NEW p \in Files, NEW k \in 1..Len(content'[p])
          PROVE  content'[p][k].id \in 1..written'
      BY <2>1, <2>2
    <2>4. ASSUME NEW p \in Files, NEW k \in 1..Len(content'[p]),
                 NEW m \in 1..Len(content'[p]), k < m
          PROVE  content'[p][k].id < content'[p][m].id
      <3>1. k # Len(content'[p])
        <4>1. Len(content'[p]) \in Nat
          BY <1>1, AppendAddsOne DEF BytesInv
        <4> QED BY <4>1, <2>4
      <3>2. /\ k \in 1..Len(content[p]) /\ content'[p][k] = content[p][k]
            /\ content[p][k].id \in 1..written
        BY <2>2, <3>1
      <3>3. CASE m \in 1..Len(content[p]) /\ content'[p][m] = content[p][m]
        BY <2>4, <3>2, <3>3 DEF BytesInv, BytesAreNumbered
      <3>4. CASE content'[p][m].id = written + 1
        BY <2>1, <3>2, <3>4
      <3> QED BY <2>2, <3>3, <3>4
    <2>5. ASSUME NEW p \in Files, NEW q \in Files, NEW k \in 1..Len(content'[p]),
                 NEW m \in 1..Len(content'[q]), content'[p][k].id = content'[q][m].id
          PROVE  p = q
      <3>1. CASE content'[p][k].id = written + 1
        <4>1. ~(content'[q][m].id \in 1..written) /\ ~(content'[p][k].id \in 1..written)
          BY <2>1, <2>5, <3>1
        <4>2. p = newest /\ q = newest
          BY <2>2, <4>1
        <4> QED BY <4>2
      <3>2. CASE content'[p][k].id # written + 1
        <4>1. /\ k \in 1..Len(content[p]) /\ content'[p][k] = content[p][k]
              /\ m \in 1..Len(content[q]) /\ content'[q][m] = content[q][m]
          BY <2>2, <2>5, <3>2
        <4> QED BY <2>5, <4>1 DEF BytesInv, BytesAreNumbered
      <3> QED BY <3>1, <3>2
    <2>6. BytesAreNumbered'
      BY <2>3, <2>4, <2>5 DEF BytesAreNumbered
    <2>7. \A i : i \in 1..written => i \in 1..written'
      BY <2>1
    <2>8. BytesAreWritten'
      BY <1>0, <2>7 DEF BytesInv, BytesAreWritten
    <2> QED BY <2>6, <2>8 DEF BytesInv
  <1>2. CASE Rotate \/ Truncate
    <2>1. written' = written
      BY <1>2 DEF Rotate, Truncate
    <2>2. \A p \in Files : content'[p] = content[p] \/ Len(content'[p]) = 0
      BY <1>0, <1>2 DEF Rotate, Truncate, TypeFacts
    <2>3. \A p \in Files : \A k \in 1..Len(content'[p]) : content'[p] = content[p]
      BY <2>2
    <2>4. BytesAreNumbered'
      BY <2>1, <2>3 DEF BytesInv, BytesAreNumbered
    <2>5. BytesAreWritten'
      BY <1>0, <2>1 DEF BytesInv, BytesAreWritten
    <2> QED BY <2>4, <2>5 DEF BytesInv
  <1> QED BY <1>1, <1>2 DEF Server

\* The reader takes written bytes and hands on what it took.
LEMMA ReaderKeepsBytes ==
  ASSUME BytesInv, TypeInv',
         Open \/ ReadCall \/ ReadStep \/ QueryFails \/ Cancel \/ Close
  PROVE  BytesInv'
  <1>0. TypeFacts /\ TypeInv
    BY TypeFactsHold DEF BytesInv
  <1>1. UNCHANGED <<content, written>>
    BY DEF server, Open, ReadCall, ReadStep, QueryFails, Cancel, Close, ReadCancelled,
           Deliver, NextFile, ListingDone, Relist, FetchMore, Fetch, WaitCancelled
  <1>2. BytesAreNumbered'
    BY <1>1 DEF BytesInv, BytesAreNumbered
  <1>3. BytesAreWritten'
    <2>1. CASE \E size \in BufSizes : Deliver(size)
      <3>1. PICK n \in 1..Len(pending) : Sent(n)
        BY <1>0, <2>1, DeliverSends
      <3> DEFINE l == Len(pending)
                 m == Len(out)
      <3>2. /\ n \in 1..l /\ Len(pending') = l - n
            /\ \A i \in 1..(l - n) : pending'[i] = pending[n + i]
            /\ Len(out') = m + n
            /\ \A i \in 1..m : out'[i] = out[i]
            /\ \A i \in 1..n : out'[m + i] = pending[i].id
        BY <3>1 DEF Sent
      <3>3. l \in Nat /\ m \in Nat
        BY <1>0 DEF TypeFacts
      <3>4. /\ \A i \in 1..l : pending[i].id \in 1..written
            /\ \A i \in 1..m : out[i] \in 1..written
        BY DEF BytesInv, BytesAreWritten
      <3> HIDE DEF l, m
      <3>5. ASSUME NEW i \in 1..(m + n) PROVE out'[i] \in 1..written
        <4>1. CASE i <= m
          <5>1. i \in 1..m
            BY <3>3, <4>1
          <5> QED BY <5>1, <3>2, <3>4
        <4>2. CASE ~(i <= m)
          <5>1. i - m \in 1..n /\ i - m \in 1..l /\ m + (i - m) = i
            BY <3>2, <3>3, <4>2
          <5>2. out'[m + (i - m)] = pending[i - m].id
            BY <5>1, <3>2
          <5> QED BY <5>1, <5>2, <3>4
        <4> QED BY <4>1, <4>2
      <3>6. ASSUME NEW i \in 1..(l - n) PROVE pending'[i].id \in 1..written
        <4>1. n + i \in 1..l
          BY <3>2, <3>3
        <4> QED BY <4>1, <3>2, <3>4
      <3> QED BY <1>1, <3>2, <3>5, <3>6 DEF BytesAreWritten
    <2>2. CASE Fetch
      <3>1. PICK n \in 0..ChunkSize, bytes \in Seq(Byte) :
              /\ Extended(bytes, n)
              /\ \/ ChunkTaken(bytes, n)
                 \/ \E kept \in 0..Len(bytes) : FileEnded(bytes, n, kept)
        BY <1>0, <2>2, FetchTakes
      <3>2. \A i \in 1..Len(bytes) : bytes[i].id \in 1..written
        <4> SUFFICES ASSUME NEW i \in 1..Len(bytes) PROVE bytes[i].id \in 1..written
          OBVIOUS
        <4> DEFINE l == Len(pending)
        <4>1. /\ Len(bytes) = l + n /\ l \in Nat /\ n \in Nat /\ cur.off \in Nat
              /\ \A j \in 1..l : bytes[j] = pending[j]
              /\ \A j \in 1..n : bytes[l + j] = content[cur.path][cur.off + j]
              /\ n > 0 => cur.off + n <= Len(content[cur.path])
              /\ cur.path \in Files /\ Len(content[cur.path]) \in Nat
          <5>1. cur.path \in Files
            BY <1>0, <2>2 DEF TypeFacts, Fetch, TypeInv, SessionShape
          <5>2. l \in Nat /\ cur.off \in Nat /\ Len(content[cur.path]) \in Nat /\ n \in Nat
            BY <1>0, <5>1 DEF TypeFacts
          <5>3. Extended(bytes, n)
            BY <3>1
          <5> QED BY <5>1, <5>2, <5>3 DEF Extended
        <4>2. \A j \in 1..l : pending[j].id \in 1..written
          BY DEF BytesInv, BytesAreWritten
        <4> HIDE DEF l
        <4>3. CASE i \in 1..l
          BY <4>1, <4>2, <4>3
        <4>4. CASE i - l \in 1..n /\ l + (i - l) = i
          <5>1. cur.off + (i - l) \in 1..Len(content[cur.path])
            <6>1. /\ i - l \in 1..n /\ cur.off \in Nat /\ n \in Nat
                  /\ Len(content[cur.path]) \in Nat
                  /\ n > 0 => cur.off + n <= Len(content[cur.path])
              BY <4>1, <4>4
            <6> QED BY <6>1
          <5>2. bytes[l + (i - l)] = content[cur.path][cur.off + (i - l)]
            BY <4>1, <4>4
          <5> QED BY <4>1, <4>4, <5>1, <5>2 DEF BytesInv, BytesAreNumbered
        <4>5. i \in 1..l \/ (i - l \in 1..n /\ l + (i - l) = i)
          BY <4>1
        <4> QED BY <4>3, <4>4, <4>5
      <3>3. \A i \in 1..Len(pending') : i \in 1..Len(bytes) /\ pending'[i] = bytes[i]
        <4>1. CASE ChunkTaken(bytes, n)
          BY <4>1 DEF ChunkTaken
        <4>2. CASE \E kept \in 0..Len(bytes) : FileEnded(bytes, n, kept)
          <5>1. PICK kept \in 0..Len(bytes) : FileEnded(bytes, n, kept)
            BY <4>2
          <5>2. Len(pending') = kept /\ \A i \in 1..kept : pending'[i] = bytes[i]
            BY <5>1 DEF FileEnded
          <5>3. \A i \in 1..kept : i \in 1..Len(bytes)
            BY <5>1
          <5> QED BY <5>2, <5>3
        <4> QED BY <3>1, <4>1, <4>2
      <3>4. out' = out
        BY <2>2 DEF Fetch
      <3> QED BY <1>1, <3>2, <3>3, <3>4 DEF BytesInv, BytesAreWritten
    <2>3. CASE Open \/ Close
      <3>1. pending' = <<>> /\ (out' = out \/ out' = <<>>)
        BY <2>3 DEF Open, Close
      <3>2. /\ \A i \in 1..Len(pending') : FALSE
            /\ out' = out \/ \A i \in 1..Len(out') : FALSE
        BY <3>1
      <3> QED BY <1>1, <3>2 DEF BytesInv, BytesAreWritten
    <2>4. CASE UNCHANGED <<pending, out>>
      BY <1>1, <2>4 DEF BytesInv, BytesAreWritten
    <2> QED BY <2>1, <2>2, <2>3, <2>4 DEF ReadCall, ReadStep, QueryFails, Cancel,
              ReadCancelled, NextFile, ListingDone, Relist, FetchMore, WaitCancelled
  <1> QED BY <1>2, <1>3 DEF BytesInv

\* The bytes are numbered in every behaviour.
LEMMA BytesInvHolds == Spec => []BytesInv
  <1>1. Init => BytesAreNumbered /\ BytesAreWritten
    <2> SUFFICES ASSUME Init PROVE BytesAreNumbered /\ BytesAreWritten
      OBVIOUS
    <2>1. Len(out) = 0 /\ Len(pending) = 0 /\ \A p \in Files : Len(content[p]) = 0
      BY DEF Init
    <2> QED BY <2>1 DEF BytesAreNumbered, BytesAreWritten
  <1>2. BytesInv /\ [Next]_vars /\ TypeInv' => BytesInv'
    <2> SUFFICES ASSUME BytesInv, [Next]_vars, TypeInv' PROVE BytesInv'
      OBVIOUS
    <2>1. CASE UNCHANGED vars
      <3>1. UNCHANGED <<content, written, pending, out>>
        BY <2>1 DEF vars, server, reader
      <3>2. BytesAreNumbered' /\ BytesAreWritten'
        BY <3>1 DEF BytesInv, BytesAreNumbered, BytesAreWritten
      <3> QED BY <3>2 DEF BytesInv
    <2>2. CASE Server
      BY <2>2, ServerKeepsBytes
    <2>3. CASE Open \/ ReadCall \/ ReadStep \/ QueryFails \/ Cancel \/ Close
      BY <2>3, ReaderKeepsBytes
    <2> QED BY <2>1, <2>2, <2>3 DEF Next
  <1>3. BytesInv <=> TypeInv /\ (BytesAreNumbered /\ BytesAreWritten)
    BY DEF BytesInv
  <1> QED BY <1>1, <1>2, <1>3, TypeInvHolds, PTL DEF Spec
-----------------------------------------------------------------------------
(***************************************************************************)
(* The stream, whatever the server truncates, as long as the store         *)
(* remembers: it is the caller's, or the fallback of a follower in a       *)
(* directory with fewer files than the fallback has entries.               *)
(***************************************************************************)
Remembers ==
  CallerOffsets \/ (FollowModes = {TRUE} /\ Cardinality(Files) < MaxTracked)

HasTheStore == pc # "none" => HasStore(follow)

\* What is held was not delivered, and is in the order of writing.
HeldIsNew ==
  /\ \A i \in 1..Len(pending) : pending[i].id \notin Delivered
  /\ \A i, j \in 1..Len(pending) : i < j => pending[i].id < pending[j].id

IsNew(b) == b.id \notin Delivered
Held(b)  == \E i \in 1..Len(pending) : pending[i].id = b.id
Fresh(b) == IsNew(b) /\ ~Held(b)

\* Bytes beyond the offset of a file, and all those of a file that is shorter
\* than its offset, are new; they are held only while the file is open.
BeyondOffsetIsNew ==
  \A p \in Files : \A k \in 1..Len(content[p]) :
    k > offsets[p] \/ Len(content[p]) < offsets[p] =>
      IsNew(content[p][k]) /\ (cur.path = p \/ ~Held(content[p][k]))

\* A file that was listed with less than its offset was truncated: what it
\* holds now was written since then.
ShrunkSinceListed ==
  /\ \A f, g \in listing : f.path = g.path => f = g
  /\ \A f \in listing : f.path # cur.path
  /\ \A f \in listing : f.size < offsets[f.path] =>
       \A k \in 1..Len(content[f.path]) : Fresh(content[f.path][k])

\* Of the open file everything behind the bytes delivered of it is new, and
\* all of it when it is shorter than what was fetched of it.  A byte of it that
\* is held is where the handle fetched it.
HeldFrom == cur.off - Len(pending)

BeyondHandleIsNew ==
  cur.path # 0 =>
    /\ Len(content[cur.path]) < cur.off =>
         \A k \in 1..Len(content[cur.path]) : Fresh(content[cur.path][k])
    /\ \A k \in 1..Len(content[cur.path]) : k > HeldFrom =>
         /\ IsNew(content[cur.path][k])
         /\ \A i \in 1..Len(pending) :
              pending[i].id = content[cur.path][k].id => k = HeldFrom + i
    /\ \A k \in 1..Len(content[cur.path]) : k > cur.off =>
         \A i \in 1..Len(pending) : pending[i].id < content[cur.path][k].id

StreamInv ==
  /\ BytesInv
  /\ HasTheStore
  /\ HeldIsNew
  /\ BeyondOffsetIsNew
  /\ ShrunkSinceListed
  /\ BeyondHandleIsNew

\* The listing has each file once, with its length.
LEMMA ListedIs ==
  ASSUME TypeInv
  PROVE  /\ \A f \in Listed : f.path \in Files /\ f.size = Len(content[f.path])
         /\ \A f, g \in Listed : f.path = g.path => f = g
  <1>1. \A p \in Existing : p \in Files
    BY TypeFactsHold, FilesAreNumbers DEF TypeFacts, Existing
  <1> QED BY <1>1 DEF Listed

\* The listing names files, with lengths.
LEMMA ListingTyped ==
  ASSUME TypeInv
  PROVE  \A f \in listing : f.path \in Files /\ f.size \in Nat
  <1>1. listing \subseteq [path : Files, size : 0..MaxBytes] /\ MaxBytes \in Nat
    BY TypeFactsHold DEF TypeInv, TypeOK, TypeFacts
  <1> QED BY <1>1

\* Calling, cancelling, failing and listing between two files hand over nothing.
LEMMA QuietKeepsStream ==
  ASSUME StreamInv, BytesInv', UNCHANGED <<content, offsets, cur, pending, out>>,
         listing' = listing \/ (listing' = Listed /\ cur.path = 0 /\ pending = <<>>),
         HasTheStore'
  PROVE  StreamInv'
  <1> USE DEF StreamInv, BytesInv
  <1>1. HeldIsNew'
    BY DEF HeldIsNew, Delivered
  <1>2. BeyondOffsetIsNew'
    BY DEF BeyondOffsetIsNew, IsNew, Held, Delivered
  <1>3. BeyondHandleIsNew'
    BY DEF BeyondHandleIsNew, HeldFrom, Fresh, IsNew, Held, Delivered
  <1>4. ShrunkSinceListed'
    <2>1. CASE listing' = listing
      BY <2>1 DEF ShrunkSinceListed, Fresh, IsNew, Held, Delivered
    <2>2. CASE listing' = Listed /\ cur.path = 0 /\ pending = <<>>
      <3>1. \A i \in 1..Len(pending) : FALSE
        BY <2>2
      <3>2. \A f \in Listed : f.path # 0
        BY ListedIs, FilesAreNumbers
      <3>3. ASSUME NEW f \in Listed, f.size < offsets[f.path],
                   NEW k \in 1..Len(content[f.path])
            PROVE  Fresh(content[f.path][k])'
        <4>1. IsNew(content[f.path][k])
          BY <3>3, ListedIs DEF BeyondOffsetIsNew
        <4> QED BY <3>1, <4>1 DEF Fresh, IsNew, Held, Delivered
      <3> QED BY <2>2, <3>2, <3>3, ListedIs DEF ShrunkSinceListed
    <2> QED BY <2>1, <2>2
  <1> QED BY <1>1, <1>2, <1>3, <1>4

\* A session begins and ends with nothing held; one that begins with a new
\* store begins a new stream.
LEMMA SessionKeepsStream ==
  ASSUME StreamInv, Remembers, BytesInv', Open \/ Close
  PROVE  StreamInv'
  <1> USE DEF StreamInv, BytesInv
  <1>1. /\ UNCHANGED content /\ pending' = <<>> /\ cur' = NoFile
        /\ listing' = Listed \/ listing' = {}
        /\ UNCHANGED <<offsets, out>> \/ (out' = <<>> /\ offsets' = [p \in Files |-> 0])
    BY DEF Open, Close, server, store
  <1>2. /\ \A i \in 1..Len(pending') : FALSE
        /\ cur'.path = 0
        /\ Delivered' \subseteq Delivered
        /\ offsets' = offsets \/ Delivered' = {}
    <2>1. out' = out \/ Len(out') = 0
      BY <1>1
    <2>2. Len(pending') = 0
      BY <1>1
    <2> QED BY <1>1, <2>1, <2>2 DEF Delivered, NoFile
  <1>3. HasTheStore'
    BY DEF Open, Close, HasTheStore, HasStore, Remembers
  <1>4. HeldIsNew'
    BY <1>2 DEF HeldIsNew
  <1>5. BeyondHandleIsNew'
    BY <1>2 DEF BeyondHandleIsNew
  <1>6. ASSUME NEW p \in Files, NEW k \in 1..Len(content[p]),
               k > offsets'[p] \/ Len(content[p]) < offsets'[p]
        PROVE  Fresh(content[p][k])'
    <2>1. ~Held(content[p][k])'
      BY <1>2 DEF Held
    <2>2. CASE Delivered' = {}
      BY <1>1, <2>1, <2>2 DEF Fresh, IsNew
    <2>3. CASE offsets' = offsets
      <3>1. IsNew(content[p][k])
        BY <1>6, <2>3 DEF BeyondOffsetIsNew
      <3> QED BY <1>1, <1>2, <2>1, <3>1 DEF Fresh, IsNew
    <2> QED BY <1>2, <2>2, <2>3
  <1>7. BeyondOffsetIsNew'
    BY <1>1, <1>6 DEF BeyondOffsetIsNew, Fresh
  <1>8. ShrunkSinceListed'
    <2>1. \A f \in listing' : f \in Listed
      BY <1>1
    <2>2. \A f \in Listed : f.path # 0
      BY ListedIs, FilesAreNumbers
    <2>3. ASSUME NEW f \in listing', f.size < offsets'[f.path],
                 NEW k \in 1..Len(content[f.path])
          PROVE  Fresh(content[f.path][k])'
      BY <1>6, <2>1, <2>3, ListedIs
    <2> QED BY <1>1, <1>2, <2>1, <2>2, <2>3, ListedIs DEF ShrunkSinceListed
  <1> QED BY <1>3, <1>4, <1>5, <1>7, <1>8

\* What the server writes is new; what it truncates is gone.
LEMMA ServerKeepsStream ==
  ASSUME StreamInv, BytesInv', Server
  PROVE  StreamInv'
  <1> USE DEF StreamInv, BytesInv
  <1>0. TypeFacts /\ UNCHANGED <<offsets, pc, follow, listing, cur, pending, out>>
    BY TypeFactsHold DEF Server, Append1, Rotate, Truncate, store, reader
  <1>1. HasTheStore' /\ HeldIsNew' /\ Delivered' = Delivered
    BY <1>0 DEF HasTheStore, HasStore, HeldIsNew, Delivered
  <1>2. ASSUME NEW p \in Files, NEW k \in 1..Len(content'[p])
        PROVE  \/ /\ k \in 1..Len(content[p]) /\ content'[p][k] = content[p][k]
                  /\ Len(content[p]) <= Len(content'[p])
               \/ /\ k > Len(content[p]) /\ Fresh(content[p][k])'
                  /\ \A i \in 1..Len(pending) : pending[i].id < content'[p][k].id
    <2>1. CASE Append1
      <3>1. /\ Len(content[p]) \in Nat /\ Len(content'[p]) \in Nat
            /\ Len(content[p]) <= Len(content'[p])
            /\ \A j \in 1..Len(content[p]) : content'[p][j] = content[p][j]
            /\ \A j \in 1..Len(content'[p]) : j > Len(content[p]) =>
                 content'[p][j].id = written + 1
        BY <2>1, AppendAddsOne
      <3>2. /\ \A i \in 1..Len(pending) : pending[i].id \in 1..written
            /\ \A n \in Delivered : n \in 1..written
        BY DEF BytesAreWritten, Delivered
      <3>3. CASE k > Len(content[p])
        <4>1. content'[p][k].id = written + 1 /\ written \in Nat
          BY <1>0, <3>1, <3>3 DEF TypeFacts
        <4>2. /\ \A i \in 1..Len(pending) : pending[i].id < written + 1
              /\ \A i \in 1..Len(pending) : pending[i].id # written + 1
              /\ written + 1 \notin Delivered
          BY <3>2, <4>1
        <4> QED BY <1>0, <1>1, <3>3, <4>1, <4>2 DEF Fresh, IsNew, Held
      <3>4. CASE ~(k > Len(content[p]))
        <4>1. k \in 1..Len(content[p])
          BY <3>1, <3>4
        <4> QED BY <3>1, <4>1
      <3> QED BY <3>3, <3>4
    <2>2. CASE Rotate \/ Truncate
      <3>1. content'[p] = content[p] \/ Len(content'[p]) = 0
        BY <1>0, <2>2 DEF Rotate, Truncate, TypeFacts
      <3>2. content'[p] = content[p] /\ Len(content[p]) \in Nat
        BY <1>0, <3>1 DEF TypeFacts
      <3> QED BY <3>2
    <2> QED BY <2>1, <2>2 DEF Server
  <1>3. ASSUME NEW p \in Files, NEW k \in 1..Len(content'[p]), k \in 1..Len(content[p]),
               content'[p][k] = content[p][k]
        PROVE  /\ IsNew(content[p][k]) => IsNew(content[p][k])'
               /\ ~Held(content[p][k]) => ~Held(content[p][k])'
    BY <1>0, <1>1, <1>3 DEF IsNew, Held
  <1>4. \A p \in Files : Len(content[p]) \in Nat /\ offsets[p] \in Nat
    BY <1>0 DEF TypeFacts
  <1>5. BeyondOffsetIsNew'
    <2> SUFFICES ASSUME NEW p \in Files, NEW k \in 1..Len(content'[p]),
                        k > offsets[p] \/ Len(content'[p]) < offsets[p]
                 PROVE  /\ IsNew(content[p][k])'
                        /\ cur.path = p \/ ~Held(content[p][k])'
      BY <1>0 DEF BeyondOffsetIsNew
    <2>1. CASE /\ k \in 1..Len(content[p]) /\ content'[p][k] = content[p][k]
               /\ Len(content[p]) <= Len(content'[p])
      <3>1. k > offsets[p] \/ Len(content[p]) < offsets[p]
        <4>1. Len(content'[p]) \in Nat
          BY <1>0
        <4> QED BY <1>4, <2>1, <4>1
      <3> QED BY <1>3, <2>1, <3>1 DEF BeyondOffsetIsNew
    <2>2. CASE Fresh(content[p][k])'
      BY <2>2 DEF Fresh
    <2> QED BY <1>2, <2>1, <2>2
  <1>6. ShrunkSinceListed'
    <2> SUFFICES ASSUME NEW f \in listing, f.size < offsets[f.path],
                        NEW k \in 1..Len(content'[f.path])
                 PROVE  Fresh(content[f.path][k])'
      BY <1>0 DEF ShrunkSinceListed
    <2>1. f.path \in Files
      BY DEF TypeInv, TypeOK
    <2> QED BY <1>2, <1>3, <2>1 DEF ShrunkSinceListed, Fresh
  <1>7. BeyondHandleIsNew'
    <2> SUFFICES ASSUME cur.path # 0 PROVE BeyondHandleIsNew'
      BY <1>0 DEF BeyondHandleIsNew
    <2> DEFINE c == cur.path
    <2>1. c \in Files /\ HeldFrom' = HeldFrom
      BY <1>0 DEF TypeFacts, HeldFrom
    <2>2. ASSUME NEW k \in 1..Len(content'[c]), Len(content'[c]) < cur.off
          PROVE  Fresh(content[c][k])'
      <3>1. CASE /\ k \in 1..Len(content[c]) /\ content'[c][k] = content[c][k]
                 /\ Len(content[c]) <= Len(content'[c])
        <4>1. Len(content[c]) < cur.off
          <5>1. Len(content[c]) \in Nat /\ cur.off \in Nat
            BY <1>0, <1>4, <2>1 DEF TypeFacts
          <5>2. Len(content'[c]) \in Nat
            BY <1>0
          <5> QED BY <2>2, <3>1, <5>1, <5>2
        <4> QED BY <1>0, <1>3, <2>1, <3>1, <4>1 DEF BeyondHandleIsNew, Fresh
      <3> QED BY <1>0, <1>2, <2>1, <3>1
    <2>3. ASSUME NEW k \in 1..Len(content'[c]), k > HeldFrom
          PROVE  /\ IsNew(content[c][k])'
                 /\ \A i \in 1..Len(pending) :
                      pending[i].id = content'[c][k].id => k = HeldFrom + i
      <3>1. CASE k \in 1..Len(content[c]) /\ content'[c][k] = content[c][k]
        BY <1>0, <1>3, <2>1, <2>3, <3>1 DEF BeyondHandleIsNew
      <3>2. CASE Fresh(content[c][k])'
        BY <1>0, <3>2 DEF Fresh, Held
      <3> QED BY <1>0, <1>2, <2>1, <3>1, <3>2
    <2>4. ASSUME NEW k \in 1..Len(content'[c]), k > cur.off
          PROVE  \A i \in 1..Len(pending) : pending[i].id < content'[c][k].id
      <3>1. CASE k \in 1..Len(content[c]) /\ content'[c][k] = content[c][k]
        BY <2>4, <3>1 DEF BeyondHandleIsNew
      <3> QED BY <1>2, <2>1, <3>1
    <2> QED BY <1>0, <2>1, <2>2, <2>3, <2>4 DEF BeyondHandleIsNew
  <1> QED BY <1>1, <1>5, <1>6, <1>7

\* While the store remembers, a store call moves the offset of its path alone.
LEMMA RecordMoves ==
  ASSUME TypeInv, HasTheStore, Remembers, pc # "none",
         NEW p \in {0} \cup Files, NEW o \in 0..MaxBytes, Record(p, o)
  PROVE  \A q \in Files : offsets'[q] = IF q = p THEN o ELSE offsets[q]
  <1>1. CallerOffsets \/ Cardinality(tracked) < MaxTracked
    <2>1. tracked \subseteq Files /\ IsFiniteSet(Files) /\ Cardinality(Files) \in Nat
      BY RemoteAssumption, FilesAreNumbers DEF TypeInv, TypeOK
    <2>2. Cardinality(tracked) \in Nat /\ Cardinality(tracked) <= Cardinality(Files)
      BY <2>1, FS_Subset, FS_CardinalityType
    <2>3. CallerOffsets \/ Cardinality(Files) < MaxTracked
      BY DEF Remembers
    <2>4. MaxTracked \in Nat
      BY RemoteAssumption
    <2> QED BY <2>1, <2>2, <2>3, <2>4
  <1>2. HasStore(follow)
    BY DEF HasTheStore
  <1>3. /\ p = 0 \/ ~HasStore(follow) => UNCHANGED store
        /\ HasStore(follow) /\ p # 0 => offsets'[p] = o
        /\ CallerOffsets \/ Cardinality(tracked) < MaxTracked =>
             \A q \in Files : q # p => offsets'[q] = offsets[q]
    BY RecordIs
  <1>4. \A q \in Files : q = p => q # 0
    BY FilesAreNumbers
  <1> QED BY <1>1, <1>2, <1>3, <1>4

\* What is new and not held stays so when held bytes go out.
LEMMA SentLeavesFresh ==
  ASSUME TypeInv, NEW n \in 1..Len(pending), Sent(n), NEW b
  PROVE  /\ Fresh(b) => b.id \notin Delivered' /\ \A i \in 1..Len(pending') : pending'[i].id # b.id
         /\ ~Held(b) => \A i \in 1..Len(pending') : pending'[i].id # b.id
         /\ \A i \in 1..Len(pending') : n + i \in 1..Len(pending) /\ pending'[i] = pending[n + i]
  <1>1. /\ Len(pending') = Len(pending) - n
        /\ \A i \in 1..(Len(pending) - n) : pending'[i] = pending[n + i]
        /\ Delivered' = Delivered \cup {pending[i].id : i \in 1..n}
    BY DEF Sent
  <1>2. Len(pending) \in Nat
    BY TypeFactsHold DEF TypeFacts
  <1>3. \A i \in 1..Len(pending') : n + i \in 1..Len(pending) /\ pending'[i] = pending[n + i]
    BY <1>1, <1>2
  <1>4. \A i \in 1..n : i \in 1..Len(pending)
    BY <1>2
  <1>5. ~Held(b) => \A i \in 1..Len(pending') : pending'[i].id # b.id
    BY <1>3 DEF Held
  <1>6. Fresh(b) => b.id \notin Delivered'
    BY <1>1, <1>4 DEF Fresh, IsNew, Held
  <1> QED BY <1>3, <1>5, <1>6 DEF Fresh

(***************************************************************************)
(* Delivering moves the offset over exactly the bytes delivered.           *)
(***************************************************************************)
LEMMA DeliverKeepsStream ==
  ASSUME StreamInv, Remembers, BytesInv', NEW size \in BufSizes, Deliver(size)
  PROVE  StreamInv'
  <1> USE DEF StreamInv, BytesInv
  <1> DEFINE l == Len(pending)
             c == cur.path
  <1>0. TypeFacts
    BY TypeFactsHold
  <1>1. PICK n \in 1..l : Sent(n)
    BY DeliverSends
  <1>3. /\ UNCHANGED <<content, written, follow, listing, cur>> /\ pc = "loop" /\ pc' = "idle"
    BY DEF Deliver, server
  <1>4. /\ Len(pending') = l - n /\ n <= l
        /\ \A i \in 1..(l - n) : pending'[i] = pending[n + i]
        /\ Delivered' = Delivered \cup {pending[i].id : i \in 1..n}
        /\ Record(c, cur.off - (l - n))
    BY <1>1 DEF Sent
  <1>5. l \in Nat /\ cur.off \in Nat /\ cur.off <= MaxBytes /\ MaxBytes \in Nat
    BY <1>0 DEF TypeFacts
  <1>6. c # 0 => l <= cur.off
    BY DEF TypeInv, SessionShape
  <1>7. /\ \A i \in 1..l : pending[i].id \in 1..written /\ pending[i].id \notin Delivered
        /\ \A i, j \in 1..l : i < j => pending[i].id < pending[j].id
    BY DEF HeldIsNew, BytesAreWritten
  <1>8. /\ \A b : Fresh(b) => b.id \notin Delivered' /\ \A i \in 1..Len(pending') : pending'[i].id # b.id
        /\ \A b : ~Held(b) => \A i \in 1..Len(pending') : pending'[i].id # b.id
    BY <1>1, SentLeavesFresh
  <1>9. \A q \in Files : offsets'[q] = IF q = c THEN cur.off - (l - n) ELSE offsets[q]
    <2>1. CASE c = 0
      <3>1. UNCHANGED offsets
        BY <1>4, <2>1 DEF Record, store
      <3> QED BY <2>1, <3>1, FilesAreNumbers
    <2>2. CASE c # 0
      <3>1. cur.off - (l - n) \in 0..MaxBytes
        <4> HIDE DEF l
        <4> QED BY <1>4, <1>5, <1>6, <2>2
      <3>2. c \in {0} \cup Files
        BY <1>0 DEF TypeFacts
      <3> HIDE DEF c, l
      <3> QED BY <1>3, <1>4, <3>1, <3>2, RecordMoves
    <2> QED BY <2>1, <2>2
  <1> HIDE DEF l, c
  <1>10. \A i \in 1..(l - n) : n + i \in 1..l
    BY <1>4, <1>5
  <1>11. HasTheStore'
    BY <1>3 DEF HasTheStore
  <1>12. HeldIsNew'
    <2>1. ASSUME NEW i \in 1..(l - n) PROVE pending'[i].id \notin Delivered'
      <3>1. n + i \in 1..l /\ pending'[i] = pending[n + i]
        BY <1>4, <1>10
      <3>2. ASSUME NEW j \in 1..n PROVE pending[j].id # pending[n + i].id
        <4>1. j \in 1..l /\ j < n + i
          BY <1>5, <3>1
        <4>2. pending[j].id < pending[n + i].id
          BY <1>7, <3>1, <4>1
        <4>3. pending[j].id \in 1..written /\ pending[n + i].id \in 1..written
          BY <1>7, <3>1, <4>1
        <4> QED BY <4>2, <4>3
      <3> QED BY <3>1, <3>2, <1>4, <1>7
    <2>2. ASSUME NEW i \in 1..(l - n), NEW j \in 1..(l - n), i < j
          PROVE  pending'[i].id < pending'[j].id
      <3>1. n + i < n + j
        BY <1>5, <2>2
      <3> QED BY <3>1, <1>4, <1>7, <1>10
    <2> QED BY <2>1, <2>2, <1>4 DEF HeldIsNew
  <1>13. ASSUME c # 0, NEW k \in 1..Len(content[c]), k > HeldFrom + n
         PROVE  content[c][k].id \notin Delivered'
    <2>1. c \in Files /\ HeldFrom \in Int /\ k > HeldFrom /\ k \in Int
      <3>1. c \in Files
        BY <1>0, <1>13 DEF TypeFacts, c
      <3>2. HeldFrom \in Int
        BY <1>0, <1>5 DEF TypeFacts, HeldFrom, c, l
      <3>3. k \in Int /\ k > HeldFrom + n /\ n \in Nat
        BY <1>0, <1>5, <1>13 DEF TypeFacts, c, l
      <3> QED BY <3>1, <3>2, <3>3
    <2>2. /\ content[c][k].id \notin Delivered
          /\ \A i \in 1..l : pending[i].id = content[c][k].id => k = HeldFrom + i
      BY <1>13, <2>1 DEF BeyondHandleIsNew, IsNew, c, l
    <2>3. \A i \in 1..n : i \in 1..l /\ k # HeldFrom + i
      BY <1>4, <1>5, <1>13, <2>1
    <2> QED BY <1>4, <2>2, <2>3
  <1>14. c # 0 => offsets'[c] = HeldFrom + n /\ HeldFrom' = HeldFrom + n
    <2>1. c # 0 => c \in Files
      BY <1>0 DEF TypeFacts, c
    <2> QED BY <1>3, <1>4, <1>5, <1>9, <2>1 DEF HeldFrom, l
  <1>15. c # 0 => HeldFrom + n <= cur.off /\ HeldFrom \in Nat /\ HeldFrom = cur.off - l
    <2>1. c # 0 => l <= cur.off
      BY <1>6
    <2>2. HeldFrom = cur.off - l
      BY DEF HeldFrom, l
    <2> QED BY <2>1, <2>2, <1>4, <1>5
  <1>16. BeyondOffsetIsNew'
    <2> SUFFICES ASSUME NEW p \in Files, NEW k \in 1..Len(content[p]),
                        k > offsets'[p] \/ Len(content[p]) < offsets'[p]
                 PROVE  /\ content[p][k].id \notin Delivered'
                        /\ cur.path = p \/ \A i \in 1..Len(pending') : pending'[i].id # content[p][k].id
      BY <1>3 DEF BeyondOffsetIsNew, IsNew, Held
    <2>1. CASE p # c
      <3>1. Fresh(content[p][k])
        BY <1>9, <2>1 DEF BeyondOffsetIsNew, Fresh, c
      <3> QED BY <3>1, <1>8
    <2>2. CASE p = c
      <3>1. c # 0 /\ offsets'[c] = HeldFrom + n
        BY <2>2, <1>14, FilesAreNumbers
      <3>2. CASE k > HeldFrom + n
        BY <1>13, <2>2, <3>1, <3>2 DEF c
      <3>3. CASE Len(content[p]) < HeldFrom + n
        <4>1. Len(content[p]) < cur.off
          <5>1. Len(content[p]) \in Nat
            BY <1>0 DEF TypeFacts
          <5> QED BY <1>5, <1>15, <3>1, <3>3, <5>1
        <4>2. Fresh(content[p][k])
          BY <2>2, <3>1, <4>1 DEF BeyondHandleIsNew, c
        <4> QED BY <4>2, <1>8, <2>2 DEF c
      <3> QED BY <2>2, <3>1, <3>2, <3>3
    <2> QED BY <2>1, <2>2
  <1>17. ShrunkSinceListed'
    <2>1. ASSUME NEW f \in listing, f.size < offsets'[f.path],
                 NEW k \in 1..Len(content[f.path])
          PROVE  Fresh(content[f.path][k])'
      <3>1. f.path \in Files /\ f.path # c
        BY DEF TypeInv, TypeOK, ShrunkSinceListed, c
      <3>2. Fresh(content[f.path][k])
        BY <1>9, <2>1, <3>1 DEF ShrunkSinceListed
      <3> QED BY <3>2, <1>3, <1>8 DEF Fresh, IsNew, Held
    <2> QED BY <1>3, <2>1 DEF ShrunkSinceListed
  <1>18. BeyondHandleIsNew'
    <2> SUFFICES ASSUME c # 0 PROVE BeyondHandleIsNew'
      BY <1>3 DEF BeyondHandleIsNew, c
    <2>1. ASSUME NEW k \in 1..Len(content[c]), Len(content[c]) < cur.off
          PROVE  Fresh(content[c][k])'
      <3>1. Fresh(content[c][k])
        BY <2>1 DEF BeyondHandleIsNew, c
      <3> QED BY <3>1, <1>3, <1>8 DEF Fresh, IsNew, Held, c
    <2>2. ASSUME NEW k \in 1..Len(content[c]), k > HeldFrom + n
          PROVE  /\ content[c][k].id \notin Delivered'
                 /\ \A i \in 1..(l - n) :
                      pending'[i].id = content[c][k].id => k = (HeldFrom + n) + i
      <3>1. k > HeldFrom
        BY <1>15, <2>2
      <3>2. \A i \in 1..l : pending[i].id = content[c][k].id => k = HeldFrom + i
        BY <3>1, <2>2 DEF BeyondHandleIsNew, c, l
      <3>3. \A i \in 1..(l - n) : HeldFrom + (n + i) = (HeldFrom + n) + i
        BY <1>4, <1>5, <1>15
      <3> QED BY <1>4, <1>10, <1>13, <2>2, <3>2, <3>3
    <2>3. ASSUME NEW k \in 1..Len(content[c]), k > cur.off
          PROVE  \A i \in 1..(l - n) : pending'[i].id < content[c][k].id
      BY <1>4, <1>10, <2>3 DEF BeyondHandleIsNew, c, l
    <2> QED BY <1>3, <1>4, <1>14, <2>1, <2>2, <2>3 DEF BeyondHandleIsNew, IsNew, c
  <1> QED BY <1>11, <1>12, <1>16, <1>17, <1>18

(***************************************************************************)
(* The file looked at next is opened where everything behind is new.       *)
(***************************************************************************)
LEMMA NextFileKeepsStream ==
  ASSUME StreamInv, BytesInv', NextFile
  PROVE  StreamInv'
  <1> USE DEF StreamInv, BytesInv
  <1>0. TypeFacts
    BY TypeFactsHold
  <1>1. PICK f \in listing : Looked(f)
    BY NextFileLooks
  <1>2. UNCHANGED <<content, offsets, follow, pending, out>> /\ pc = "loop"
    BY DEF NextFile, server, store
  <1>3. /\ f.path \in Files /\ listing' = listing \ {f}
        /\ pending = <<>> /\ cur.path = 0
        /\ cur' = cur \/ cur' = [path |-> f.path,
                                 off  |-> IF f.size < FoundOffset(f.path) THEN 0
                                          ELSE FoundOffset(f.path)]
    BY <1>1 DEF Looked
  <1>4. Len(pending) = 0 /\ (\A i \in 1..Len(pending) : FALSE) /\ \A b : ~Held(b)
    <2>1. Len(pending) = 0
      BY <1>3
    <2> QED BY <2>1 DEF Held
  <1>5. FoundOffset(f.path) = offsets[f.path]
    BY <1>2 DEF FoundOffset, HasTheStore
  <1>6. HasTheStore'
    BY <1>2 DEF HasTheStore
  <1>7. HeldIsNew'
    BY <1>2 DEF HeldIsNew, Delivered
  <1>8. \A b : ~(\E i \in 1..Len(pending') : pending'[i].id = b.id)
    BY <1>2, <1>4
  <1>9. BeyondOffsetIsNew'
    BY <1>2, <1>8 DEF BeyondOffsetIsNew, IsNew, Held, Delivered
  <1>10. ShrunkSinceListed'
    <2>1. cur'.path = 0 \/ cur'.path = f.path
      BY <1>3
    <2>2. \A g \in listing' : g \in listing /\ g.path # f.path /\ g.path # 0
      BY <1>3 DEF ShrunkSinceListed
    <2>3. ASSUME NEW g \in listing', g.size < offsets[g.path],
                 NEW k \in 1..Len(content[g.path])
          PROVE  Fresh(content[g.path][k])'
      <3>1. Fresh(content[g.path][k])
        BY <2>2, <2>3 DEF ShrunkSinceListed
      <3> QED BY <3>1, <1>2 DEF Fresh, IsNew, Held, Delivered
    <2>4. \A g, h \in listing' : g.path = h.path => g = h
      BY <2>2 DEF ShrunkSinceListed
    <2> QED BY <1>2, <2>1, <2>2, <2>3, <2>4 DEF ShrunkSinceListed
  <1>11. BeyondHandleIsNew'
    <2>1. CASE cur' = cur
      BY <1>3, <2>1 DEF BeyondHandleIsNew
    <2>2. CASE cur' # cur
      <3> DEFINE p == f.path
                 o == IF f.size < offsets[p] THEN 0 ELSE offsets[p]
      <3>1. cur'.path = p /\ cur'.off = o
        BY <1>3, <1>5, <2>2
      <3>2. o \in Nat /\ HeldFrom' = o /\ offsets[p] \in Nat /\ Len(content[p]) \in Nat
        <4>1. offsets[p] \in Nat /\ Len(content[p]) \in Nat
          BY <1>0, <1>3 DEF TypeFacts
        <4>2. o \in Nat
          BY <4>1
        <4>3. Len(pending') = 0
          BY <1>2, <1>4
        <4> HIDE DEF o
        <4> QED BY <3>1, <4>1, <4>2, <4>3 DEF HeldFrom
      <3>3. ASSUME NEW k \in 1..Len(content[p]), k > o PROVE IsNew(content[p][k])
        <4>1. CASE f.size < offsets[p]
          BY <4>1, <1>3 DEF ShrunkSinceListed, Fresh
        <4>2. CASE ~(f.size < offsets[p])
          BY <3>3, <4>2, <1>3 DEF BeyondOffsetIsNew
        <4> QED BY <4>1, <4>2
      <3>4. ASSUME NEW k \in 1..Len(content[p]), Len(content[p]) < o
            PROVE  IsNew(content[p][k])
        <4>1. o = offsets[p]
          BY <3>2, <3>4
        <4> QED BY <4>1, <3>4, <1>3 DEF BeyondOffsetIsNew
      <3> HIDE DEF p, o
      <3>5. Delivered' = Delivered
        BY <1>2 DEF Delivered
      <3>6. \A k \in 1..Len(content[p]) : k > o \/ Len(content[p]) < o => content[p][k].id \notin Delivered'
        BY <3>3, <3>4, <3>5 DEF IsNew
      <3> QED BY <1>2, <1>8, <3>1, <3>2, <3>6 DEF BeyondHandleIsNew, Fresh, IsNew, Held
    <2> QED BY <2>1, <2>2
  <1> QED BY <1>6, <1>7, <1>9, <1>10, <1>11

(***************************************************************************)
(* What a fetch adds to the bytes held is new, was written after them, and *)
(* is where the handle says.                                               *)
(***************************************************************************)
LEMMA FetchedIsNew ==
  ASSUME StreamInv, cur.path # 0, NEW n \in 0..ChunkSize, NEW bytes \in Seq(Byte),
         Extended(bytes, n)
  PROVE  /\ \A i \in 1..Len(bytes) : bytes[i].id \notin Delivered
         /\ \A i, j \in 1..Len(bytes) : i < j => bytes[i].id < bytes[j].id
         /\ \A i \in 1..Len(bytes) : \A k \in 1..Len(content[cur.path]) :
              k > HeldFrom /\ bytes[i].id = content[cur.path][k].id => k = HeldFrom + i
         /\ \A i \in 1..Len(bytes) : \A k \in 1..Len(content[cur.path]) :
              k > cur.off + n => bytes[i].id < content[cur.path][k].id
         /\ \A q \in Files : q # cur.path => \A k \in 1..Len(content[q]) :
              ~Held(content[q][k]) => \A i \in 1..Len(bytes) : bytes[i].id # content[q][k].id
         /\ n = 0 => \A b : ~Held(b) => \A i \in 1..Len(bytes) : bytes[i].id # b.id
  <1> USE DEF StreamInv, BytesInv
  <1> DEFINE l == Len(pending)
             c == cur.path
             f == content[c]
  <1>0. TypeFacts
    BY TypeFactsHold
  <1>1. /\ c \in Files /\ f \in Seq(Byte) /\ Len(f) \in Nat /\ l \in Nat /\ n \in Nat
        /\ cur.off \in Nat /\ l <= cur.off /\ HeldFrom = cur.off - l /\ written \in Nat
    BY <1>0 DEF TypeFacts, HeldFrom, TypeInv, SessionShape
  <1>2. /\ Len(bytes) = l + n
        /\ \A i \in 1..l : bytes[i] = pending[i]
        /\ \A i \in 1..n : bytes[l + i] = f[cur.off + i]
        /\ n > 0 => cur.off + n <= Len(f)
    BY DEF Extended
  <1>3. /\ \A i \in 1..l : pending[i].id \in 1..written /\ pending[i].id \notin Delivered
        /\ \A i, j \in 1..l : i < j => pending[i].id < pending[j].id
    BY DEF HeldIsNew, BytesAreWritten
  <1>4. /\ \A k \in 1..Len(f) : k > HeldFrom => f[k].id \notin Delivered
        /\ \A k \in 1..Len(f) : k > HeldFrom =>
             \A i \in 1..l : pending[i].id = f[k].id => k = HeldFrom + i
        /\ \A k \in 1..Len(f) : k > cur.off => \A i \in 1..l : pending[i].id < f[k].id
    BY DEF BeyondHandleIsNew, IsNew
  <1>5. /\ \A k \in 1..Len(f) : f[k].id \in 1..written
        /\ \A k, m \in 1..Len(f) : k < m => f[k].id < f[m].id
    BY <1>1 DEF BytesAreNumbered
  <1>6. \A b : ~Held(b) => \A i \in 1..l : pending[i].id # b.id
    BY DEF Held
  <1>7. \A k, m \in 1..Len(f) : f[k].id = f[m].id => k = m
    BY <1>1, OnePlaceEach
  <1>8. \A q \in Files : q # c => \A k \in 1..Len(content[q]) : \A m \in 1..Len(f) :
          f[m].id # content[q][k].id
    BY <1>1 DEF BytesAreNumbered
  <1> HIDE DEF l, c, f
  <1>9. ASSUME NEW i \in 1..Len(bytes)
        PROVE  \/ i \in 1..l /\ bytes[i] = pending[i]
               \/ /\ n > 0 /\ i > l /\ HeldFrom + i \in 1..Len(f)
                  /\ HeldFrom + i > cur.off /\ HeldFrom + i <= cur.off + n
                  /\ HeldFrom + i > HeldFrom
                  /\ bytes[i] = f[HeldFrom + i]
    <2>1. CASE i <= l
      <3>1. i \in 1..l
        BY <1>1, <2>1
      <3> QED BY <3>1, <1>2
    <2>2. CASE ~(i <= l)
      <3>1. /\ i - l \in 1..n /\ l + (i - l) = i /\ n > 0 /\ i > l
            /\ cur.off + (i - l) = HeldFrom + i
        BY <1>1, <1>2, <2>2
      <3>2. bytes[l + (i - l)] = f[cur.off + (i - l)]
        BY <1>2, <3>1
      <3>3. /\ HeldFrom + i \in 1..Len(f) /\ HeldFrom + i > cur.off
            /\ HeldFrom + i <= cur.off + n /\ HeldFrom + i > HeldFrom
        <4>1. /\ cur.off \in Nat /\ n \in Nat /\ l \in Nat /\ HeldFrom \in Int
              /\ Len(f) \in Nat /\ HeldFrom = cur.off - l
          BY <1>1
        <4>2. n > 0 => cur.off + n <= Len(f)
          BY <1>2
        <4>3. i \in Nat \ {0}
          BY <1>2, <4>1
        <4> QED BY <3>1, <4>1, <4>2, <4>3
      <3> QED BY <3>1, <3>2, <3>3
    <2> QED BY <2>1, <2>2
  <1>10. ASSUME NEW i \in 1..Len(bytes) PROVE bytes[i].id \notin Delivered
    BY <1>3, <1>4, <1>9
  <1>11. ASSUME NEW i \in 1..Len(bytes), NEW j \in 1..Len(bytes), i < j
         PROVE  bytes[i].id < bytes[j].id
    <2>1. CASE j \in 1..l /\ bytes[j] = pending[j]
      <3>1. i \in 1..l
        BY <1>1, <1>11, <2>1
      <3> QED BY <1>2, <1>3, <1>11, <2>1, <3>1
    <2>2. CASE /\ HeldFrom + j \in 1..Len(f) /\ HeldFrom + j > cur.off
               /\ bytes[j] = f[HeldFrom + j]
      <3>1. CASE i \in 1..l /\ bytes[i] = pending[i]
        BY <1>4, <2>2, <3>1
      <3>2. CASE HeldFrom + i \in 1..Len(f) /\ bytes[i] = f[HeldFrom + i]
        <4>1. HeldFrom + i < HeldFrom + j
          BY <1>1, <1>2, <1>11
        <4> QED BY <1>5, <2>2, <3>2, <4>1
      <3> QED BY <1>9, <3>1, <3>2
    <2> QED BY <1>9, <2>1, <2>2
  <1>12. ASSUME NEW i \in 1..Len(bytes), NEW k \in 1..Len(f), k > HeldFrom,
                bytes[i].id = f[k].id
         PROVE  k = HeldFrom + i
    BY <1>4, <1>7, <1>9, <1>12
  <1>13. ASSUME NEW i \in 1..Len(bytes), NEW k \in 1..Len(f), k > cur.off + n
         PROVE  bytes[i].id < f[k].id
    <2>1. CASE i \in 1..l /\ bytes[i] = pending[i]
      <3>1. k > cur.off
        BY <1>1, <1>13
      <3> QED BY <1>4, <2>1, <3>1
    <2>2. CASE /\ HeldFrom + i \in 1..Len(f) /\ HeldFrom + i <= cur.off + n
               /\ bytes[i] = f[HeldFrom + i]
      <3>1. HeldFrom + i < k
        <4>1. HeldFrom + i \in Int /\ cur.off + n \in Int /\ k \in Int
          BY <1>1, <2>2
        <4> QED BY <1>13, <2>2, <4>1
      <3> QED BY <1>5, <2>2, <3>1
    <2> QED BY <1>9, <2>1, <2>2
  <1>14. ASSUME NEW q \in Files, q # c, NEW k \in 1..Len(content[q]),
                ~Held(content[q][k]), NEW i \in 1..Len(bytes)
         PROVE  bytes[i].id # content[q][k].id
    BY <1>6, <1>8, <1>9, <1>14
  <1>15. ASSUME n = 0, NEW b, ~Held(b), NEW i \in 1..Len(bytes)
         PROVE  bytes[i].id # b.id
    BY <1>6, <1>9, <1>15
  <1> QED BY <1>10, <1>11, <1>12, <1>13, <1>14, <1>15 DEF c, f

(***************************************************************************)
(* Fetching: a file that stays open holds more of itself; one that ends    *)
(* leaves its offset behind what is held of it.                            *)
(***************************************************************************)
LEMMA FetchKeepsStream ==
  ASSUME StreamInv, Remembers, BytesInv', Fetch
  PROVE  StreamInv'
  <1> USE DEF StreamInv, BytesInv
  <1> DEFINE l == Len(pending)
             c == cur.path
             f == content[c]
  <1>0. TypeFacts
    BY TypeFactsHold
  <1>1. PICK n \in 0..ChunkSize, bytes \in Seq(Byte) :
          /\ Extended(bytes, n)
          /\ \/ ChunkTaken(bytes, n)
             \/ \E kept \in 0..Len(bytes) : FileEnded(bytes, n, kept)
    BY FetchTakes
  <1>2. UNCHANGED <<content, follow, listing, out>> /\ pc = "fetch" /\ pc' = "loop"
    BY DEF Fetch, server
  <1>3. /\ c \in Files /\ c # 0 /\ f \in Seq(Byte) /\ Len(f) \in Nat /\ l \in Nat /\ n \in Nat
        /\ n <= ChunkSize /\ ChunkSize \in Nat \ {0}
        /\ cur.off \in Nat /\ cur.off <= MaxBytes /\ MaxBytes \in Nat
        /\ l <= cur.off /\ HeldFrom = cur.off - l
        /\ Len(f) <= written /\ written <= MaxBytes /\ written \in Nat
    <2>1. c \in Files /\ c # 0 /\ l <= cur.off
      BY <1>0, <1>2 DEF TypeFacts, TypeInv, SessionShape
    <2> QED BY <1>0, <2>1 DEF TypeFacts, HeldFrom
  <1>4. /\ Len(bytes) = l + n
        /\ n > 0 => cur.off + n <= Len(f)
    BY <1>1 DEF Extended
  <1>5. /\ \A i \in 1..Len(bytes) : bytes[i].id \notin Delivered
        /\ \A i, j \in 1..Len(bytes) : i < j => bytes[i].id < bytes[j].id
        /\ \A i \in 1..Len(bytes) : \A k \in 1..Len(f) :
             k > HeldFrom /\ bytes[i].id = f[k].id => k = HeldFrom + i
        /\ \A i \in 1..Len(bytes) : \A k \in 1..Len(f) :
             k > cur.off + n => bytes[i].id < f[k].id
        /\ \A q \in Files : q # c => \A k \in 1..Len(content[q]) :
             ~Held(content[q][k]) => \A i \in 1..Len(bytes) : bytes[i].id # content[q][k].id
        /\ n = 0 => \A b : ~Held(b) => \A i \in 1..Len(bytes) : bytes[i].id # b.id
    <2>1. cur.path # 0 /\ Extended(bytes, n)
      BY <1>1, <1>3
    <2> QED BY <2>1, FetchedIsNew
  <1>6. Delivered' = Delivered /\ HasTheStore'
    BY <1>2 DEF Delivered, HasTheStore
  <1>7. /\ Len(pending') <= Len(bytes) /\ Len(pending') \in Nat
        /\ \A i \in 1..Len(pending') : i \in 1..Len(bytes) /\ pending'[i] = bytes[i]
    <2>1. CASE ChunkTaken(bytes, n)
      BY <2>1, <1>3, <1>4 DEF ChunkTaken
    <2>2. CASE \E kept \in 0..Len(bytes) : FileEnded(bytes, n, kept)
      <3>1. PICK kept \in 0..Len(bytes) : FileEnded(bytes, n, kept)
        BY <2>2
      <3>2. Len(pending') = kept /\ \A i \in 1..kept : pending'[i] = bytes[i]
        BY <3>1 DEF FileEnded
      <3> QED BY <3>2, <1>3, <1>4
    <2> QED BY <1>1, <2>1, <2>2
  <1>8. HeldIsNew'
    BY <1>5, <1>6, <1>7 DEF HeldIsNew
  <1>9. listing' = listing /\ \A g \in listing : g.path \in Files /\ g.path # c
    BY <1>2 DEF ShrunkSinceListed, TypeInv, TypeOK
  <1> HIDE DEF l, c, f
  <1>10. ASSUME NEW q \in Files, q # c, NEW k \in 1..Len(content[q]), Fresh(content[q][k])
         PROVE  Fresh(content[q][k])'
    <2>1. \A i \in 1..Len(bytes) : bytes[i].id # content[q][k].id
      BY <1>5, <1>10 DEF Fresh
    <2> QED BY <1>2, <1>6, <1>7, <1>10, <2>1 DEF Fresh, IsNew, Held
  <1>11. CASE ChunkTaken(bytes, n)
    <2>1. /\ pending' = bytes /\ offsets' = offsets /\ n = ChunkSize
          /\ cur' = [path |-> c, off |-> cur.off + n]
      BY <1>11 DEF ChunkTaken, c
    <2>2. cur'.path = c /\ cur'.off = cur.off + n /\ HeldFrom' = HeldFrom
      BY <2>1, <1>3, <1>4 DEF HeldFrom
    <2>3. BeyondOffsetIsNew'
      <3> SUFFICES ASSUME NEW p \in Files, NEW k \in 1..Len(content[p]),
                          k > offsets[p] \/ Len(content[p]) < offsets[p]
                   PROVE  IsNew(content[p][k])' /\ (c = p \/ ~Held(content[p][k])')
        BY <1>2, <2>1, <2>2 DEF BeyondOffsetIsNew
      <3>1. IsNew(content[p][k]) /\ (c = p \/ ~Held(content[p][k]))
        BY DEF BeyondOffsetIsNew, c
      <3>2. CASE c = p
        BY <1>2, <1>6, <3>1, <3>2 DEF IsNew
      <3>3. CASE c # p
        BY <1>10, <3>1, <3>3 DEF Fresh
      <3> QED BY <3>2, <3>3
    <2>4. ShrunkSinceListed'
      <3>1. ASSUME NEW g \in listing, g.size < offsets[g.path],
                   NEW k \in 1..Len(content[g.path])
            PROVE  Fresh(content[g.path][k])'
        <4>1. Fresh(content[g.path][k])
          BY <3>1 DEF ShrunkSinceListed
        <4> QED BY <1>9, <1>10, <4>1
      <3> QED BY <1>2, <1>9, <2>1, <2>2, <3>1 DEF ShrunkSinceListed
    <2>5. BeyondHandleIsNew'
      <3>1. ~(Len(f) < cur.off + n)
        BY <1>3, <1>4, <2>1
      <3>2. ASSUME NEW k \in 1..Len(f), k > HeldFrom
            PROVE  /\ f[k].id \notin Delivered
                   /\ \A i \in 1..Len(bytes) : bytes[i].id = f[k].id => k = HeldFrom + i
        BY <1>5, <3>2, <1>3 DEF BeyondHandleIsNew, IsNew, c, f
      <3>3. \A k \in 1..Len(f) : k > cur.off + n =>
              \A i \in 1..Len(bytes) : bytes[i].id < f[k].id
        BY <1>5
      <3>4. f = content'[cur'.path]
        BY <1>2, <2>2 DEF f
      <3> QED BY <1>6, <2>1, <2>2, <3>1, <3>2, <3>3, <3>4 DEF BeyondHandleIsNew, IsNew
    <2> QED BY <1>6, <1>8, <2>3, <2>4, <2>5
  <1>12. CASE \E kept \in 0..Len(bytes) : FileEnded(bytes, n, kept)
    <2>1. PICK kept \in 0..Len(bytes) : FileEnded(bytes, n, kept)
      BY <1>12
    <2>2. /\ cur'.path = 0 /\ Len(pending') = kept
          /\ Record(c, (cur.off - l) + kept)
      BY <2>1 DEF FileEnded, NoFile, c, l
    <2>3. HeldFrom + kept \in 0..MaxBytes /\ HeldFrom \in Nat /\ kept \in Nat
          /\ (cur.off - l) + kept = HeldFrom + kept /\ HeldFrom + kept <= cur.off + n
      <3>1. kept \in Nat /\ kept <= l + n
        BY <1>3, <1>4
      <3>2. cur.off + n <= MaxBytes
        BY <1>3, <1>4
      <3>3. /\ HeldFrom \in Nat /\ HeldFrom = cur.off - l
            /\ cur.off \in Nat /\ l \in Nat /\ n \in Nat /\ MaxBytes \in Nat
        BY <1>3
      <3> QED BY <3>1, <3>2, <3>3
    <2>4. \A q \in Files : offsets'[q] = IF q = c THEN HeldFrom + kept ELSE offsets[q]
      <3>1. Record(c, HeldFrom + kept) /\ c \in {0} \cup Files
        BY <1>3, <2>2, <2>3
      <3> QED BY <1>2, <2>3, <3>1, RecordMoves
    <2>5. BeyondOffsetIsNew'
      <3> SUFFICES ASSUME NEW p \in Files, NEW k \in 1..Len(content[p]),
                          k > offsets'[p] \/ Len(content[p]) < offsets'[p]
                   PROVE  Fresh(content[p][k])'
        BY <1>2 DEF BeyondOffsetIsNew, Fresh
      <3>1. CASE p # c
        <4>1. Fresh(content[p][k])
          BY <2>4, <3>1 DEF BeyondOffsetIsNew, Fresh, c
        <4> QED BY <1>10, <3>1, <4>1
      <3>2. CASE p = c /\ k > HeldFrom + kept
        <4>1. k > HeldFrom /\ k \in 1..Len(f) /\ content[p][k] = f[k]
          BY <2>3, <3>2 DEF f
        <4>2. f[k].id \notin Delivered
          BY <1>3, <4>1 DEF BeyondHandleIsNew, IsNew, f, c
        <4>3. \A i \in 1..kept : i \in 1..Len(bytes) /\ k # HeldFrom + i
          BY <2>3, <3>2
        <4>4. \A i \in 1..kept : pending'[i].id # f[k].id
          BY <1>5, <1>7, <2>2, <4>1, <4>3
        <4> QED BY <1>2, <1>6, <2>2, <4>1, <4>2, <4>4 DEF Fresh, IsNew, Held
      <3>3. CASE p = c /\ Len(content[p]) < HeldFrom + kept
        <4>1. n = 0 /\ Len(f) < cur.off /\ content[p] = f
          <5>1. content[p] = f /\ Len(f) < HeldFrom + kept
            BY <3>3 DEF f
          <5>2. Len(f) < cur.off + n
            <6>1. Len(f) \in Nat
              BY <1>3
            <6>2. HeldFrom + kept \in Nat /\ HeldFrom + kept <= cur.off + n
              BY <2>3
            <6>3. cur.off + n \in Nat
              <7>1. cur.off \in Nat /\ n \in Nat
                BY <1>3
              <7> QED BY <7>1
            <6> QED BY <5>1, <6>1, <6>2, <6>3
          <5>3. n = 0
            BY <5>2, <1>3, <1>4
          <5> QED BY <5>1, <5>2, <5>3, <1>3
        <4>2. Fresh(content[p][k])
          BY <1>3, <3>3, <4>1 DEF BeyondHandleIsNew, f, c
        <4>3. \A i \in 1..Len(bytes) : bytes[i].id # content[p][k].id
          BY <1>5, <4>1, <4>2 DEF Fresh
        <4> QED BY <1>2, <1>6, <1>7, <4>2, <4>3 DEF Fresh, IsNew, Held
      <3> QED BY <2>4, <3>1, <3>2, <3>3
    <2>6. ShrunkSinceListed'
      <3>1. ASSUME NEW g \in listing, g.size < offsets'[g.path],
                   NEW k \in 1..Len(content[g.path])
            PROVE  Fresh(content[g.path][k])'
        <4>1. Fresh(content[g.path][k])
          BY <1>9, <2>4, <3>1 DEF ShrunkSinceListed
        <4> QED BY <1>9, <1>10, <4>1
      <3>2. \A g \in listing : g.path # cur'.path
        BY <1>9, <2>2, FilesAreNumbers
      <3> QED BY <1>2, <3>1, <3>2 DEF ShrunkSinceListed
    <2>7. BeyondHandleIsNew'
      BY <2>2 DEF BeyondHandleIsNew
    <2> QED BY <1>6, <1>8, <2>5, <2>6, <2>7
  <1> QED BY <1>1, <1>11, <1>12

\* While the store remembers the invariant of the stream holds.
LEMMA StreamInvHolds ==
  ASSUME Remembers
  PROVE  Spec => []StreamInv
  <1> DEFINE Others == /\ HasTheStore /\ HeldIsNew /\ BeyondOffsetIsNew
                       /\ ShrunkSinceListed /\ BeyondHandleIsNew
  <1>1. Init => Others
    <2> SUFFICES ASSUME Init PROVE Others
      OBVIOUS
    <2>1. /\ Len(out) = 0 /\ Len(pending) = 0 /\ listing = {} /\ cur.path = 0 /\ pc = "none"
          /\ \A p \in Files : Len(content[p]) = 0
      BY DEF Init, NoFile
    <2>2. HasTheStore /\ HeldIsNew /\ ShrunkSinceListed /\ BeyondHandleIsNew
      BY <2>1 DEF HasTheStore, HeldIsNew, ShrunkSinceListed, BeyondHandleIsNew
    <2>3. BeyondOffsetIsNew
      BY <2>1 DEF BeyondOffsetIsNew
    <2> QED BY <2>2, <2>3
  <1>2. StreamInv <=> BytesInv /\ Others
    BY DEF StreamInv
  <1> HIDE DEF Others
  <1>3. StreamInv /\ [Next]_vars /\ BytesInv' => StreamInv'
    <2> SUFFICES ASSUME StreamInv, [Next]_vars, BytesInv' PROVE StreamInv'
      OBVIOUS
    <2>1. CASE Server
      BY <2>1, ServerKeepsStream
    <2>2. CASE Open \/ Close
      BY <2>2, SessionKeepsStream
    <2>3. CASE \E size \in BufSizes : Deliver(size)
      BY <2>3, DeliverKeepsStream
    <2>4. CASE NextFile
      BY <2>4, NextFileKeepsStream
    <2>5. CASE Fetch
      BY <2>5, FetchKeepsStream
    <2>6. CASE \/ UNCHANGED vars \/ ReadCall \/ ReadCancelled \/ ListingDone \/ Relist
               \/ FetchMore \/ WaitCancelled \/ QueryFails \/ Cancel
      <3>1. /\ UNCHANGED <<content, offsets, follow, cur, pending, out>>
            /\ pc' # "none" => pc # "none"
        BY <2>6 DEF vars, server, store, reader, ReadCall, ReadCancelled, ListingDone, Relist,
                    FetchMore, WaitCancelled, QueryFails, Cancel
      <3>2. listing' = listing \/ (listing' = Listed /\ cur.path = 0 /\ pending = <<>>)
        <4>1. CASE Relist
          BY <4>1 DEF Relist, StreamInv, BytesInv, TypeInv, SessionShape
        <4> QED BY <2>6, <4>1 DEF vars, reader, ReadCall, ReadCancelled, ListingDone,
                    FetchMore, WaitCancelled, QueryFails, Cancel
      <3>3. HasTheStore'
        BY <3>1 DEF StreamInv, HasTheStore, HasStore
      <3> QED BY <3>1, <3>2, <3>3, QuietKeepsStream
    <2> QED BY <2>1, <2>2, <2>3, <2>4, <2>5, <2>6 DEF Next, ReadStep
  <1> QED BY <1>1, <1>2, <1>3, BytesInvHolds, PTL DEF Spec

\* A delivery is a HandOver of the abstract stream.
LEMMA DeliverHandsOver ==
  ASSUME StreamInv, NEW size \in BufSizes, Deliver(size)
  PROVE  Stream!HandOver
  <1> USE DEF StreamInv, BytesInv
  <1> DEFINE l == Len(pending)
             m == Len(out)
  <1>1. PICK n \in 1..l : Sent(n)
    BY DeliverSends
  <1>2. /\ out' \in Seq(1..MaxBytes) /\ Len(out') = m + n
        /\ \A i \in 1..m : out'[i] = out[i]
        /\ \A i \in 1..n : out'[m + i] = pending[i].id
    BY <1>1 DEF Sent
  <1>3. l \in Nat /\ m \in Nat /\ written \in Nat
    BY TypeFactsHold DEF TypeFacts
  <1>4. /\ \A i \in 1..l : pending[i].id \in 1..written /\ pending[i].id \notin Delivered
        /\ \A i, j \in 1..l : i < j => pending[i].id < pending[j].id
        /\ \A i \in 1..m : out[i] \in 1..written /\ out[i] \in Delivered
    BY DEF HeldIsNew, BytesAreWritten, Delivered
  <1>5. written' = written
    BY DEF Deliver, server
  <1> HIDE DEF l, m
  <1>6. ASSUME NEW k \in (m + 1)..Len(out')
        PROVE  k - m \in 1..n /\ k - m \in 1..l /\ out'[k] = pending[k - m].id
    <2>1. k - m \in 1..n /\ k - m \in 1..l /\ m + (k - m) = k
      BY <1>1, <1>2, <1>3
    <2> QED BY <1>2, <2>1
  <1>7. out' \in Seq(1..written)
    <2>1. ASSUME NEW k \in 1..Len(out') PROVE out'[k] \in 1..written
      <3>1. k \in 1..m \/ k \in (m + 1)..Len(out')
        BY <1>2, <1>3
      <3> QED BY <3>1, <1>2, <1>4, <1>6
    <2>2. out' \in [1..Len(out') -> 1..written] /\ Len(out') \in Nat
      BY <2>1, <1>2
    <2> QED BY <2>2, SeqDef
  <1>8. m < Len(out')
    BY <1>1, <1>2, <1>3
  <1>9. ASSUME NEW k \in (m + 1)..Len(out')
        PROVE  /\ \A i \in 1..m : out[i] # out'[k]
               /\ \A i \in (m + 1)..Len(out') : i < k => out'[i] < out'[k]
    <2>1. \A i \in 1..m : out[i] # out'[k]
      BY <1>4, <1>6
    <2>2. ASSUME NEW i \in (m + 1)..Len(out'), i < k PROVE out'[i] < out'[k]
      <3>1. i - m < k - m
        BY <1>2, <1>3, <2>2
      <3> QED BY <3>1, <1>4, <1>6
    <2> QED BY <2>1, <2>2
  <1> QED BY <1>2, <1>5, <1>7, <1>8, <1>9 DEF Stream!HandOver, m

\* Every step but an Open that makes a new store is a step of the stream.
LEMMA StepIsOfTheStream ==
  ASSUME StreamInv, [Next]_vars
  PROVE  [Stream!Next]_(Stream!vars) \/ (~CallerOffsets /\ out' = <<>> /\ written' = written)
  <1>1. CASE Append1
    BY <1>1 DEF Append1, Stream!Write, Stream!Next
  <1>2. CASE \E size \in BufSizes : Deliver(size)
    BY <1>2, DeliverHandsOver DEF Stream!Next
  <1>3. CASE Open
    <2>1. written' = written /\ out' = IF CallerOffsets THEN out ELSE <<>>
      BY <1>3 DEF Open, server
    <2> QED BY <2>1 DEF Stream!vars
  <1>4. CASE \/ UNCHANGED vars \/ Rotate \/ Truncate \/ ReadCall \/ ReadCancelled \/ NextFile
             \/ ListingDone \/ Relist \/ FetchMore \/ Fetch \/ WaitCancelled \/ QueryFails
             \/ Cancel \/ Close
    <2>1. UNCHANGED <<written, out>>
      BY <1>4 DEF vars, server, Rotate, Truncate, ReadCall, ReadCancelled, NextFile,
                  ListingDone, Relist, FetchMore, Fetch, WaitCancelled, QueryFails, Cancel, Close
    <2> QED BY <2>1 DEF Stream!vars
  <1> QED BY <1>1, <1>2, <1>3, <1>4 DEF Next, Server, ReadStep

(***************************************************************************)
(* COR-007 for the remote reader, for any number of files, bytes, sessions *)
(* and failed queries, whatever the server truncates and the caller        *)
(* cancels: with the caller's store it implements the abstract stream.  An *)
(* append is a Write, a delivery a HandOver, all else is invisible.        *)
(***************************************************************************)
THEOREM RemoteImplementsLogStream ==
  ASSUME CallerOffsets
  PROVE  Spec => ImplementsLogStream
  <1>1. Init => Stream!Init
    BY DEF Init, Stream!Init
  <1>2. StreamInv /\ [Next]_vars => [Stream!Next]_(Stream!vars)
    BY StepIsOfTheStream
  <1>3. Remembers
    BY DEF Remembers
  <1> QED BY <1>1, <1>2, <1>3, StreamInvHolds, PTL DEF Spec, ImplementsLogStream, Stream!Spec

\* What is proved of the abstract stream.
Promise == INSTANCE LogStreamProofs

(***************************************************************************)
(* conn.go:77, for any number of files, bytes and sessions, whatever the   *)
(* server truncates: a follower without a store of its caller's delivers   *)
(* no byte twice while the directory holds fewer files than the fallback   *)
(* store has entries; with the caller's store neither does a pass.         *)
(***************************************************************************)
THEOREM FollowerNeverRepeats ==
  ASSUME Remembers
  PROVE  Spec => []FollowerDeliversOnce
  <1> DEFINE Once == Promise!StreamType /\ Promise!HandedOverOnce
  <1>1. Init => Once
    BY DEF Init, Promise!StreamType, Promise!HandedOverOnce
  <1>2. StreamInv /\ Once /\ [Next]_vars => Once'
    <2> SUFFICES ASSUME StreamInv, Once, [Next]_vars PROVE Once'
      OBVIOUS
    <2>1. CASE [Stream!Next]_(Stream!vars)
      <3>1. [Promise!Next]_(Promise!vars)
        BY <2>1 DEF Stream!Next, Stream!vars, Stream!Write, Stream!HandOver,
                    Promise!Next, Promise!vars, Promise!Write, Promise!HandOver
      <3> QED BY <3>1, Promise!StreamStep
    <2>2. CASE out' = <<>> /\ written' = written
      BY <2>2 DEF Promise!StreamType, Promise!HandedOverOnce
    <2> QED BY <2>1, <2>2, StepIsOfTheStream
  <1>3. Once => FollowerDeliversOnce
    BY DEF Promise!HandedOverOnce, FollowerDeliversOnce
  <1> HIDE DEF Once
  <1> QED BY <1>1, <1>2, <1>3, StreamInvHolds, PTL DEF Spec
-----------------------------------------------------------------------------
(***************************************************************************)
(* Files that were never truncated: the handle is within the file, what is *)
(* held of it is what lies before the handle, and it is no shorter than it *)
(* was listed.                                                             *)
(***************************************************************************)
InPlace ==
  /\ \A f \in listing : f.path \notin shrunk => f.size <= Len(content[f.path])
  /\ cur.path # 0 /\ cur.path \notin shrunk =>
       /\ cur.off <= Len(content[cur.path])
       /\ \A i \in 1..Len(pending) : pending[i] = content[cur.path][HeldFrom + i]

\* What was fetched of such a file lies there in one piece.
LEMMA FetchedPlaces ==
  ASSUME TypeInv, InPlace, cur.path # 0, cur.path \notin shrunk,
         NEW n \in 0..ChunkSize, NEW bytes \in Seq(Byte), Extended(bytes, n)
  PROVE  /\ HeldFrom \in Nat /\ Len(bytes) \in Nat /\ Len(content[cur.path]) \in Nat
         /\ HeldFrom + Len(bytes) = cur.off + n
         /\ HeldFrom + Len(bytes) <= Len(content[cur.path])
         /\ \A i \in 1..Len(bytes) : /\ HeldFrom + i \in 1..Len(content[cur.path])
                                     /\ bytes[i] = content[cur.path][HeldFrom + i]
  <1> DEFINE l == Len(pending)
             f == content[cur.path]
  <1>1. /\ Len(f) \in Nat /\ l \in Nat /\ n \in Nat /\ cur.off \in Nat
        /\ l <= cur.off /\ HeldFrom = cur.off - l
    BY TypeFactsHold DEF TypeFacts, HeldFrom, TypeInv, SessionShape
  <1>2. /\ cur.off <= Len(f)
        /\ \A i \in 1..l : pending[i] = f[HeldFrom + i]
    BY DEF InPlace
  <1>3. /\ Len(bytes) = l + n
        /\ \A i \in 1..l : bytes[i] = pending[i]
        /\ \A i \in 1..n : bytes[l + i] = f[cur.off + i]
        /\ n > 0 => cur.off + n <= Len(f)
    BY DEF Extended
  <1> HIDE DEF l, f
  <1>4. HeldFrom + Len(bytes) = cur.off + n /\ cur.off + n <= Len(f)
    BY <1>1, <1>2, <1>3
  <1>5. ASSUME NEW i \in 1..Len(bytes)
        PROVE  HeldFrom + i \in 1..Len(f) /\ bytes[i] = f[HeldFrom + i]
    <2>1. HeldFrom + i \in 1..Len(f)
      <3>1. HeldFrom \in Nat /\ Len(f) \in Nat /\ cur.off + n \in Nat
        BY <1>1
      <3>2. i \in 1..(l + n) /\ HeldFrom + (l + n) <= Len(f) /\ l + n \in Nat
        BY <1>1, <1>3, <1>4
      <3> QED BY <3>1, <3>2
    <2>2. CASE i <= l
      <3>1. i \in 1..l
        BY <1>1, <2>2
      <3> QED BY <3>1, <2>1, <1>2, <1>3
    <2>3. CASE ~(i <= l)
      <3>1. i - l \in 1..n /\ l + (i - l) = i /\ cur.off + (i - l) = HeldFrom + i
        BY <1>1, <1>3, <2>3
      <3>2. bytes[l + (i - l)] = f[cur.off + (i - l)]
        BY <1>3, <3>1
      <3> QED BY <2>1, <3>1, <3>2
    <2> QED BY <2>2, <2>3
  <1>6. HeldFrom \in Nat /\ Len(bytes) \in Nat
    BY <1>1, <1>3
  <1> QED BY <1>1, <1>4, <1>5, <1>6 DEF f

\* The files never shrink but by a truncation, which is remembered.
LEMMA FilesOnlyGrow ==
  ASSUME TypeInv, [Next]_vars, NEW p \in Files, p \notin shrunk'
  PROVE  /\ p \notin shrunk
         /\ Len(content[p]) \in Nat /\ Len(content'[p]) \in Nat
         /\ Len(content[p]) <= Len(content'[p])
         /\ \A k \in 1..Len(content[p]) : content'[p][k] = content[p][k]
         /\ \A k \in 1..Len(content'[p]) : k > Len(content[p]) =>
              content'[p][k].id = written + 1
  <1>0. TypeFacts
    BY TypeFactsHold
  <1>1. CASE Append1
    BY <1>1, AppendAddsOne
  <1>2. CASE Truncate
    <2>1. p # newest /\ shrunk' = shrunk \cup {newest}
      BY <1>2 DEF Truncate
    <2>2. content'[p] = content[p] /\ p \notin shrunk /\ Len(content[p]) \in Nat
      BY <1>0, <1>2, <2>1 DEF Truncate, TypeFacts
    <2> QED BY <2>2
  <1>3. CASE UNCHANGED <<content, shrunk>>
    <2>1. Len(content[p]) \in Nat
      BY <1>0 DEF TypeFacts
    <2> QED BY <1>3, <2>1
  <1> QED BY <1>1, <1>2, <1>3 DEF Next, Server, Rotate, ReadStep, vars, server, Open, ReadCall,
          QueryFails, Cancel, Close, ReadCancelled, Deliver, NextFile, ListingDone, Relist,
          FetchMore, Fetch, WaitCancelled

\* Every step leaves them in place.
LEMMA StepKeepsPlaces ==
  ASSUME TypeInv, InPlace, [Next]_vars
  PROVE  InPlace'
  <1>0. TypeFacts
    BY TypeFactsHold
  <1>1. CASE Server \/ UNCHANGED vars
    <2>1. UNCHANGED <<listing, cur, pending>>
      BY <1>1 DEF Server, Append1, Rotate, Truncate, vars, reader
    <2>2. ASSUME NEW f \in listing, f.path \notin shrunk'
          PROVE  f.size <= Len(content'[f.path])
      <3>1. f.path \in Files /\ f.size \in Nat
        BY <1>0 DEF TypeInv, TypeOK, TypeFacts
      <3>2. /\ f.path \notin shrunk /\ Len(content[f.path]) \in Nat /\ Len(content'[f.path]) \in Nat
            /\ Len(content[f.path]) <= Len(content'[f.path])
        BY <2>2, <3>1, FilesOnlyGrow
      <3>3. f.size <= Len(content[f.path])
        BY <3>2 DEF InPlace
      <3> QED BY <3>1, <3>2, <3>3
    <2>3. ASSUME cur.path # 0, cur.path \notin shrunk'
          PROVE  /\ cur.off <= Len(content'[cur.path])
                 /\ \A i \in 1..Len(pending) : pending[i] = content'[cur.path][HeldFrom + i]
      <3> DEFINE c == cur.path
      <3>1. c \in Files
        BY <1>0, <2>3 DEF TypeFacts
      <3>2. /\ c \notin shrunk
            /\ Len(content[c]) \in Nat /\ Len(content'[c]) \in Nat
            /\ Len(content[c]) <= Len(content'[c])
            /\ \A k \in 1..Len(content[c]) : content'[c][k] = content[c][k]
        BY <2>3, <3>1, FilesOnlyGrow
      <3>3. /\ cur.off <= Len(content[c])
            /\ \A i \in 1..Len(pending) : pending[i] = content[c][HeldFrom + i]
        BY <2>3, <3>2 DEF InPlace
      <3>4. /\ cur.off \in Nat /\ Len(pending) \in Nat /\ Len(pending) <= cur.off
            /\ HeldFrom = cur.off - Len(pending)
        BY <1>0, <2>3 DEF TypeFacts, TypeInv, SessionShape, HeldFrom
      <3> HIDE DEF c
      <3>5. \A i \in 1..Len(pending) : HeldFrom + i \in 1..Len(content[c])
        BY <3>2, <3>3, <3>4
      <3>6. cur.off <= Len(content'[c])
        BY <3>2, <3>3, <3>4
      <3> QED BY <3>2, <3>3, <3>5, <3>6 DEF c
    <2> QED BY <2>1, <2>2, <2>3 DEF InPlace, HeldFrom
  <1>2. ASSUME UNCHANGED <<content, shrunk>>, listing' \subseteq listing \/ listing' = Listed
        PROVE  \A f \in listing' : f.path \notin shrunk' => f.size <= Len(content'[f.path])
    <2>1. \A f \in Listed : f.size <= Len(content[f.path])
      <3>1. \A f \in Listed : f.path \in Files /\ f.size = Len(content[f.path])
        BY ListedIs
      <3>2. \A p \in Files : Len(content[p]) <= Len(content[p])
        BY <1>0 DEF TypeFacts
      <3> QED BY <3>1, <3>2
    <2> QED BY <1>2, <2>1 DEF InPlace
  <1>3. CASE Open \/ Close
    <2>1. /\ UNCHANGED <<content, shrunk>> /\ (listing' = Listed \/ listing' = {})
          /\ cur' = NoFile
      BY <1>3 DEF Open, Close, server
    <2>2. cur'.path = 0
      BY <2>1 DEF NoFile
    <2>3. listing' \subseteq listing \/ listing' = Listed
      BY <2>1
    <2> QED BY <1>2, <2>1, <2>2, <2>3 DEF InPlace
  <1>4. CASE ReadCall \/ Cancel \/ ReadCancelled \/ ListingDone \/ Relist \/ FetchMore
             \/ QueryFails \/ WaitCancelled
    <2>1. /\ UNCHANGED <<content, shrunk, cur, pending>>
          /\ listing' = listing \/ listing' = Listed
      BY <1>4 DEF server, ReadCall, Cancel, ReadCancelled, ListingDone, Relist, FetchMore,
                  QueryFails, WaitCancelled
    <2>2. listing' \subseteq listing \/ listing' = Listed
      BY <2>1
    <2> QED BY <1>2, <2>1, <2>2 DEF InPlace, HeldFrom
  <1>5. CASE \E size \in BufSizes : Deliver(size)
    <2>1. PICK n \in 1..Len(pending) : Sent(n)
      BY <1>5, DeliverSends
    <2>2. UNCHANGED <<content, shrunk, cur, listing>>
      BY <1>5 DEF Deliver, server
    <2> DEFINE l == Len(pending)
    <2>3. Len(pending') = l - n /\ \A i \in 1..(l - n) : pending'[i] = pending[n + i]
      BY <2>1 DEF Sent
    <2>4. l \in Nat /\ cur.off \in Nat /\ HeldFrom = cur.off - l /\ HeldFrom' = cur'.off - Len(pending')
      BY <1>0 DEF TypeFacts, HeldFrom
    <2> HIDE DEF l
    <2>5. \A i \in 1..(l - n) : n + i \in 1..l /\ HeldFrom + (n + i) = HeldFrom' + i
      <3>1. HeldFrom' = cur.off - (l - n) /\ n \in 1..l
        BY <2>2, <2>3, <2>4 DEF l
      <3> QED BY <2>4, <3>1
    <2>6. ASSUME cur.path # 0, cur.path \notin shrunk, NEW i \in 1..(l - n)
          PROVE  pending'[i] = content[cur.path][HeldFrom' + i]
      <3>1. n + i \in 1..l /\ HeldFrom + (n + i) = HeldFrom' + i
        BY <2>5
      <3>2. pending[n + i] = content[cur.path][HeldFrom + (n + i)]
        BY <2>6, <3>1 DEF InPlace, l
      <3> QED BY <2>3, <3>1, <3>2
    <2>7. \A f \in listing' : f.path \notin shrunk' => f.size <= Len(content'[f.path])
      BY <1>2, <2>2
    <2> QED BY <2>2, <2>3, <2>6, <2>7 DEF InPlace
  <1>6. CASE NextFile
    <2>1. PICK f \in listing : Looked(f)
      BY <1>6, NextFileLooks
    <2>2. UNCHANGED <<content, shrunk, pending>>
      BY <1>6 DEF NextFile, server
    <2>3. /\ f.path \in Files /\ f.size \in 0..MaxBytes /\ listing' \subseteq listing
          /\ pending = <<>> /\ cur.path = 0
          /\ cur' = cur \/ cur' = [path |-> f.path,
                                   off  |-> IF f.size < FoundOffset(f.path) THEN 0
                                            ELSE FoundOffset(f.path)]
      BY <2>1 DEF Looked
    <2>4. FoundOffset(f.path) \in Nat /\ Len(content[f.path]) \in Nat /\ f.size \in Nat
      BY <1>0, <2>3 DEF FoundOffset, TypeFacts
    <2>5. \A i \in 1..Len(pending') : FALSE
      <3>1. Len(pending') = 0
        BY <2>2, <2>3
      <3> QED BY <3>1
    <2>6. \A g \in listing' : g.path \notin shrunk' => g.size <= Len(content'[g.path])
      BY <1>2, <2>2, <2>3
    <2>7. ASSUME cur'.path # 0, cur'.path \notin shrunk'
          PROVE  cur'.off <= Len(content'[cur'.path])
      <3>1. /\ cur'.path = f.path
            /\ cur'.off = IF f.size < FoundOffset(f.path) THEN 0 ELSE FoundOffset(f.path)
        BY <2>3, <2>7
      <3>2. f.size <= Len(content[f.path])
        BY <2>2, <2>7, <3>1 DEF InPlace
      <3>3. cur'.off <= Len(content[f.path])
        BY <2>4, <3>1, <3>2
      <3> QED BY <2>2, <3>1, <3>3
    <2> QED BY <2>5, <2>6, <2>7 DEF InPlace
  <1>7. CASE Fetch
    <2>1. PICK n \in 0..ChunkSize, bytes \in Seq(Byte) :
            /\ Extended(bytes, n)
            /\ \/ ChunkTaken(bytes, n)
               \/ \E kept \in 0..Len(bytes) : FileEnded(bytes, n, kept)
      BY <1>7, FetchTakes
    <2>2. UNCHANGED <<content, shrunk, listing>> /\ cur.path # 0
      BY <1>7 DEF Fetch, server, TypeInv, SessionShape
    <2>3. \A g \in listing' : g.path \notin shrunk' => g.size <= Len(content'[g.path])
      BY <1>2, <2>2
    <2>4. CASE ChunkTaken(bytes, n)
      <3>1. pending' = bytes /\ cur'.path = cur.path /\ cur'.off = cur.off + n
        BY <2>4 DEF ChunkTaken
      <3>2. ASSUME cur.path \notin shrunk
            PROVE  /\ cur'.off <= Len(content[cur.path])
                   /\ \A i \in 1..Len(pending') : pending'[i] = content[cur.path][HeldFrom' + i]
        <4>1. /\ HeldFrom \in Nat /\ Len(bytes) \in Nat
              /\ HeldFrom + Len(bytes) = cur.off + n
              /\ HeldFrom + Len(bytes) <= Len(content[cur.path])
              /\ \A i \in 1..Len(bytes) : bytes[i] = content[cur.path][HeldFrom + i]
          BY <2>1, <2>2, <3>2, FetchedPlaces
        <4>2. HeldFrom' = (cur.off + n) - Len(bytes)
          BY <3>1 DEF HeldFrom
        <4>3. HeldFrom' = HeldFrom
          BY <4>1, <4>2
        <4> QED BY <3>1, <4>1, <4>3
      <3> QED BY <2>2, <2>3, <3>1, <3>2 DEF InPlace
    <2>5. CASE \E kept \in 0..Len(bytes) : FileEnded(bytes, n, kept)
      <3>1. cur'.path = 0
        BY <2>5 DEF FileEnded, NoFile
      <3> QED BY <2>3, <3>1 DEF InPlace
    <2> QED BY <2>1, <2>4, <2>5
  <1> QED BY <1>1, <1>3, <1>4, <1>5, <1>6, <1>7 DEF Next, ReadStep

\* They are in place in every behaviour.
LEMMA InPlaceHolds == Spec => []InPlace
  <1>1. Init => InPlace
    BY DEF Init, InPlace, NoFile
  <1>2. TypeInv /\ InPlace /\ [Next]_vars => InPlace'
    BY StepKeepsPlaces
  <1> QED BY <1>1, <1>2, TypeInvHolds, PTL DEF Spec
-----------------------------------------------------------------------------
(***************************************************************************)
(* A follower of files that are never truncated: what it holds between two *)
(* files are complete lines, and it never flushes a partial one.           *)
(***************************************************************************)
FollowShape == shrunk = {} /\ (pc # "none" => follow /\ ~flush)

TailOnLine ==
  cur.path = 0 =>
    \A j \in 1..Len(pending) : \A p \in Files : \A i \in 1..Len(content[p]) :
      content[p][i].id = pending[j].id => ~Unbroken(content[p], i, Len(content[p]))

\* Byte i of a file lies on a complete line, or on one too long to hold back.
MayGoOut(bytes, i) ==
  \/ ~Unbroken(bytes, i, Len(bytes))
  \/ \E a \in 1..i : /\ a + MaxHeldBack - 1 <= Len(bytes)
                     /\ Unbroken(bytes, a, a + MaxHeldBack - 1)

DeliveredMayGoOut ==
  \A p \in Files : \A i \in 1..Len(content[p]) :
    content[p][i].id \in Delivered => MayGoOut(content[p], i)

FollowInv == BytesInv /\ InPlace /\ FollowShape /\ TailOnLine /\ DeliveredMayGoOut

\* Nothing is ever truncated, and every session follows.
FollowsGrowing == ~Truncates /\ FollowModes = {TRUE}

\* What may go out of a file may go out of it when it has grown.
LEMMA GrowthKeepsLines ==
  ASSUME NEW old \in Seq(Byte), NEW new \in Seq(Byte), Len(old) <= Len(new),
         \A k \in 1..Len(old) : new[k] = old[k], NEW i \in 1..Len(old)
  PROVE  /\ ~Unbroken(old, i, Len(old)) => ~Unbroken(new, i, Len(new))
         /\ MayGoOut(old, i) => MayGoOut(new, i)
  <1>1. Len(old) \in Nat /\ Len(new) \in Nat /\ i \in 1..Len(old)
    OBVIOUS
  <1>2. ASSUME ~Unbroken(old, i, Len(old)) PROVE ~Unbroken(new, i, Len(new))
    <2>1. PICK j \in i..Len(old) : old[j].nl
      BY <1>2 DEF Unbroken
    <2>2. j \in i..Len(new) /\ j \in 1..Len(old)
      BY <1>1, <2>1
    <2> QED BY <2>1, <2>2 DEF Unbroken
  <1>3. ASSUME NEW a \in 1..i, a + MaxHeldBack - 1 <= Len(old),
               Unbroken(old, a, a + MaxHeldBack - 1)
        PROVE  a + MaxHeldBack - 1 <= Len(new) /\ Unbroken(new, a, a + MaxHeldBack - 1)
    <2>1. MaxHeldBack \in Nat
      BY RemoteAssumption DEF MaxHeldBack
    <2>2. \A j \in a..(a + MaxHeldBack - 1) : j \in 1..Len(old)
      BY <1>1, <1>3, <2>1
    <2> QED BY <1>1, <1>3, <2>1, <2>2 DEF Unbroken
  <1> QED BY <1>2, <1>3 DEF MayGoOut

\* The server appends bytes that were neither delivered nor held.
LEMMA ServerKeepsFollower ==
  ASSUME FollowInv, FollowsGrowing, BytesInv', InPlace', Server
  PROVE  FollowInv'
  <1> USE DEF FollowInv, BytesInv
  <1>0. TypeFacts /\ UNCHANGED <<shrunk, pc, follow, flush, cur, pending, out>>
    BY TypeFactsHold DEF Server, Append1, Rotate, Truncate, reader, FollowsGrowing
  <1>1. FollowShape' /\ Delivered' = Delivered
    BY <1>0 DEF FollowShape, Delivered
  <1>2. /\ written \in Nat
        /\ \A i \in 1..Len(pending) : pending[i].id \in 1..written
        /\ \A m \in Delivered : m \in 1..written
    BY <1>0 DEF BytesAreWritten, Delivered, TypeFacts
  <1>3. ASSUME NEW p \in Files, NEW i \in 1..Len(content'[p]),
               content'[p][i].id \in 1..written
        PROVE  /\ i \in 1..Len(content[p]) /\ content'[p][i] = content[p][i]
               /\ ~Unbroken(content[p], i, Len(content[p])) =>
                    ~Unbroken(content'[p], i, Len(content'[p]))
               /\ MayGoOut(content[p], i) => MayGoOut(content'[p], i)
    <2>1. /\ Len(content[p]) \in Nat /\ Len(content'[p]) \in Nat
          /\ Len(content[p]) <= Len(content'[p])
          /\ \A k \in 1..Len(content[p]) : content'[p][k] = content[p][k]
          /\ \A k \in 1..Len(content'[p]) : k > Len(content[p]) =>
               content'[p][k].id = written + 1
      <3>1. p \notin shrunk' /\ [Next]_vars
        BY <1>0 DEF FollowShape, Next
      <3> QED BY <3>1, FilesOnlyGrow
    <2>2. i \in 1..Len(content[p])
      BY <1>2, <1>3, <2>1
    <2>3. content[p] \in Seq(Byte) /\ content'[p] \in Seq(Byte)
      <3>1. content' \in [Files -> Seq(Byte)]
        BY DEF TypeInv, TypeOK
      <3> QED BY <1>0, <3>1 DEF TypeFacts
    <2> QED BY <2>1, <2>2, <2>3, GrowthKeepsLines
  <1>4. TailOnLine'
    <2> SUFFICES ASSUME cur.path = 0, NEW j \in 1..Len(pending), NEW p \in Files,
                        NEW i \in 1..Len(content'[p]), content'[p][i].id = pending[j].id
                 PROVE  ~Unbroken(content'[p], i, Len(content'[p]))
      BY <1>0 DEF TailOnLine
    <2>1. content'[p][i].id \in 1..written
      BY <1>2
    <2> QED BY <1>3, <2>1 DEF TailOnLine
  <1>5. DeliveredMayGoOut'
    <2> SUFFICES ASSUME NEW p \in Files, NEW i \in 1..Len(content'[p]),
                        content'[p][i].id \in Delivered
                 PROVE  MayGoOut(content'[p], i)
      BY <1>1 DEF DeliveredMayGoOut
    <2> QED BY <1>2, <1>3 DEF DeliveredMayGoOut
  <1> QED BY <1>1, <1>4, <1>5

\* When more is held than may be held back, that much of the file is held.
LEMMA LongHeldFits ==
  ASSUME NEW h, NEW off \in Nat, NEW l \in Nat, NEW m \in Nat, NEW k \in Nat,
         h = off - l, l <= off, off <= k, m <= l
  PROVE  h \in Nat /\ h + m <= k
  OBVIOUS

\* Delivering stops at the last newline held, unless too much is held.
LEMMA DeliverKeepsFollower ==
  ASSUME FollowInv, BytesInv', InPlace', NEW size \in BufSizes, Deliver(size)
  PROVE  FollowInv'
  <1> USE DEF FollowInv, BytesInv
  <1> DEFINE l == Len(pending)
             c == cur.path
             last == LastNewline(pending)
  <1>0. TypeFacts
    BY TypeFactsHold
  <1>1. PICK n \in 1..l : Sent(n)
    BY DeliverSends
  <1>2. /\ UNCHANGED <<content, shrunk, follow, flush, cur>> /\ pc = "loop" /\ Deliverable > 0
    BY DEF Deliver, server
  <1>3. /\ n <= Deliverable /\ Len(pending') = l - n
        /\ \A i \in 1..(l - n) : pending'[i] = pending[n + i]
        /\ Delivered' = Delivered \cup {pending[i].id : i \in 1..n}
    BY <1>1 DEF Sent
  <1>4. l \in Nat /\ MaxHeldBack \in Nat \ {0} /\ cur.off \in Nat
    BY <1>0 DEF TypeFacts
  <1>5. /\ last \in 0..l /\ (last > 0 => pending[last].nl)
        /\ \A i \in 1..l : pending[i].nl => i <= last
    BY <1>0, LastNewlineIs DEF TypeFacts
  <1>6. Deliverable = IF last > 0 THEN last
                      ELSE IF l >= MaxHeldBack THEN l ELSE 0
    BY <1>2 DEF Deliverable, Eligible, FollowShape
  <1> HIDE DEF l, c, last
  <1>7. FollowShape'
    BY <1>2 DEF FollowShape
  <1>8. TailOnLine'
    <2>1. \A i \in 1..(l - n) : n + i \in 1..l /\ pending'[i] = pending[n + i]
      BY <1>3, <1>4
    <2> SUFFICES ASSUME cur.path = 0, NEW j \in 1..(l - n), NEW p \in Files,
                        NEW i \in 1..Len(content[p]), content[p][i].id = pending'[j].id
                 PROVE  ~Unbroken(content[p], i, Len(content[p]))
      BY <1>2, <1>3 DEF TailOnLine
    <2> QED BY <2>1 DEF TailOnLine, l
  <1>9. ASSUME NEW j \in 1..n, NEW p \in Files, NEW i \in 1..Len(content[p]),
               content[p][i].id = pending[j].id
        PROVE  MayGoOut(content[p], i)
    <2>0. j \in 1..l
      BY <1>4
    <2>1. CASE c = 0
      BY <1>9, <2>0, <2>1 DEF TailOnLine, MayGoOut, c, l
    <2>2. CASE c # 0
      <3> DEFINE f == content[c]
      <3>1. /\ c \in Files /\ Len(f) \in Nat /\ cur.off <= Len(f) /\ l <= cur.off
            /\ HeldFrom = cur.off - l
            /\ \A k \in 1..l : pending[k] = f[HeldFrom + k]
        <4>1. c \in Files
          BY <1>0, <2>2 DEF TypeFacts, c
        <4> QED BY <1>0, <2>2, <4>1
                DEF InPlace, FollowShape, TypeFacts, HeldFrom, TypeInv, SessionShape, c, l
      <3> HIDE DEF f
      <3>2. \A k \in 1..l : HeldFrom + k \in 1..Len(f)
        BY <1>4, <3>1
      <3>3. p = c /\ i = HeldFrom + j
        <4>1. content[p][i].id = content[c][HeldFrom + j].id
          BY <1>9, <2>0, <3>1 DEF f
        <4>2. HeldFrom + j \in 1..Len(content[c])
          BY <2>0, <3>2 DEF f
        <4>3. c \in Files
          BY <3>1
        <4> QED BY <4>1, <4>2, <4>3, OnePlaceEach
      <3>4. CASE last > 0
        <4>1. j <= last /\ last \in 1..l
          BY <1>3, <1>4, <1>5, <1>6, <3>4
        <4>2. HeldFrom + last \in i..Len(f) /\ f[HeldFrom + last].nl
          <5>1. HeldFrom + last \in 1..Len(f) /\ f[HeldFrom + last].nl
            BY <1>5, <3>1, <3>2, <3>4, <4>1
          <5>2. HeldFrom \in Int /\ last \in Int /\ i = HeldFrom + j /\ Len(f) \in Nat
            BY <1>4, <3>1, <3>3, <4>1
          <5> QED BY <4>1, <5>1, <5>2
        <4>3. ~Unbroken(f, i, Len(f))
          BY <4>2 DEF Unbroken
        <4> QED BY <3>3, <4>3 DEF MayGoOut, f
      <3>5. CASE ~(last > 0)
        <4>1. l >= MaxHeldBack /\ \A k \in 1..l : ~pending[k].nl
          BY <1>2, <1>4, <1>5, <1>6, <3>5
        <4> DEFINE a == HeldFrom + 1
        <4>2. a \in 1..i /\ a + MaxHeldBack - 1 <= Len(f)
          <5>1. /\ HeldFrom = cur.off - l /\ l <= cur.off /\ cur.off <= Len(f)
                /\ Len(f) \in Nat /\ cur.off \in Nat /\ l \in Nat /\ MaxHeldBack \in Nat
            BY <1>4, <3>1
          <5>2. j \in 1..l /\ i = HeldFrom + j /\ MaxHeldBack <= l
            BY <2>0, <3>3, <4>1, <5>1
          <5>3. HeldFrom \in Nat /\ HeldFrom + MaxHeldBack <= Len(f)
            BY <5>1, <5>2, LongHeldFits
          <5>4. i \in Nat /\ i >= HeldFrom + 1
            BY <5>2, <5>3
          <5>5. MaxHeldBack \in Nat
            BY <5>1
          <5>6. a \in Nat \ {0} /\ a <= i
            BY <5>3, <5>4
          <5>7. a + MaxHeldBack - 1 = HeldFrom + MaxHeldBack
            BY <5>3, <5>5
          <5> QED BY <5>3, <5>4, <5>6, <5>7
        <4>3. ASSUME NEW k \in a..(a + MaxHeldBack - 1) PROVE ~f[k].nl
          <5>1. k - HeldFrom \in 1..l /\ HeldFrom + (k - HeldFrom) = k
            <6>1. HeldFrom \in Int /\ k \in Int /\ k >= HeldFrom + 1
              BY <1>4, <3>1
            <6>2. k <= HeldFrom + MaxHeldBack /\ MaxHeldBack \in Int /\ l >= MaxHeldBack
              BY <1>4, <3>1, <4>1
            <6> QED BY <1>4, <6>1, <6>2
          <5>2. pending[k - HeldFrom] = f[HeldFrom + (k - HeldFrom)]
            BY <3>1, <5>1
          <5> QED BY <4>1, <5>1, <5>2
        <4> HIDE DEF a
        <4> QED BY <3>3, <4>2, <4>3 DEF MayGoOut, Unbroken, f
      <3> QED BY <3>4, <3>5
    <2> QED BY <2>1, <2>2
  <1>10. DeliveredMayGoOut'
    <2> SUFFICES ASSUME NEW p \in Files, NEW i \in 1..Len(content[p]),
                        content[p][i].id \in Delivered'
                 PROVE  MayGoOut(content[p], i)
      BY <1>2 DEF DeliveredMayGoOut
    <2>1. CASE content[p][i].id \in Delivered
      BY <2>1 DEF DeliveredMayGoOut
    <2>2. CASE \E j \in 1..n : content[p][i].id = pending[j].id
      BY <2>2, <1>9
    <2> QED BY <1>3, <2>1, <2>2
  <1> QED BY <1>7, <1>8, <1>10

\* What a follower keeps of a file that ended are its complete lines.
LEMMA FetchKeepsFollower ==
  ASSUME FollowInv, BytesInv', InPlace', Fetch
  PROVE  FollowInv'
  <1> USE DEF FollowInv, BytesInv
  <1> DEFINE c == cur.path
             f == content[c]
  <1>0. TypeFacts
    BY TypeFactsHold
  <1>1. PICK n \in 0..ChunkSize, bytes \in Seq(Byte) :
          /\ Extended(bytes, n)
          /\ \/ ChunkTaken(bytes, n)
             \/ \E kept \in 0..Len(bytes) : FileEnded(bytes, n, kept)
    BY FetchTakes
  <1>2. /\ UNCHANGED <<content, shrunk, follow, out>> /\ pc = "fetch" /\ pc' = "loop"
        /\ follow /\ ~flush /\ shrunk = {} /\ c # 0 /\ c \in Files
    BY <1>0 DEF Fetch, server, FollowShape, TypeInv, SessionShape, TypeFacts
  <1>3. DeliveredMayGoOut'
    BY <1>2 DEF DeliveredMayGoOut, Delivered
  <1>4. /\ HeldFrom \in Nat /\ Len(bytes) \in Nat /\ Len(f) \in Nat
        /\ HeldFrom + Len(bytes) <= Len(f)
        /\ \A i \in 1..Len(bytes) : HeldFrom + i \in 1..Len(f) /\ bytes[i] = f[HeldFrom + i]
    <2>1. c # 0 /\ c \notin shrunk /\ Extended(bytes, n)
      BY <1>1, <1>2
    <2> QED BY <2>1, FetchedPlaces
  <1> HIDE DEF c, f
  <1>5. CASE ChunkTaken(bytes, n)
    <2>1. cur'.path # 0 /\ flush' = flush
      BY <1>2, <1>5 DEF ChunkTaken, c
    <2> QED BY <1>2, <1>3, <2>1 DEF FollowShape, TailOnLine
  <1>6. CASE \E kept \in 0..Len(bytes) : FileEnded(bytes, n, kept)
    <2>1. PICK kept \in 0..Len(bytes) : FileEnded(bytes, n, kept)
      BY <1>6
    <2>2. /\ kept = LastNewline(bytes) /\ Len(pending') = kept /\ flush' = FALSE
          /\ \A i \in 1..kept : pending'[i] = bytes[i]
      BY <1>2, <2>1 DEF FileEnded
    <2>3. kept > 0 => bytes[kept].nl
      BY <2>2, LastNewlineIs
    <2>4. ASSUME NEW j \in 1..kept, NEW p \in Files, NEW i \in 1..Len(content[p]),
                 content[p][i].id = pending'[j].id
          PROVE  ~Unbroken(content[p], i, Len(content[p]))
      <3>1. j \in 1..Len(bytes) /\ kept \in 1..Len(bytes) /\ j <= kept /\ kept > 0
        BY <1>4, <2>1
      <3>2. p = c /\ i = HeldFrom + j
        <4>1. content[p][i].id = content[c][HeldFrom + j].id
          BY <1>4, <2>2, <2>4, <3>1 DEF f
        <4>2. HeldFrom + j \in 1..Len(content[c])
          BY <1>4, <3>1 DEF f
        <4> QED BY <1>2, <4>1, <4>2, OnePlaceEach
      <3>3. HeldFrom + kept \in i..Len(f) /\ f[HeldFrom + kept].nl
        BY <1>4, <2>3, <3>1, <3>2
      <3>4. ~Unbroken(f, i, Len(f))
        BY <3>3 DEF Unbroken
      <3> QED BY <3>2, <3>4 DEF f
    <2>5. TailOnLine'
      BY <1>2, <2>2, <2>4 DEF TailOnLine
    <2> QED BY <1>2, <1>3, <2>2, <2>5 DEF FollowShape
  <1> QED BY <1>1, <1>5, <1>6

\* The other steps hold no byte between files that they did not hold before.
LEMMA OthersKeepFollower ==
  ASSUME FollowInv, FollowsGrowing, BytesInv', InPlace',
         \/ UNCHANGED vars \/ Open \/ Close \/ ReadCall \/ Cancel \/ ReadCancelled
         \/ NextFile \/ ListingDone \/ Relist \/ FetchMore \/ QueryFails \/ WaitCancelled
  PROVE  FollowInv'
  <1> USE DEF FollowInv, BytesInv
  <1>1. UNCHANGED <<content, shrunk>>
    BY DEF vars, server, Open, Close, ReadCall, Cancel, ReadCancelled, NextFile, ListingDone,
           Relist, FetchMore, QueryFails, WaitCancelled
  <1>2. out' = out \/ out' = <<>>
    BY DEF vars, Open, Close, ReadCall, Cancel, ReadCancelled, NextFile, ListingDone,
           Relist, FetchMore, QueryFails, WaitCancelled
  <1>3. DeliveredMayGoOut'
    <2>1. out' = out \/ Len(out') = 0
      BY <1>2
    <2>2. Delivered' \subseteq Delivered
      BY <2>1 DEF Delivered
    <2> QED BY <1>1, <2>2 DEF DeliveredMayGoOut
  <1>4. (pending' = pending /\ (cur' = cur \/ pending = <<>>)) \/ pending' = <<>>
    <2>1. CASE NextFile
      <3>1. \E f \in listing : Looked(f)
        BY <2>1, NextFileLooks
      <3> QED BY <2>1, <3>1 DEF Looked, NextFile
    <2> QED BY <2>1 DEF vars, reader, Open, Close, ReadCall, Cancel, ReadCancelled, ListingDone,
           Relist, FetchMore, QueryFails, WaitCancelled
  <1>5. TailOnLine'
    <2>1. CASE pending' = <<>>
      <3>1. Len(pending') = 0
        BY <2>1
      <3>2. \A j \in 1..Len(pending') : FALSE
        BY <3>1
      <3> QED BY <3>2 DEF TailOnLine
    <2>2. CASE pending' = pending /\ cur' = cur
      BY <1>1, <2>2 DEF TailOnLine
    <2> QED BY <1>4, <2>1, <2>2
  <1>6. FollowShape'
    <2>1. CASE Open \/ Close
      BY <1>1, <2>1 DEF Open, Close, FollowShape, FollowsGrowing
    <2>2. CASE NextFile
      BY <1>1, <2>2 DEF NextFile, FollowShape
    <2>3. CASE \/ UNCHANGED vars \/ ReadCall \/ Cancel \/ ReadCancelled \/ ListingDone
               \/ Relist \/ FetchMore \/ QueryFails \/ WaitCancelled
      <3>1. UNCHANGED <<follow, flush>> /\ (pc' # "none" => pc # "none")
        BY <2>3 DEF vars, reader, ReadCall, Cancel, ReadCancelled, ListingDone, Relist,
                    FetchMore, QueryFails, WaitCancelled
      <3> QED BY <1>1, <3>1 DEF FollowShape
    <2> QED BY <2>1, <2>2, <2>3
  <1> QED BY <1>3, <1>5, <1>6

(***************************************************************************)
(* open.go:56, for any number of files, bytes, sessions and failed         *)
(* queries, any chunk size and any lengths of the caller's slices, with    *)
(* cancellation and with or without a store of the caller's: while nothing *)
(* is truncated, what a follower has delivered of a file ends with         *)
(* complete lines, except for a line too long to be held back.             *)
(***************************************************************************)
THEOREM RemoteFollowerEndsWithLines ==
  ASSUME FollowsGrowing
  PROVE  Spec => []FollowerWithholdsPartialLine
  <1> DEFINE Others == FollowShape /\ TailOnLine /\ DeliveredMayGoOut
  <1>1. Init => Others
    <2> SUFFICES ASSUME Init PROVE Others
      OBVIOUS
    <2>1. shrunk = {} /\ pc = "none" /\ Len(pending) = 0 /\ \A p \in Files : Len(content[p]) = 0
      BY DEF Init
    <2> QED BY <2>1 DEF FollowShape, TailOnLine, DeliveredMayGoOut
  <1>2. FollowInv <=> BytesInv /\ InPlace /\ Others
    BY DEF FollowInv
  <1> HIDE DEF Others
  <1>3. FollowInv /\ [Next]_vars /\ BytesInv' /\ InPlace' => FollowInv'
    <2> SUFFICES ASSUME FollowInv, [Next]_vars, BytesInv', InPlace' PROVE FollowInv'
      OBVIOUS
    <2>1. CASE Server
      BY <2>1, ServerKeepsFollower
    <2>2. CASE \E size \in BufSizes : Deliver(size)
      BY <2>2, DeliverKeepsFollower
    <2>3. CASE Fetch
      BY <2>3, FetchKeepsFollower
    <2>4. CASE \/ UNCHANGED vars \/ Open \/ Close \/ ReadCall \/ Cancel \/ ReadCancelled
               \/ NextFile \/ ListingDone \/ Relist \/ FetchMore \/ QueryFails \/ WaitCancelled
      BY <2>4, OthersKeepFollower
    <2> QED BY <2>1, <2>2, <2>3, <2>4 DEF Next, ReadStep
  <1>4. FollowInv => FollowerWithholdsPartialLine
    BY DEF FollowInv, DeliveredMayGoOut, MayGoOut, FollowerWithholdsPartialLine
  <1> QED BY <1>1, <1>2, <1>3, <1>4, BytesInvHolds, InPlaceHolds, PTL DEF Spec
-----------------------------------------------------------------------------
(***************************************************************************)
(* What the stored offset accounts for, of files that were never           *)
(* truncated, with any store: no offset is beyond the length of its file   *)
(* or its length when listed; that of the open file is where the bytes     *)
(* held begin; without a store there is none.                              *)
(***************************************************************************)
OffsetsFit ==
  /\ \A p \in Files \ shrunk : offsets[p] <= Len(content[p])
  /\ \A f, g \in listing : f.path = g.path => f = g
  /\ \A f \in listing :
       f.path # cur.path /\ (f.path \notin shrunk => offsets[f.path] <= f.size)
  /\ cur.path # 0 /\ cur.path \notin shrunk /\ HasStore(follow) =>
       offsets[cur.path] = HeldFrom
  /\ pc # "none" /\ ~HasStore(follow) => \A p \in Files : offsets[p] = 0

\* Every byte below an offset was delivered or is held between two files.
AllAccounted ==
  \A p \in Files \ shrunk : \A i \in 1..offsets[p] :
    \/ content[p][i].id \in Delivered
    \/ cur.path = 0 /\ \E k \in 1..Len(pending) : pending[k] = content[p][i]

\* A session that is not cancelled ends with nothing held, or fails inside a
\* file whose bytes it will fetch again.
EndsClean ==
  /\ ~cancelled
  /\ pc \in {"none", "ended"} => pending = <<>>
  /\ pc = "failed" => pending = <<>> \/ cur.path # 0

AccountInv == TypeInv /\ InPlace /\ OffsetsFit /\ AllAccounted /\ EndsClean

\* A store call moves the offset of its path and raises no other.
LEMMA RecordRaisesOne ==
  ASSUME TypeInv, NEW p \in {0} \cup Files, NEW o \in 0..MaxBytes, Record(p, o)
  PROVE  \A q \in Files :
           /\ offsets'[q] \in Nat /\ offsets[q] \in Nat
           /\ q # p \/ ~HasStore(follow) => offsets'[q] \in {0, offsets[q]}
           /\ q = p /\ HasStore(follow) => offsets'[q] = o
           /\ ~HasStore(follow) => offsets'[q] = offsets[q]
  <1> SUFFICES ASSUME NEW q \in Files
               PROVE  /\ offsets'[q] \in Nat /\ offsets[q] \in Nat
                      /\ q # p \/ ~HasStore(follow) => offsets'[q] \in {0, offsets[q]}
                      /\ q = p /\ HasStore(follow) => offsets'[q] = o
                      /\ ~HasStore(follow) => offsets'[q] = offsets[q]
    OBVIOUS
  <1>1. /\ offsets' \in [Files -> 0..MaxBytes]
        /\ p = 0 \/ ~HasStore(follow) => UNCHANGED store
        /\ HasStore(follow) /\ p # 0 => offsets'[p] = o
    BY RecordIs
  <1>2. offsets \in [Files -> 0..MaxBytes] /\ MaxBytes \in Nat
    BY TypeFactsHold DEF TypeFacts
  <1>3. offsets'[q] \in Nat /\ offsets[q] \in Nat
    BY <1>1, <1>2
  <1>4. CASE p = 0 \/ ~HasStore(follow)
    BY <1>1, <1>3, <1>4, FilesAreNumbers DEF store
  <1>5. CASE p # 0 /\ HasStore(follow)
    <2>1. SetOffset(p, o) /\ p \in Files
      BY <1>5 DEF Record
    <2>2. q # p => offsets'[q] \in {0, offsets[q]}
      BY <1>2, <2>1 DEF SetOffset
    <2> QED BY <1>1, <1>3, <1>5, <2>2
  <1> QED BY <1>4, <1>5

\* The server only adds to the files that it never truncates.
LEMMA ServerKeepsAccount ==
  ASSUME AccountInv, TypeInv', InPlace', Server
  PROVE  AccountInv'
  <1> USE DEF AccountInv
  <1>0. /\ UNCHANGED <<offsets, pc, follow, cancelled, listing, cur, pending, out>>
        /\ TypeFacts /\ [Next]_vars
    BY TypeFactsHold DEF Server, Append1, Rotate, Truncate, store, reader, Next
  <1>1. EndsClean'
    BY <1>0 DEF EndsClean
  <1>2. ASSUME NEW p \in Files \ shrunk'
        PROVE  /\ p \in Files \ shrunk /\ offsets[p] <= Len(content'[p])
               /\ \A i \in 1..offsets[p] : content'[p][i] = content[p][i]
    <2>1. /\ p \notin shrunk
          /\ Len(content[p]) \in Nat /\ Len(content'[p]) \in Nat
          /\ Len(content[p]) <= Len(content'[p])
          /\ \A k \in 1..Len(content[p]) : content'[p][k] = content[p][k]
      BY <1>0, FilesOnlyGrow
    <2>2. offsets[p] \in Nat /\ offsets[p] <= Len(content[p])
      BY <1>0, <2>1 DEF OffsetsFit, TypeFacts
    <2>3. \A i \in 1..offsets[p] : i \in 1..Len(content[p])
      BY <2>1, <2>2
    <2> QED BY <2>1, <2>2, <2>3
  <1>3. shrunk \subseteq shrunk'
    BY DEF Server, Append1, Rotate, Truncate
  <1>4. OffsetsFit'
    BY <1>0, <1>2, <1>3 DEF OffsetsFit, HeldFrom, HasStore
  <1>5. AllAccounted'
    BY <1>0, <1>2 DEF AllAccounted, Delivered
  <1> QED BY <1>1, <1>4, <1>5

\* A session begins and ends with nothing held that an offset counts.
LEMMA SessionKeepsAccount ==
  ASSUME AccountInv, TypeInv', InPlace', ~CanCancel,
         \/ UNCHANGED vars \/ Open \/ Close \/ ReadCall \/ Cancel \/ ReadCancelled
         \/ ListingDone \/ Relist \/ FetchMore \/ QueryFails \/ WaitCancelled
  PROVE  AccountInv'
  <1> USE DEF AccountInv
  <1>0. TypeFacts
    BY TypeFactsHold
  <1>1. UNCHANGED <<content, shrunk>>
    BY DEF vars, server, Open, Close, ReadCall, Cancel, ReadCancelled, ListingDone, Relist,
           FetchMore, QueryFails, WaitCancelled
  <1>2. \A f \in Listed : f.path \in Files /\ f.path # 0 /\ f.size = Len(content[f.path])
    BY ListedIs, FilesAreNumbers
  <1>3. CASE Open
    <2>1. /\ pc = "none" /\ pc' = "idle" /\ listing' = Listed /\ cancelled' = FALSE
          /\ cur'.path = 0 /\ pending' = <<>> /\ pending = <<>>
          /\ IF CallerOffsets THEN UNCHANGED <<offsets, out>>
             ELSE offsets' = [p \in Files |-> 0]
      BY <1>3 DEF Open, NoFile, store, EndsClean
    <2>2. EndsClean'
      BY <2>1 DEF EndsClean
    <2>3. ASSUME NEW p \in Files
          PROVE  offsets'[p] \in {0, offsets[p]} /\ (CallerOffsets \/ offsets'[p] = 0)
      BY <2>1
    <2>4. \A p \in Files : offsets[p] \in Nat /\ Len(content[p]) \in Nat
      BY <1>0 DEF TypeFacts
    <2>5. \A p \in Files \ shrunk : offsets'[p] <= Len(content[p])
      BY <2>3, <2>4 DEF OffsetsFit
    <2>6. ~HasStore(follow') => \A p \in Files : offsets'[p] = 0
      BY <2>3 DEF HasStore
    <2>7. OffsetsFit'
      BY <1>1, <1>2, <2>1, <2>5, <2>6, ListedIs DEF OffsetsFit, HasStore
    <2>8. AllAccounted'
      <3> SUFFICES ASSUME NEW p \in Files \ shrunk, NEW i \in 1..offsets'[p]
                   PROVE  content[p][i].id \in Delivered'
        BY <1>1 DEF AllAccounted
      <3>1. CallerOffsets
        BY <2>3
      <3>2. offsets' = offsets /\ Delivered' = Delivered
        BY <2>1, <3>1 DEF Delivered
      <3>3. Len(pending) = 0
        BY <2>1
      <3> QED BY <3>2, <3>3 DEF AllAccounted
    <2> QED BY <2>2, <2>7, <2>8
  <1>4. CASE Close
    <2>1. /\ pc \in {"ended", "failed"} /\ pc' = "none" /\ listing' = {} /\ cancelled' = FALSE
          /\ cur'.path = 0 /\ pending' = <<>> /\ UNCHANGED <<offsets, out>>
      BY <1>4 DEF Close, NoFile, store
    <2>2. EndsClean' /\ OffsetsFit'
      BY <1>1, <2>1 DEF EndsClean, OffsetsFit
    <2>3. pending = <<>> \/ cur.path # 0
      BY <2>1 DEF EndsClean
    <2>4. cur.path # 0 \/ \A k \in 1..Len(pending) : FALSE
      <3>1. pending = <<>> => Len(pending) = 0
        OBVIOUS
      <3> QED BY <2>3, <3>1
    <2>5. AllAccounted'
      BY <1>1, <2>1, <2>4 DEF AllAccounted, Delivered
    <2> QED BY <2>2, <2>5
  <1>5. CASE \/ UNCHANGED vars \/ ReadCall \/ Cancel \/ ReadCancelled
             \/ ListingDone \/ Relist \/ FetchMore \/ QueryFails \/ WaitCancelled
    <2>1. /\ UNCHANGED <<offsets, follow, cur, pending, out>>
          /\ pc' # "none" => pc # "none"
      BY <1>5 DEF vars, store, reader, ReadCall, Cancel, ReadCancelled, ListingDone, Relist,
                  FetchMore, QueryFails, WaitCancelled
    <2>2. cancelled' = cancelled
      BY <1>5 DEF vars, reader, ReadCall, Cancel, ReadCancelled, ListingDone, Relist,
                  FetchMore, QueryFails, WaitCancelled
    <2>3. listing' = listing \/ (listing' = Listed /\ cur.path = 0)
      <3>1. CASE Relist
        BY <3>1 DEF Relist, TypeInv, SessionShape
      <3> QED BY <1>5, <3>1 DEF vars, reader, ReadCall, Cancel, ReadCancelled, ListingDone,
                  FetchMore, QueryFails, WaitCancelled
    <2>4. OffsetsFit'
      <3>1. CASE listing' = listing
        BY <1>1, <2>1, <3>1 DEF OffsetsFit, HeldFrom, HasStore
      <3>2. CASE listing' = Listed /\ cur.path = 0
        BY <1>1, <1>2, <2>1, <3>2, ListedIs DEF OffsetsFit, HasStore
      <3> QED BY <2>3, <3>1, <3>2
    <2>5. AllAccounted'
      BY <1>1, <2>1 DEF AllAccounted, Delivered
    <2>6. EndsClean'
      <3>1. CASE QueryFails
        BY <2>1, <2>2, <3>1 DEF QueryFails, EndsClean, TypeInv, SessionShape
      <3>2. CASE ListingDone
        BY <2>1, <2>2, <3>2, NothingBetweenFiles DEF ListingDone, EndsClean
      <3>3. CASE \/ UNCHANGED vars \/ ReadCall \/ Cancel \/ ReadCancelled \/ Relist
                 \/ FetchMore \/ WaitCancelled
        BY <2>1, <2>2, <3>3 DEF EndsClean, vars, reader, ReadCall, Cancel, ReadCancelled, Relist,
           FetchMore, WaitCancelled
      <3> QED BY <1>5, <3>1, <3>2, <3>3
    <2> QED BY <2>4, <2>5, <2>6
  <1> QED BY <1>3, <1>4, <1>5

\* The file looked at next is opened at its offset.
LEMMA NextFileKeepsAccount ==
  ASSUME AccountInv, TypeInv', InPlace', NextFile
  PROVE  AccountInv'
  <1> USE DEF AccountInv
  <1>0. TypeFacts
    BY TypeFactsHold
  <1>1. PICK f \in listing : Looked(f)
    BY NextFileLooks
  <1>2. /\ UNCHANGED <<content, shrunk, offsets, follow, cancelled, pending, out>>
        /\ pc = "loop" /\ pc' \in {"loop", "fetch"}
    BY <1>1 DEF NextFile, server, store, Looked
  <1>3. /\ f.path \in Files /\ listing' = listing \ {f}
        /\ pending = <<>> /\ cur.path = 0
        /\ cur' = cur \/ cur' = [path |-> f.path,
                                 off  |-> IF f.size < FoundOffset(f.path) THEN 0
                                          ELSE FoundOffset(f.path)]
    BY <1>1 DEF Looked
  <1>4. Len(pending) = 0
    BY <1>3
  <1>5. EndsClean'
    BY <1>2 DEF EndsClean
  <1>6. AllAccounted'
    BY <1>2, <1>4 DEF AllAccounted, Delivered
  <1>7. OffsetsFit'
    <2>1. cur'.path = 0 \/ cur'.path = f.path
      BY <1>3
    <2>2. \A g \in listing' : g \in listing /\ g.path # f.path /\ g.path # 0
      BY <1>3 DEF OffsetsFit
    <2>3. ASSUME cur'.path # 0, cur'.path \notin shrunk, HasStore(follow)
          PROVE  offsets[cur'.path] = HeldFrom'
      <3>1. /\ cur'.path = f.path
            /\ cur'.off = IF f.size < FoundOffset(f.path) THEN 0 ELSE FoundOffset(f.path)
        BY <1>3, <2>3
      <3>2. FoundOffset(f.path) = offsets[f.path] /\ offsets[f.path] \in Nat
        BY <1>0, <1>3, <2>3 DEF FoundOffset, TypeFacts
      <3>3. offsets[f.path] <= f.size
        BY <2>3, <3>1 DEF OffsetsFit
      <3>4. f.size \in Nat
        BY <1>0, <1>1 DEF Looked, TypeFacts
      <3>5. cur'.off = offsets[f.path]
        BY <3>1, <3>2, <3>3, <3>4
      <3> QED BY <1>2, <1>4, <3>1, <3>2, <3>5 DEF HeldFrom
    <2>4. \A g, h \in listing' : g.path = h.path => g = h
      BY <2>2 DEF OffsetsFit
    <2>5. \A g \in listing' : g.path \notin shrunk => offsets[g.path] <= g.size
      BY <2>2 DEF OffsetsFit
    <2>6. /\ \A p \in Files \ shrunk : offsets[p] <= Len(content[p])
          /\ ~HasStore(follow) => \A p \in Files : offsets[p] = 0
      BY <1>2 DEF OffsetsFit
    <2> QED BY <1>2, <2>1, <2>2, <2>3, <2>4, <2>5, <2>6 DEF OffsetsFit, HasStore
  <1> QED BY <1>5, <1>6, <1>7

\* Delivering moves the offset over bytes that are delivered.
LEMMA DeliverKeepsAccount ==
  ASSUME AccountInv, TypeInv', InPlace', NEW size \in BufSizes, Deliver(size)
  PROVE  AccountInv'
  <1> USE DEF AccountInv
  <1> DEFINE l == Len(pending)
             c == cur.path
  <1>0. TypeFacts
    BY TypeFactsHold
  <1>1. PICK n \in 1..l : Sent(n)
    BY DeliverSends
  <1>2. /\ UNCHANGED <<content, shrunk, follow, cancelled, listing, cur>>
        /\ pc = "loop" /\ pc' = "idle"
    BY DEF Deliver, server
  <1>3. /\ Len(pending') = l - n
        /\ \A i \in 1..(l - n) : pending'[i] = pending[n + i]
        /\ Delivered' = Delivered \cup {pending[i].id : i \in 1..n}
        /\ Record(c, cur.off - (l - n))
    BY <1>1 DEF Sent
  <1>4. /\ l \in Nat /\ cur.off \in Nat /\ cur.off <= MaxBytes /\ MaxBytes \in Nat
        /\ HeldFrom = cur.off - l /\ (c # 0 => l <= cur.off)
        /\ c \in {0} \cup Files
    BY <1>0 DEF TypeFacts, HeldFrom, TypeInv, SessionShape
  <1> HIDE DEF l, c
  <1>5. /\ HeldFrom' = HeldFrom + n /\ HeldFrom \in Int
        /\ cur.off - (l - n) = HeldFrom + n
        /\ c # 0 => HeldFrom \in Nat /\ HeldFrom + n \in 0..MaxBytes /\ HeldFrom + n <= cur.off
    <2>1. HeldFrom' = cur.off - (l - n)
      BY <1>2, <1>3 DEF HeldFrom
    <2> QED BY <1>4, <2>1
  <1>6. /\ \A q \in Files : /\ offsets'[q] \in Nat /\ offsets[q] \in Nat
                            /\ q # c \/ ~HasStore(follow) => offsets'[q] \in {0, offsets[q]}
        /\ \A q \in Files : q = c /\ HasStore(follow) => offsets'[q] = HeldFrom + n
        /\ ~HasStore(follow) => \A q \in Files : offsets'[q] = offsets[q]
    <2>1. CASE c = 0
      <3>1. offsets' = offsets
        BY <1>3, <2>1 DEF Record, store
      <3> QED BY <1>0, <2>1, <3>1, FilesAreNumbers DEF TypeFacts
    <2>2. CASE c # 0
      <3> DEFINE o == HeldFrom + n
      <3>1. o \in 0..MaxBytes /\ Record(c, o)
        BY <1>3, <1>5, <2>2
      <3> HIDE DEF o
      <3>2. \A q \in Files :
              /\ offsets'[q] \in Nat /\ offsets[q] \in Nat
              /\ q # c \/ ~HasStore(follow) => offsets'[q] \in {0, offsets[q]}
              /\ q = c /\ HasStore(follow) => offsets'[q] = o
              /\ ~HasStore(follow) => offsets'[q] = offsets[q]
        BY <1>4, <3>1, RecordRaisesOne
      <3> QED BY <3>2 DEF o
    <2> QED BY <2>1, <2>2
  <1>7. EndsClean'
    BY <1>2 DEF EndsClean
  <1>8. OffsetsFit'
    <2>1. ASSUME NEW p \in Files \ shrunk PROVE offsets'[p] <= Len(content[p])
      <3>1. Len(content[p]) \in Nat /\ offsets[p] <= Len(content[p])
        BY <1>0 DEF TypeFacts, OffsetsFit
      <3>2. CASE p = c /\ HasStore(follow)
        <4>1. offsets'[p] = HeldFrom + n /\ c # 0
          BY <1>6, <3>2, FilesAreNumbers
        <4>2. cur.off <= Len(content[p])
          BY <3>2, <4>1 DEF InPlace, c
        <4>3. HeldFrom + n \in Nat /\ HeldFrom + n <= cur.off
          BY <1>5, <4>1
        <4>4. cur.off \in Nat
          BY <1>4
        <4> QED BY <3>1, <4>1, <4>2, <4>3, <4>4
      <3>3. CASE ~(p = c /\ HasStore(follow))
        BY <1>6, <3>1, <3>3
      <3> QED BY <3>2, <3>3
    <2>2. ASSUME NEW f \in listing, f.path \notin shrunk PROVE offsets'[f.path] <= f.size
      <3>1. f.path \in Files /\ f.path # c /\ f.size \in Nat /\ offsets[f.path] <= f.size
        <4>1. f.path \in Files /\ f.size \in Nat
          BY ListingTyped
        <4> QED BY <2>2, <4>1 DEF OffsetsFit, c
      <3> QED BY <1>6, <3>1
    <2>3. c # 0 /\ HasStore(follow) => offsets'[c] = HeldFrom'
      BY <1>4, <1>5, <1>6
    <2>4. ~HasStore(follow) => \A p \in Files : offsets'[p] = 0
      BY <1>2, <1>6 DEF OffsetsFit
    <2> QED BY <1>2, <2>1, <2>2, <2>3, <2>4 DEF OffsetsFit, HasStore, c
  <1>9. AllAccounted'
    <2> SUFFICES ASSUME NEW p \in Files \ shrunk, NEW i \in 1..offsets'[p]
                 PROVE  \/ content[p][i].id \in Delivered'
                        \/ cur.path = 0 /\ \E k \in 1..Len(pending') : pending'[k] = content[p][i]
      BY <1>2 DEF AllAccounted
    <2>1. CASE i \in 1..offsets[p]
      <3>1. CASE content[p][i].id \in Delivered
        BY <3>1, <1>3
      <3>2. CASE cur.path = 0 /\ \E k \in 1..l : pending[k] = content[p][i]
        <4>1. PICK k \in 1..l : pending[k] = content[p][i]
          BY <3>2
        <4>2. CASE k <= n
          <5>1. k \in 1..n
            BY <1>4, <4>2
          <5> QED BY <1>3, <4>1, <5>1
        <4>3. CASE ~(k <= n)
          <5>1. k - n \in 1..(l - n) /\ n + (k - n) = k
            BY <1>1, <1>4, <4>3
          <5>2. pending'[k - n] = content[p][i]
            BY <1>3, <4>1, <5>1
          <5> QED BY <1>3, <3>2, <5>1, <5>2
        <4> QED BY <4>2, <4>3
      <3> QED BY <2>1, <3>1, <3>2 DEF AllAccounted, l
    <2>2. CASE ~(i \in 1..offsets[p])
      <3>1. p = c /\ HasStore(follow)
        <4>1. ~(p = c /\ HasStore(follow)) => offsets'[p] \in {0, offsets[p]} /\ offsets[p] \in Nat
          BY <1>6
        <4> QED BY <2>2, <4>1
      <3>2. /\ offsets'[p] = HeldFrom + n /\ offsets[p] = HeldFrom /\ c # 0
        BY <1>2, <1>6, <3>1, FilesAreNumbers DEF OffsetsFit, c
      <3>3. i - HeldFrom \in 1..n /\ i - HeldFrom \in 1..l /\ HeldFrom + (i - HeldFrom) = i
        BY <1>1, <1>4, <1>5, <2>2, <3>2
      <3>4. pending[i - HeldFrom] = content[p][HeldFrom + (i - HeldFrom)]
        BY <3>1, <3>2, <3>3 DEF InPlace, c, l
      <3> QED BY <1>3, <3>3, <3>4
    <2> QED BY <2>1, <2>2
  <1> QED BY <1>7, <1>8, <1>9

\* The end of a file moves its offset over bytes that stay held.
LEMMA FetchKeepsAccount ==
  ASSUME AccountInv, TypeInv', InPlace', Fetch
  PROVE  AccountInv'
  <1> USE DEF AccountInv
  <1> DEFINE l == Len(pending)
             c == cur.path
  <1>0. TypeFacts
    BY TypeFactsHold
  <1>1. PICK n \in 0..ChunkSize, bytes \in Seq(Byte) :
          /\ Extended(bytes, n)
          /\ \/ ChunkTaken(bytes, n)
             \/ \E kept \in 0..Len(bytes) : FileEnded(bytes, n, kept)
    BY FetchTakes
  <1>2. /\ UNCHANGED <<content, shrunk, follow, cancelled, listing, out>>
        /\ pc = "fetch" /\ pc' = "loop"
    BY DEF Fetch, server
  <1>3. /\ c # 0 /\ c \in Files /\ l \in Nat /\ n \in Nat /\ cur.off \in Nat /\ l <= cur.off
        /\ cur.off <= MaxBytes /\ MaxBytes \in Nat /\ HeldFrom = cur.off - l
        /\ Len(content[c]) \in Nat /\ Len(content[c]) <= MaxBytes
    <2>1. c # 0 /\ c \in Files /\ l <= cur.off
      BY <1>0, <1>2 DEF TypeFacts, TypeInv, SessionShape
    <2>2. Len(content[c]) \in 0..written /\ written \in 0..MaxBytes /\ MaxBytes \in Nat
      BY <1>0, <2>1 DEF TypeFacts
    <2> QED BY <1>0, <2>1, <2>2 DEF TypeFacts, HeldFrom
  <1>4. Len(bytes) = l + n /\ (n > 0 => cur.off + n <= Len(content[c]))
    BY <1>1 DEF Extended
  <1>5. EndsClean' /\ Delivered' = Delivered
    BY <1>2 DEF EndsClean, Delivered
  <1> HIDE DEF l, c
  <1>6. CASE ChunkTaken(bytes, n)
    <2>1. /\ pending' = bytes /\ offsets' = offsets
          /\ cur'.path = c /\ cur'.off = cur.off + n
      BY <1>6 DEF ChunkTaken, c
    <2>2. HeldFrom' = HeldFrom
      BY <1>3, <1>4, <2>1 DEF HeldFrom
    <2>3. OffsetsFit'
      BY <1>2, <2>1, <2>2 DEF OffsetsFit, HasStore, c
    <2>4. AllAccounted'
      BY <1>2, <1>3, <1>5, <2>1 DEF AllAccounted, c
    <2> QED BY <1>5, <2>3, <2>4
  <1>7. CASE \E kept \in 0..Len(bytes) : FileEnded(bytes, n, kept)
    <2>1. PICK kept \in 0..Len(bytes) : FileEnded(bytes, n, kept)
      BY <1>7
    <2>2. /\ cur'.path = 0 /\ Len(pending') = kept
          /\ \A i \in 1..kept : pending'[i] = bytes[i]
          /\ Record(c, (cur.off - l) + kept)
      BY <2>1 DEF FileEnded, NoFile, c, l
    <2> DEFINE o == HeldFrom + kept
    <2>3. /\ HeldFrom \in Nat /\ kept \in Nat /\ kept <= Len(bytes)
          /\ o \in 0..MaxBytes /\ Record(c, o)
      <3>1. kept \in Nat /\ kept <= l + n /\ cur.off + n <= MaxBytes
        BY <1>3, <1>4
      <3>2. HeldFrom \in Nat /\ HeldFrom + kept <= MaxBytes /\ (cur.off - l) + kept = HeldFrom + kept
        <4>1. /\ HeldFrom \in Nat /\ HeldFrom = cur.off - l /\ cur.off \in Nat
              /\ l \in Nat /\ n \in Nat /\ MaxBytes \in Nat
          BY <1>3
        <4> QED BY <3>1, <4>1
      <3>3. kept <= Len(bytes) /\ MaxBytes \in Nat
        BY <1>3, <1>4, <3>1
      <3> QED BY <2>2, <3>1, <3>2, <3>3
    <2> HIDE DEF o
    <2>4. \A q \in Files :
            /\ offsets'[q] \in Nat /\ offsets[q] \in Nat
            /\ q # c \/ ~HasStore(follow) => offsets'[q] \in {0, offsets[q]}
            /\ q = c /\ HasStore(follow) => offsets'[q] = o
            /\ ~HasStore(follow) => offsets'[q] = offsets[q]
      <3>1. c \in {0} \cup Files
        BY <1>3
      <3> QED BY <2>3, <3>1, RecordRaisesOne
    <2>5. ASSUME c \notin shrunk
          PROVE  /\ HeldFrom + Len(bytes) <= Len(content[c])
                 /\ \A i \in 1..Len(bytes) : bytes[i] = content[c][HeldFrom + i]
      <3>1. cur.path # 0 /\ cur.path \notin shrunk /\ Extended(bytes, n)
        BY <1>1, <1>3, <2>5 DEF c
      <3> QED BY <3>1, FetchedPlaces DEF c
    <2>6. OffsetsFit'
      <3>1. ASSUME NEW p \in Files \ shrunk PROVE offsets'[p] <= Len(content[p])
        <4>1. Len(content[p]) \in Nat /\ offsets[p] <= Len(content[p])
          BY <1>0 DEF TypeFacts, OffsetsFit
        <4>2. CASE p = c /\ HasStore(follow)
          <5>1. offsets'[p] = HeldFrom + kept /\ HeldFrom + Len(bytes) <= Len(content[p])
            BY <2>4, <2>5, <4>2 DEF o
          <5>2. Len(bytes) \in Nat
            BY <1>3, <1>4
          <5> QED BY <2>3, <4>1, <5>1, <5>2
        <4>3. CASE ~(p = c /\ HasStore(follow))
          BY <2>4, <4>1, <4>3
        <4> QED BY <4>2, <4>3
      <3>2. ASSUME NEW f \in listing
            PROVE  f.path # 0 /\ (f.path \notin shrunk => offsets'[f.path] <= f.size)
        <4>1. /\ f.path \in Files /\ f.path # c /\ f.size \in Nat
              /\ f.path \notin shrunk => offsets[f.path] <= f.size
          <5>1. f.path \in Files /\ f.size \in Nat
            BY ListingTyped
          <5> QED BY <5>1 DEF OffsetsFit, c
        <4> QED BY <2>4, <4>1, FilesAreNumbers
      <3>3. ~HasStore(follow) => \A p \in Files : offsets'[p] = 0
        BY <1>2, <2>4 DEF OffsetsFit
      <3>4. \A f, g \in listing : f.path = g.path => f = g
        BY DEF OffsetsFit
      <3> QED BY <1>2, <2>2, <3>1, <3>2, <3>3, <3>4 DEF OffsetsFit, HasStore
    <2>7. AllAccounted'
      <3> SUFFICES ASSUME NEW p \in Files \ shrunk, NEW i \in 1..offsets'[p]
                   PROVE  \/ content[p][i].id \in Delivered
                          \/ \E k \in 1..kept : pending'[k] = content[p][i]
        BY <1>2, <1>5, <2>2 DEF AllAccounted
      <3>1. CASE i \in 1..offsets[p]
        BY <1>3, <3>1 DEF AllAccounted, c
      <3>2. CASE ~(i \in 1..offsets[p])
        <4>1. p = c /\ HasStore(follow)
          <5>1. ~(p = c /\ HasStore(follow)) => offsets'[p] \in {0, offsets[p]} /\ offsets[p] \in Nat
            BY <2>4
          <5> QED BY <3>2, <5>1
        <4>2. offsets'[p] = HeldFrom + kept /\ offsets[p] = HeldFrom
          BY <1>3, <2>4, <4>1 DEF OffsetsFit, c, o
        <4>3. i - HeldFrom \in 1..kept /\ i - HeldFrom \in 1..Len(bytes) /\ HeldFrom + (i - HeldFrom) = i
          <5>1. Len(bytes) \in Nat
            BY <1>3, <1>4
          <5> QED BY <2>3, <3>2, <4>2, <5>1
        <4>4. bytes[i - HeldFrom] = content[p][HeldFrom + (i - HeldFrom)]
          BY <2>5, <4>1, <4>3
        <4> QED BY <2>2, <4>3, <4>4
      <3> QED BY <3>1, <3>2
    <2> QED BY <1>5, <2>6, <2>7
  <1> QED BY <1>1, <1>6, <1>7

(***************************************************************************)
(* AC-025 for the remote path, for any number of files, bytes, sessions    *)
(* and failed queries, with any store and whatever is truncated: of a file *)
(* that was not, every complete line below the stored offset has been      *)
(* delivered or is held by a session that will deliver it, unless a caller *)
(* cancels.  (Every byte below the offset has, whether or not its line is  *)
(* complete.)                                                              *)
(***************************************************************************)
THEOREM RemoteOffsetIsAccountedFor ==
  ASSUME ~CanCancel
  PROVE  Spec => []StoredOffsetIsAccountedFor
  <1> DEFINE Others == OffsetsFit /\ AllAccounted /\ EndsClean
  <1>1. Init => Others
    <2> SUFFICES ASSUME Init PROVE Others
      OBVIOUS
    <2>1. /\ shrunk = {} /\ pc = "none" /\ pending = <<>> /\ ~cancelled
          /\ listing = {} /\ cur.path = 0
          /\ \A p \in Files : offsets[p] = 0 /\ Len(content[p]) = 0
      BY DEF Init, NoFile
    <2>2. OffsetsFit
      BY <2>1 DEF OffsetsFit
    <2>3. AllAccounted
      BY <2>1 DEF AllAccounted
    <2> QED BY <2>1, <2>2, <2>3 DEF EndsClean
  <1>2. AccountInv <=> TypeInv /\ InPlace /\ Others
    BY DEF AccountInv
  <1> HIDE DEF Others
  <1>3. AccountInv /\ [Next]_vars /\ TypeInv' /\ InPlace' => AccountInv'
    <2> SUFFICES ASSUME AccountInv, [Next]_vars, TypeInv', InPlace' PROVE AccountInv'
      OBVIOUS
    <2>1. CASE Server
      BY <2>1, ServerKeepsAccount
    <2>2. CASE \/ UNCHANGED vars \/ Open \/ Close \/ ReadCall \/ Cancel \/ ReadCancelled
               \/ ListingDone \/ Relist \/ FetchMore \/ QueryFails \/ WaitCancelled
      BY <2>2, SessionKeepsAccount
    <2>3. CASE NextFile
      BY <2>3, NextFileKeepsAccount
    <2>4. CASE \E size \in BufSizes : Deliver(size)
      BY <2>4, DeliverKeepsAccount
    <2>5. CASE Fetch
      BY <2>5, FetchKeepsAccount
    <2> QED BY <2>1, <2>2, <2>3, <2>4, <2>5 DEF Next, ReadStep
  <1>4. AccountInv => StoredOffsetIsAccountedFor
    <2> SUFFICES ASSUME AccountInv, NEW p \in Files \ shrunk,
                        NEW i \in 1..MinOf(offsets[p], Len(content[p]))
                 PROVE  \/ content[p][i].id \in Delivered
                        \/ \E k \in 1..Len(pending) : pending[k] = content[p][i]
      BY DEF StoredOffsetIsAccountedFor
    <2>1. offsets[p] \in Nat /\ Len(content[p]) \in Nat
      BY TypeFactsHold DEF AccountInv, TypeFacts
    <2>2. i \in 1..offsets[p]
      BY <2>1 DEF MinOf
    <2> QED BY <2>2 DEF AccountInv, AllAccounted
  <1> QED BY <1>1, <1>2, <1>3, <1>4, TypeInvHolds, InPlaceHolds, PTL DEF Spec
=============================================================================
