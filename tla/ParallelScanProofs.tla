------------------------- MODULE ParallelScanProofs -------------------------
(***************************************************************************)
(* Proofs about ParallelScan, for any number of workers, any sources, any  *)
(* shard sizes and any cancelCheckInterval.                                *)
(*                                                                         *)
(* The first invariant, of four parts, is about the workers and the cursor *)
(* alone; the second says which records have been handed over, and rests   *)
(* on what Framing's Landing and NextPosition return.                      *)
(***************************************************************************)
EXTENDS ParallelScan, FramingProofs

Control ==
  /\ Len(Shards) \in Nat /\ next \in Nat
  /\ cancelled \in BOOLEAN
  /\ firstErr \in Workers \cup {"none"}
  /\ firstErr # "none" => cancelled
  /\ state \in [Workers -> {"draw", "scan", "done"}]
  /\ shard \in [Workers -> Nat]
  /\ count \in [Workers -> Nat] /\ late \in [Workers -> Nat]
  /\ blind \subseteq {Shards[i] : i \in 1..Len(Shards)}

\* The shard a worker scans has been drawn, and by this worker only.
ShardsExclusive ==
  /\ \A w \in Workers : state[w] = "scan" => shard[w] \in 1..Len(Shards) /\ shard[w] <= next
  /\ \A v, w \in Workers :
       v # w /\ state[v] = "scan" /\ state[w] = "scan" => shard[v] # shard[w]

\* A worker that goes on after ctx was done is between two looks at it.
Prompt ==
  \A w \in Workers :
    /\ late[w] <= CheckEvery
    /\ late[w] > 0 => cancelled
    /\ state[w] = "scan" => late[w] <= (count[w] % CheckEvery)

\* Some worker goes on while there are shards to draw, and a call that
\* returned nil met with no error, nor with a cancellation unless it had
\* nothing to read.
NilIsUndisturbed ==
  /\ ~cancelled => next >= Len(Shards) \/ \E w \in Workers : state[w] # "done"
  /\ result # "running" => \A w \in Workers : state[w] = "done"
  /\ Len(Shards) = 0 => firstErr = "none"
  /\ result = "nil" =>
       firstErr = "none" /\ (cancelled => Len(Shards) = 0) /\ next >= Len(Shards)

ScanInv == Control /\ ShardsExclusive /\ Prompt /\ NilIsUndisturbed

\* Counting on by one reaches the next remainder or starts over at 0.
LEMMA ModStep ==
  ASSUME NEW n \in Nat, NEW m \in Nat \ {0}
  PROVE  /\ (n % m) \in 0..(m - 1) /\ (0 % m) = 0
         /\ ((n + 1) % m) # 0 => ((n + 1) % m) = (n % m) + 1
<1>1. (n % m) \in 0..(m - 1) /\ (0 % m) = 0
  OBVIOUS
<1>2. ASSUME ((n + 1) % m) # 0 PROVE ((n + 1) % m) = (n % m) + 1
  <2> DEFINE p == n \div m
             q == (n + 1) \div m
             r == n % m
             t == (n + 1) % m
  <2>1. /\ p \in Int /\ q \in Int /\ r \in 0..(m - 1) /\ t \in 1..(m - 1)
        /\ n = m * p + r /\ n + 1 = m * q + t
    BY <1>2
  <2> SUFFICES t = r + 1
    OBVIOUS
  <2> HIDE DEF p, q, r, t
  <2>2. m * (q - p) = r + 1 - t
    BY <2>1
  <2> QED BY <2>1, <2>2
<1> QED BY <1>1, <1>2

(***************************************************************************)
(* The sources and the plan do not change.                                 *)
(***************************************************************************)
\* The format a worker reads source s in.
Form(s) == ShardFormat([src |-> s, start |-> 0, end |-> 0])

Given ==
  /\ \A s \in 1..2 :
       /\ srcs[s].bytes \in Seq(Byte) /\ StartsLines(srcs[s].bytes)
       /\ Len(srcs[s].bytes) \in 0..MaxLen
       /\ Form(s) \in Formats
  /\ clear = {s \in 1..2 : Comparable(s)}
  /\ records = {p \in Positioned : p[1] \in clear /\ p[2] \in InOrder(p[1])}

\* No input is longer than the bound.
LEMMA InputsAreBounded ==
  ASSUME NEW f \in Formats, NEW c \in Contents(f)
  PROVE  Len(c) \in 0..MaxLen
<1> DEFINE Runs == UNION {[1..k -> Alphabet(f)] : k \in 0..MaxLen}
<1>1. Alphabet(f) \subseteq Byte /\ MaxLen \in Nat
  BY FramingAssumption DEF Alphabet, Formats, Byte
<1>2. ASSUME NEW d \in Runs PROVE d \in Seq(Byte) /\ Len(d) \in 0..MaxLen
  <2>1. PICK k \in 0..MaxLen : d \in [1..k -> Alphabet(f)]
    OBVIOUS
  <2>2. k \in Nat
    BY <1>1
  <2>3. d \in [1..k -> Byte]
    BY <2>1, <1>1
  <2>4. d \in Seq(Byte) /\ DOMAIN d = 1..k
    BY <2>2, <2>3, SeqDef
  <2>5. Len(d) = k
    BY <2>2, <2>4, LenProperties
  <2> QED BY <2>4, <2>5
<1>3. <<"b">> \in Seq(Byte) /\ Len(<<"b">>) = 1
  BY DEF Byte
<1>4. c \in Runs \/ \E d \in Runs : c = <<"b">> \o d /\ Len(d) < MaxLen
  BY DEF Contents
<1> HIDE DEF Runs
<1>5. ASSUME NEW d \in Runs, Len(d) < MaxLen, c = <<"b">> \o d
      PROVE  Len(c) \in 0..MaxLen
  <2>1. Len(c) = 1 + Len(d)
    BY <1>2, <1>3, <1>5, ConcatProperties
  <2> QED BY <1>1, <1>2, <1>5, <2>1
<1> QED BY <1>2, <1>4, <1>5

LEMMA InitGiven == Init => Given
<1> SUFFICES ASSUME Init PROVE Given
  OBVIOUS
<1>1. PICK c \in Contents(actual), last \in LastSources :
        srcs = <<[bytes |-> c, sized |-> TRUE], last>>
  BY DEF Init
<1>2. actual \in Formats
  BY ScanAssumption DEF Init
<1>3. c \in Seq(Byte) /\ StartsLines(c) /\ Len(c) \in 0..MaxLen
  BY <1>2, InputsAreBytes, InputsStartLines, InputsAreBounded
<1>4. /\ last.bytes \in Seq(Byte) /\ StartsLines(last.bytes)
      /\ Len(last.bytes) \in 0..MaxLen
  BY ScanAssumption, LenProperties, FramingAssumption
<1>5. srcs[1].bytes = c /\ srcs[2].bytes = last.bytes
  BY <1>1
<1>6. ASSUME NEW s \in 1..2
      PROVE  /\ srcs[s].bytes \in Seq(Byte) /\ StartsLines(srcs[s].bytes)
             /\ Len(srcs[s].bytes) \in 0..MaxLen
  BY <1>3, <1>4, <1>5
<1>7. \A s \in 1..2 : Form(s) \in Formats
  BY <1>2 DEF Form, ShardFormat, ClassifyLine, Formats
<1> QED BY <1>6, <1>7 DEF Init, Given

\* No step changes what is given.
LEMMA GivenStays ==
  ASSUME Given, UNCHANGED input
  PROVE  /\ Given' /\ Shards' = Shards
         /\ \A s : Form(s)' = Form(s) /\ InOrder(s)' = InOrder(s)
<1>1. UNCHANGED <<srcs, actual, auto, clear, records>>
  BY DEF input
<1>2. \A s : Form(s)' = Form(s) /\ InOrder(s)' = InOrder(s)
  BY <1>1 DEF Form, InOrder, ShardFormat
<1>3. \A s : Comparable(s)' = Comparable(s)
  BY <1>1 DEF Comparable, HeadTells, ShardFormat
<1>4. Shards' = Shards
  BY <1>1 DEF Shards, ShardsOf
<1> QED BY <1>1, <1>2, <1>3, <1>4 DEF Given

\* A larger multiple is of a larger number.
LEMMA MultiplesGrow ==
  ASSUME NEW m \in Nat, NEW a \in Nat, NEW b \in Nat, a <= b
  PROVE  a * m \in Nat /\ b * m \in Nat /\ a * m <= b * m
<1>1. PICK k \in Nat : b = a + k
  <2>1. b - a \in Nat /\ b = a + (b - a)
    OBVIOUS
  <2> QED BY <2>1
<1>2. k * m \in Nat /\ a * m \in Nat
  OBVIOUS
<1>3. b * m = a * m + k * m
  BY <1>1
<1> QED BY <1>2, <1>3

\* What a division leaves.
LEMMA Division ==
  ASSUME NEW n \in Nat, NEW m \in Nat \ {0}
  PROVE  /\ (n \div m) \in Nat /\ (n \div m) <= n /\ m * (n \div m) <= n
         /\ m <= n => (n \div m) # 0
<1> DEFINE p == n \div m
           r == n % m
<1>1. p \in Int /\ r \in 0..(m - 1) /\ n = m * p + r
  OBVIOUS
<1> SUFFICES p \in Nat /\ p <= n /\ m * p <= n /\ (m <= n => p # 0)
  OBVIOUS
<1> HIDE DEF p, r
<1>2. p >= 0
  <2>1. SUFFICES ASSUME p <= 0 - 1 PROVE FALSE
    BY <1>1
  <2>2. m * p <= 0 - m
    BY <2>1, <1>1
  <2> QED BY <1>1, <2>2
<1>3. p \in Nat /\ m * p \in Nat /\ m * p >= p
  BY <1>1, <1>2
<1> QED BY <1>1, <1>3

(***************************************************************************)
(* A source is cut into shards that follow one another and cover it.       *)
(***************************************************************************)
Shard == [src : 1..2, start : Nat, end : Nat]

CutsWell(q, s) ==
  LET size == Len(srcs[s].bytes)
  IN /\ q \in Seq(Shard)
     /\ \A i \in 1..Len(q) : /\ q[i].src = s
                             /\ q[i].start \in 0..size /\ q[i].end \in 0..(MaxLen + 1)
     /\ \A i, j \in 1..Len(q) : i < j => q[i].end <= q[j].start
     /\ \A o \in 0..(size - 1) :
          \E i \in 1..Len(q) : q[i].start <= o /\ o < q[i].end

LEMMA ShardsOfCut ==
  ASSUME Given, NEW s \in 1..2
  PROVE  CutsWell(ShardsOf(s), s)
<1> DEFINE size  == Len(srcs[s].bytes)
           parts == Parts(size)
           per   == size \div parts
<1>1. size \in 0..MaxLen /\ size \in Nat /\ MaxLen \in Nat
  BY FramingAssumption DEF Given
<1>2. CASE ~srcs[s].sized
  <2> DEFINE sh == [src |-> s, start |-> 0, end |-> MaxLen + 1]
  <2>1. ShardsOf(s) = <<sh>> /\ sh \in Shard
    BY <1>1, <1>2 DEF ShardsOf, Shard
  <2>2. sh.src = s /\ sh.start = 0 /\ sh.end = MaxLen + 1
    OBVIOUS
  <2> HIDE DEF sh, size
  <2>3. <<sh>> \in Seq(Shard) /\ Len(<<sh>>) = 1 /\ <<sh>>[1] = sh
    BY <2>1
  <2>4. /\ \A i \in 1..1 : /\ <<sh>>[i].src = s
                           /\ <<sh>>[i].start \in 0..size
                           /\ <<sh>>[i].end \in 0..(MaxLen + 1)
        /\ \A i, j \in 1..1 : i < j => <<sh>>[i].end <= <<sh>>[j].start
        /\ \A o \in 0..(size - 1) : sh.start <= o /\ o < sh.end
    BY <1>1, <2>2, <2>3
  <2> QED BY <2>1, <2>3, <2>4 DEF CutsWell, size
<1>3. CASE srcs[s].sized /\ size = 0
  BY <1>1, <1>3 DEF ShardsOf, CutsWell
<1>4. CASE srcs[s].sized /\ size # 0
  <2>1. parts \in Nat \ {0} /\ parts <= size
    <3> HIDE DEF size
    <3> DEFINE byTarget == (size + TargetShard - 1) \div TargetShard
               byMin == size \div MinShard
    <3>1. byTarget \in Int /\ byMin \in Int /\ MaxShards \in Nat
      BY <1>1, ScanAssumption
    <3>2. byMin <= size
      BY <1>1, Division, ScanAssumption
    <3>3. parts = Larger(Shorter(Shorter(byTarget, byMin), MaxShards), 1)
      BY DEF Parts
    <3> HIDE DEF byTarget, byMin, parts
    <3> QED BY <1>1, <1>4, <3>1, <3>2, <3>3 DEF Larger, Shorter
  <2>2. per \in Nat \ {0} /\ parts * per <= size
    <3> HIDE DEF size, parts
    <3>1. (size \div parts) \in Nat /\ (size \div parts) # 0 /\ parts * (size \div parts) <= size
      BY <1>1, <2>1, Division
    <3> QED BY <3>1
  <2> DEFINE q == [i \in 1..parts |-> [src |-> s, start |-> (i - 1) * per,
                                       end |-> EndOf(i - 1, parts, per)]]
  <2>3. ShardsOf(s) = q
    BY <1>4 DEF ShardsOf
  <2> HIDE DEF size, parts, per
  <2>4. ASSUME NEW i \in 1..parts
        PROVE  /\ i \in Nat /\ i - 1 \in Nat
               /\ q[i].src = s /\ q[i].start = (i - 1) * per
               /\ q[i].end = IF i = parts THEN MaxLen + 1 ELSE i * per
    <3>1. i \in Nat /\ i - 1 \in Nat /\ (i - 1) + 1 = i /\ (i - 1 = parts - 1 <=> i = parts)
      BY <2>1
    <3>2. EndOf(i - 1, parts, per) = IF i = parts THEN MaxLen + 1 ELSE i * per
      BY <3>1 DEF EndOf
    <3> QED BY <3>1, <3>2
  <2>5. \A a \in 0..parts : a \in Nat /\ a * per \in 0..size
    <3>1. ASSUME NEW a \in 0..parts PROVE a \in Nat /\ a * per \in Nat /\ a * per <= parts * per
      BY <2>1, <2>2, MultiplesGrow
    <3>2. parts * per \in Int
      BY <2>1, <2>2
    <3>3. ASSUME NEW a \in 0..parts PROVE a * per \in 0..size
      <4>1. PICK x, y : x = a * per /\ y = parts * per
        OBVIOUS
      <4>2. x \in Nat /\ y \in Int /\ x <= y /\ y <= size
        BY <2>2, <3>1, <3>2, <4>1
      <4>3. x \in 0..size
        BY <1>1, <4>2
      <4> QED BY <4>1, <4>3
    <3> QED BY <3>1, <3>3
  <2>6. ASSUME NEW i \in 1..parts
        PROVE  /\ q[i].src = s /\ q[i] \in Shard
               /\ q[i].start \in 0..size /\ q[i].end \in 0..(MaxLen + 1)
    <3>1. i \in 0..parts /\ i - 1 \in 0..parts
      BY <2>1
    <3>2. q[i].start \in 0..size
      BY <2>4, <2>5, <3>1
    <3>3. q[i].end \in 0..(MaxLen + 1)
      <4>1. i * per \in 0..(MaxLen + 1) /\ MaxLen + 1 \in 0..(MaxLen + 1)
        BY <1>1, <2>5, <3>1
      <4> QED BY <2>4, <4>1
    <3>4. q[i] = [src |-> s, start |-> q[i].start, end |-> q[i].end]
      OBVIOUS
    <3>5. q[i].src = s
      OBVIOUS
    <3> HIDE DEF q
    <3>6. q[i].start \in Nat /\ q[i].end \in Nat
      BY <1>1, <3>2, <3>3
    <3> QED BY <3>2, <3>3, <3>4, <3>5, <3>6 DEF Shard
  <2>7. q \in Seq(Shard) /\ Len(q) = parts
    <3>1. q \in [1..parts -> Shard]
      BY <2>6
    <3> HIDE DEF q
    <3> QED BY <2>1, <3>1, SeqDef, LenProperties
  <2>8. ASSUME NEW i \in 1..parts, NEW j \in 1..parts, i < j
        PROVE  q[i].end <= q[j].start
    <3>1. /\ i # parts /\ i \in Nat /\ j - 1 \in Nat /\ i <= j - 1
      BY <2>1, <2>8
    <3>2. q[i].end = i * per /\ q[j].start = (j - 1) * per
      BY <2>4, <3>1
    <3>3. i * per <= (j - 1) * per
      BY <2>2, <3>1, MultiplesGrow
    <3> QED BY <3>2, <3>3
  <2>9. ASSUME NEW o \in 0..(size - 1)
        PROVE  \E i \in 1..parts : q[i].start <= o /\ o < q[i].end
    <3> DEFINE S == {i \in 1..parts : (i - 1) * per <= o}
    <3>1. S \subseteq Nat /\ 1 \in S /\ 1 <= parts /\ o \in Nat /\ o <= MaxLen
      <4>1. 1 \in 1..parts /\ 1 - 1 = 0 /\ 0 * per = 0 /\ o \in Nat /\ o <= MaxLen
        BY <1>1, <2>1, <2>2
      <4>2. (1 - 1) * per <= o
        BY <4>1
      <4> QED BY <2>1, <4>1, <4>2
    <3>2. PICK i \in S : \A y \in S : y <= parts => y <= i
      <4> HIDE DEF S
      <4> QED BY <2>1, <3>1, LastUpTo
    <3>3. i \in 1..parts /\ q[i].start <= o
      BY <2>4, <3>2
    <3>4. o < q[i].end
      <4>1. CASE i = parts
        BY <1>1, <2>4, <3>1, <4>1
      <4>2. CASE i # parts
        <5>1. i + 1 \in 1..parts /\ i + 1 <= parts /\ ~(i + 1 <= i) /\ (i + 1) - 1 = i
          BY <2>1, <3>3, <4>2
        <5>2. ~(((i + 1) - 1) * per <= o)
          BY <3>2, <5>1
        <5>3. ~(i * per <= o) /\ i * per \in Int
          BY <2>5, <3>3, <5>1, <5>2
        <5>4. q[i].end = i * per
          BY <2>4, <3>3, <4>2
        <5> QED BY <3>1, <5>3, <5>4
      <4> QED BY <4>1, <4>2
    <3> QED BY <3>3, <3>4
  <2> HIDE DEF q
  <2> QED BY <2>3, <2>6, <2>7, <2>8, <2>9 DEF CutsWell, size
<1> QED BY <1>2, <1>3, <1>4

(***************************************************************************)
(* The plan: each place of a source is in one shard, and in one only.      *)
(***************************************************************************)
InShard(i, o) == Shards[i].start <= o /\ o < Shards[i].end

Planned ==
  /\ Len(Shards) \in Nat
  /\ \A i \in 1..Len(Shards) :
       /\ Shards[i].src \in 1..2
       /\ Shards[i].start \in 0..Len(srcs[Shards[i].src].bytes)
       /\ Shards[i].end \in 0..(MaxLen + 1)
  /\ \A i, j \in 1..Len(Shards) : \A o \in Nat :
       i # j /\ Shards[i].src = Shards[j].src => ~(InShard(i, o) /\ InShard(j, o))
  /\ \A s \in 1..2, o \in Nat :
       o < Len(srcs[s].bytes) => \E i \in 1..Len(Shards) : Shards[i].src = s /\ InShard(i, o)

LEMMA ShardsArePlanned ==
  ASSUME Given
  PROVE  Planned
<1> DEFINE a == ShardsOf(1)
           b == ShardsOf(2)
<1>1. CutsWell(a, 1) /\ CutsWell(b, 2)
  BY ShardsOfCut
<1>2. \A s \in 1..2 : Len(srcs[s].bytes) \in Nat
  BY LenProperties DEF Given
<1> HIDE DEF a, b
<1>3. a \in Seq(Shard) /\ b \in Seq(Shard)
  BY <1>1 DEF CutsWell
<1>4. PICK m, n : m = Len(a) /\ n = Len(b)
  OBVIOUS
<1>5. m \in Nat /\ n \in Nat
  BY <1>3, <1>4, LenProperties
<1>6. Shards = a \o b
  BY DEF Shards, a, b
<1>7. /\ Len(Shards) = m + n
      /\ \A i \in 1..m : Shards[i] = a[i]
      /\ \A i \in 1..n : Shards[m + i] = b[i]
  <2>1. Len(a \o b) = m + n
    BY <1>3, <1>4, ConcatProperties
  <2>2. \A i \in 1..(m + n) : (a \o b)[i] = IF i <= m THEN a[i] ELSE b[i - m]
    BY <1>3, <1>4, ConcatProperties
  <2>3. \A i \in 1..m : i \in 1..(m + n) /\ i <= m
    BY <1>5
  <2>4. \A i \in 1..n : m + i \in 1..(m + n) /\ ~(m + i <= m) /\ (m + i) - m = i
    BY <1>5
  <2> QED BY <1>6, <2>1, <2>2, <2>3, <2>4
<1>8. ASSUME NEW i \in 1..Len(Shards)
      PROVE  \/ i \in 1..m /\ Shards[i] = a[i]
             \/ i \in (m + 1)..(m + n) /\ i - m \in 1..n /\ Shards[i] = b[i - m]
  <2>1. CASE i <= m
    BY <1>5, <1>7, <2>1
  <2>2. CASE ~(i <= m)
    <3>1. i \in (m + 1)..(m + n) /\ i - m \in 1..n /\ m + (i - m) = i
      BY <1>5, <1>7, <2>2
    <3> QED BY <1>7, <3>1
  <2> QED BY <2>1, <2>2
<1>9. /\ \A i \in 1..m : a[i].src = 1 /\ a[i].start \in 0..Len(srcs[1].bytes)
                                     /\ a[i].end \in 0..(MaxLen + 1)
      /\ \A i \in 1..n : b[i].src = 2 /\ b[i].start \in 0..Len(srcs[2].bytes)
                                     /\ b[i].end \in 0..(MaxLen + 1)
  BY <1>1, <1>4 DEF CutsWell
<1>10. /\ \A i, j \in 1..m : i < j => a[i].end <= a[j].start
       /\ \A i, j \in 1..n : i < j => b[i].end <= b[j].start
  BY <1>1, <1>4 DEF CutsWell
<1>11. /\ \A o \in 0..(Len(srcs[1].bytes) - 1) :
            \E i \in 1..m : a[i].start <= o /\ o < a[i].end
       /\ \A o \in 0..(Len(srcs[2].bytes) - 1) :
            \E i \in 1..n : b[i].start <= o /\ o < b[i].end
  BY <1>1, <1>4 DEF CutsWell
<1>12. ASSUME NEW i \in 1..Len(Shards)
       PROVE  /\ Shards[i].src \in 1..2
              /\ Shards[i].start \in 0..Len(srcs[Shards[i].src].bytes)
              /\ Shards[i].end \in 0..(MaxLen + 1)
  BY <1>8, <1>9
<1>13. ASSUME NEW i \in 1..Len(Shards), NEW j \in 1..Len(Shards), i < j,
              Shards[i].src = Shards[j].src
       PROVE  Shards[i].end <= Shards[j].start
  <2>1. CASE Shards[i].src = 1
    <3>1. ASSUME NEW k \in 1..Len(Shards), Shards[k].src = 1
          PROVE  k \in 1..m /\ Shards[k] = a[k]
      <4>1. ~(k - m \in 1..n /\ Shards[k] = b[k - m])
        BY <1>9, <3>1
      <4> QED BY <1>8, <4>1
    <3>2. i \in 1..m /\ Shards[i] = a[i] /\ j \in 1..m /\ Shards[j] = a[j]
      BY <1>13, <2>1, <3>1
    <3> QED BY <1>10, <1>13, <3>2
  <2>2. CASE Shards[i].src = 2
    <3>1. ASSUME NEW k \in 1..Len(Shards), Shards[k].src = 2
          PROVE  k - m \in 1..n /\ Shards[k] = b[k - m]
      <4>1. ~(k \in 1..m /\ Shards[k] = a[k])
        BY <1>9, <3>1
      <4> QED BY <1>8, <4>1
    <3>2. /\ i - m \in 1..n /\ Shards[i] = b[i - m]
          /\ j - m \in 1..n /\ Shards[j] = b[j - m]
      BY <1>13, <2>2, <3>1
    <3>3. i - m < j - m
      BY <1>5, <1>7, <1>13
    <3> QED BY <1>10, <3>2, <3>3
  <2> QED BY <1>12, <2>1, <2>2
<1>14. ASSUME NEW i \in 1..Len(Shards), NEW j \in 1..Len(Shards), NEW o \in Nat,
              i # j, Shards[i].src = Shards[j].src, InShard(i, o), InShard(j, o)
       PROVE  FALSE
  <2>1. ASSUME NEW x \in 1..Len(Shards), NEW y \in 1..Len(Shards), x < y,
               Shards[x].src = Shards[y].src, InShard(x, o), InShard(y, o)
        PROVE  FALSE
    <3>1. PICK u, v : u = Shards[x].end /\ v = Shards[y].start
      OBVIOUS
    <3>2. u <= v /\ o < u /\ v <= o
      BY <1>13, <2>1, <3>1 DEF InShard
    <3>3. u \in Int /\ v \in Int
      BY <1>2, <1>12, <3>1
    <3> QED BY <3>2, <3>3
  <2>2. i < j \/ j < i
    BY <1>5, <1>7, <1>14
  <2> QED BY <1>14, <2>1, <2>2
<1>15. ASSUME NEW s \in 1..2, NEW o \in Nat, o < Len(srcs[s].bytes)
       PROVE  \E i \in 1..Len(Shards) : Shards[i].src = s /\ InShard(i, o)
  <2>1. o \in 0..(Len(srcs[s].bytes) - 1)
    BY <1>2, <1>15
  <2>2. CASE s = 1
    <3>1. PICK i \in 1..m : a[i].start <= o /\ o < a[i].end
      BY <1>11, <2>1, <2>2
    <3>2. i \in 1..Len(Shards) /\ Shards[i] = a[i]
      BY <1>5, <1>7
    <3> QED BY <1>9, <2>2, <3>1, <3>2 DEF InShard
  <2>3. CASE s = 2
    <3>1. PICK i \in 1..n : b[i].start <= o /\ o < b[i].end
      BY <1>11, <2>1, <2>3
    <3>2. m + i \in 1..Len(Shards) /\ Shards[m + i] = b[i]
      BY <1>5, <1>7
    <3> QED BY <1>9, <2>3, <3>1, <3>2 DEF InShard
  <2> QED BY <2>2, <2>3
<1>16. Len(Shards) \in Nat
  BY <1>5, <1>7
<1> QED BY <1>12, <1>14, <1>15, <1>16 DEF Planned

(***************************************************************************)
(* The initial states.                                                     *)
(***************************************************************************)
LEMMA InitScanInv == Init => ScanInv
<1> SUFFICES ASSUME Init PROVE ScanInv
  OBVIOUS
<1>1. Len(Shards) \in Nat
  BY InitGiven, ShardsArePlanned DEF Planned
<1>2. PICK W \in kSubset(HowManyStart, Workers) :
        state = [w \in Workers |-> IF w \in W THEN "draw" ELSE "done"]
  BY DEF Init
<1>3. W \subseteq Workers /\ Cardinality(W) = HowManyStart
  BY DEF kSubset
<1>4. Control
  BY <1>1, <1>2 DEF Init, Control
<1>5. ShardsExclusive
  BY <1>2 DEF Init, ShardsExclusive
<1>6. Prompt
  <2>1. CheckEvery \in Nat \ {0}
    BY ScanAssumption
  <2> QED BY <1>2, <2>1 DEF Init, Prompt
<1>7. NilIsUndisturbed
  <2>1. next = 0 /\ result = "running" /\ firstErr = "none"
    BY DEF Init
  <2>2. CASE W = {}
    <3>1. HowManyStart = 0 /\ Cardinality(Workers) # 0
      BY <1>3, <2>2, FS_EmptySet, ScanAssumption
    <3>2. Len(Shards) = 0
      BY <3>1 DEF HowManyStart, Shorter
    <3> QED BY <2>1, <3>2 DEF NilIsUndisturbed
  <2>3. CASE W # {}
    <3>1. PICK w \in W : TRUE
      BY <2>3
    <3>2. w \in Workers /\ state[w] # "done"
      BY <1>2, <1>3, <3>1
    <3> QED BY <2>1, <3>2 DEF NilIsUndisturbed
  <2> QED BY <2>2, <2>3
<1> QED BY <1>4, <1>5, <1>6, <1>7 DEF ScanInv

(***************************************************************************)
(* One step at a time.                                                     *)
(***************************************************************************)
LEMMA DrawKeeps ==
  ASSUME ScanInv, NEW w \in Workers, Draw(w)
  PROVE  ScanInv'
<1>1. /\ state[w] = "draw" /\ next' = next + 1 /\ Shards' = Shards
      /\ UNCHANGED <<cancelled, firstErr, result, late>>
  BY DEF Draw, input, Shards, ShardsOf
<1>2. CASE next >= Len(Shards) \/ cancelled
  <2>1. state' = [state EXCEPT ![w] = "done"] /\ UNCHANGED <<shard, at, count, blind>>
    BY <1>2 DEF Draw
  <2>2. Control'
    BY <1>1, <2>1 DEF ScanInv, Control
  <2>3. ShardsExclusive'
    BY <1>1, <2>1 DEF ScanInv, Control, ShardsExclusive
  <2>4. Prompt'
    BY <1>1, <2>1 DEF ScanInv, Control, Prompt
  <2>5. NilIsUndisturbed'
    BY <1>1, <1>2, <2>1 DEF ScanInv, Control, NilIsUndisturbed
  <2> QED BY <2>2, <2>3, <2>4, <2>5 DEF ScanInv
<1>3. CASE ~(next >= Len(Shards) \/ cancelled)
  <2>1. /\ state' = [state EXCEPT ![w] = "scan"]
        /\ shard' = [shard EXCEPT ![w] = next + 1]
        /\ count' = [count EXCEPT ![w] = 0]
    BY <1>3 DEF Draw, Enter
  <2>2. Control'
    <3>1. next + 1 \in 1..Len(Shards)
      BY <1>3 DEF ScanInv, Control
    <3>2. blind' \subseteq blind \cup {Shards[next + 1]}
      BY <1>3 DEF Draw, Enter
    <3>3. blind' \subseteq {Shards[i] : i \in 1..Len(Shards)}
      BY <3>1, <3>2 DEF ScanInv, Control
    <3> QED BY <1>1, <2>1, <3>3 DEF ScanInv, Control
  <2>3. ShardsExclusive'
    BY <1>1, <1>3, <2>1 DEF ScanInv, Control, ShardsExclusive
  <2>4. Prompt'
    <3>1. late[w] = 0 /\ (0 % CheckEvery) = 0
      BY <1>3, ModStep, ScanAssumption DEF ScanInv, Control, Prompt
    <3> QED BY <1>1, <2>1, <3>1 DEF ScanInv, Control, Prompt
  <2>5. NilIsUndisturbed'
    <3>1. state'[w] # "done" /\ result = "running"
      BY <1>1, <2>1 DEF ScanInv, Control, NilIsUndisturbed
    <3> QED BY <1>1, <3>1 DEF ScanInv, NilIsUndisturbed
  <2> QED BY <2>2, <2>3, <2>4, <2>5 DEF ScanInv
<1> QED BY <1>2, <1>3

\* A worker that hands a record over.
LEMMA HandOverKeeps ==
  ASSUME ScanInv, NEW w \in Workers, HandOver(w)
  PROVE  ScanInv'
<1>1. /\ state[w] = "scan" /\ Shards' = Shards
      /\ late' = [late EXCEPT ![w] = @ + (IF cancelled THEN 1 ELSE 0)]
      /\ UNCHANGED <<next, cancelled, firstErr, blind, result>>
      /\ IF LooksAtContext(count[w] + 1) /\ cancelled
         THEN /\ state' = [state EXCEPT ![w] = "draw"]
              /\ shard' = [shard EXCEPT ![w] = 0]
              /\ count' = [count EXCEPT ![w] = 0]
         ELSE /\ count' = [count EXCEPT ![w] = @ + 1]
              /\ UNCHANGED <<state, shard>>
  BY DEF HandOver, Leave, input, Shards, ShardsOf
<1>2. Control'
  <2>1. late' \in [Workers -> Nat]
    BY <1>1 DEF ScanInv, Control
  <2>2. /\ state \in [Workers -> {"draw", "scan", "done"}]
        /\ shard \in [Workers -> Nat] /\ count \in [Workers -> Nat]
    BY DEF ScanInv, Control
  <2>3. /\ state' \in [Workers -> {"draw", "scan", "done"}]
        /\ shard' \in [Workers -> Nat] /\ count' \in [Workers -> Nat]
    <3>1. CASE LooksAtContext(count[w] + 1) /\ cancelled
      BY <1>1, <2>2, <3>1
    <3>2. CASE ~(LooksAtContext(count[w] + 1) /\ cancelled)
      BY <1>1, <2>2, <3>2
    <3> QED BY <3>1, <3>2
  <2>4. UNCHANGED <<Shards, next, cancelled, firstErr, blind>>
    BY <1>1
  <2> QED BY <2>1, <2>3, <2>4 DEF ScanInv, Control
<1>3. ShardsExclusive'
  BY <1>1 DEF ScanInv, Control, ShardsExclusive
<1>4. Prompt'
  <2>1. /\ CheckEvery \in Nat \ {0} /\ count[w] \in Nat
        /\ late[w] \in Nat /\ late[w] <= (count[w] % CheckEvery)
    BY <1>1, ScanAssumption DEF ScanInv, Control, Prompt
  <2>2. /\ (count[w] % CheckEvery) \in 0..(CheckEvery - 1)
        /\ ((count[w] + 1) % CheckEvery) \in 0..(CheckEvery - 1)
        /\ ((count[w] + 1) % CheckEvery) # 0
             => ((count[w] + 1) % CheckEvery) = (count[w] % CheckEvery) + 1
    <3> DEFINE n == count[w]
    <3>1. n \in Nat /\ n + 1 \in Nat
      BY <2>1
    <3> HIDE DEF n
    <3>2. /\ (n % CheckEvery) \in 0..(CheckEvery - 1)
          /\ ((n + 1) % CheckEvery) # 0
               => ((n + 1) % CheckEvery) = (n % CheckEvery) + 1
      BY <2>1, <3>1, ModStep
    <3>3. ((n + 1) % CheckEvery) \in 0..(CheckEvery - 1)
      BY <2>1, <3>1, ModStep
    <3> QED BY <3>2, <3>3 DEF n
  <2>3. /\ late'[w] = late[w] + (IF cancelled THEN 1 ELSE 0)
        /\ state'[w] = "scan" => count'[w] = count[w] + 1
        /\ \A v \in Workers \ {w} : /\ late'[v] = late[v] /\ count'[v] = count[v]
                                    /\ state'[v] = state[v]
    BY <1>1 DEF ScanInv, Control
  <2>4. late'[w] <= CheckEvery /\ (late'[w] > 0 => cancelled')
    BY <1>1, <2>1, <2>2, <2>3 DEF ScanInv, Prompt
  <2>5. state'[w] = "scan" => late'[w] <= ((count[w] + 1) % CheckEvery)
    <3>1. CASE ~cancelled
      BY <2>1, <2>2, <2>3, <3>1 DEF ScanInv, Prompt
    <3>2. CASE cancelled /\ ((count[w] + 1) % CheckEvery) # 0
      BY <2>1, <2>2, <2>3, <3>2
    <3>3. CASE cancelled /\ ((count[w] + 1) % CheckEvery) = 0
      BY <1>1, <3>3 DEF LooksAtContext, ScanInv, Control
    <3> QED BY <3>1, <3>2, <3>3
  <2>6. ASSUME NEW v \in Workers \ {w}
        PROVE  /\ late'[v] <= CheckEvery /\ (late'[v] > 0 => cancelled')
               /\ state'[v] = "scan" => late'[v] <= (count'[v] % CheckEvery)
    BY <1>1, <2>3 DEF ScanInv, Prompt
  <2> QED BY <2>3, <2>4, <2>5, <2>6 DEF Prompt
<1>5. NilIsUndisturbed'
  <2>1. state'[w] # "done" /\ result = "running"
    BY <1>1 DEF ScanInv, Control, NilIsUndisturbed
  <2> QED BY <1>1, <2>1 DEF ScanInv, NilIsUndisturbed
<1> QED BY <1>2, <1>3, <1>4, <1>5 DEF ScanInv

\* A worker that has finished its shard.
LEMMA ShardDoneKeeps ==
  ASSUME ScanInv, NEW w \in Workers, ShardDone(w)
  PROVE  ScanInv'
<1>1. /\ state[w] = "scan" /\ state' = [state EXCEPT ![w] = "draw"]
      /\ shard' = [shard EXCEPT ![w] = 0] /\ count' = [count EXCEPT ![w] = 0]
      /\ Shards' = Shards
      /\ UNCHANGED <<next, cancelled, firstErr, blind, result, late>>
  BY DEF ShardDone, Leave, input, Shards, ShardsOf
<1>2. Control'
  BY <1>1 DEF ScanInv, Control
<1>3. ShardsExclusive'
  BY <1>1 DEF ScanInv, Control, ShardsExclusive
<1>4. Prompt'
  BY <1>1 DEF ScanInv, Control, Prompt
<1>5. NilIsUndisturbed'
  BY <1>1 DEF ScanInv, Control, NilIsUndisturbed
<1> QED BY <1>2, <1>3, <1>4, <1>5 DEF ScanInv

\* A worker that fails cancels the others.
LEMMA WorkerFailsKeeps ==
  ASSUME ScanInv, NEW w \in Workers, WorkerFails(w)
  PROVE  ScanInv'
<1>1. /\ state[w] = "scan" /\ state' = [state EXCEPT ![w] = "done"]
      /\ firstErr' = IF firstErr = "none" THEN w ELSE firstErr
      /\ cancelled' = (cancelled \/ firstErr = "none")
      /\ shard' = [shard EXCEPT ![w] = 0] /\ count' = [count EXCEPT ![w] = 0]
      /\ Shards' = Shards /\ UNCHANGED <<next, blind, result, late>>
  BY DEF WorkerFails, Fail, Leave, input, Shards, ShardsOf
<1>2. cancelled'
  BY <1>1 DEF ScanInv, Control
<1>3. Control'
  BY <1>1, <1>2 DEF ScanInv, Control
<1>4. ShardsExclusive'
  BY <1>1 DEF ScanInv, Control, ShardsExclusive
<1>5. Prompt'
  BY <1>1, <1>2 DEF ScanInv, Control, Prompt
<1>6. NilIsUndisturbed'
  <2>1. shard[w] \in 1..Len(Shards) /\ Len(Shards) \in Nat
    BY <1>1 DEF ScanInv, Control, ShardsExclusive
  <2>2. result = "running" /\ Len(Shards) # 0
    BY <1>1, <2>1 DEF ScanInv, NilIsUndisturbed
  <2> QED BY <1>1, <1>2, <2>2 DEF NilIsUndisturbed
<1> QED BY <1>3, <1>4, <1>5, <1>6 DEF ScanInv

\* The caller cancels.
LEMMA CallerCancelsKeeps == ScanInv /\ CallerCancels => ScanInv'
<1> SUFFICES ASSUME ScanInv, CallerCancels PROVE ScanInv'
  OBVIOUS
<1>1. /\ cancelled' = TRUE /\ result = "running" /\ Shards' = Shards
      /\ UNCHANGED <<next, firstErr, state, shard, count, blind, result, late>>
  BY DEF CallerCancels, input, worker, Shards, ShardsOf
<1> QED
  BY <1>1 DEF ScanInv, Control, ShardsExclusive, Prompt, NilIsUndisturbed

\* The call returns once every worker is done.
LEMMA ReturnKeeps == ScanInv /\ Return => ScanInv'
<1> SUFFICES ASSUME ScanInv, Return PROVE ScanInv'
  OBVIOUS
<1>1. /\ result' = Outcome /\ \A w \in Workers : state[w] = "done"
      /\ Shards' = Shards
      /\ UNCHANGED <<next, cancelled, firstErr, state, shard, count, blind, late>>
  BY DEF Return, input, worker, Shards, ShardsOf
<1>2. Control' /\ ShardsExclusive' /\ Prompt'
  BY <1>1 DEF ScanInv, Control, ShardsExclusive, Prompt
<1>3. result' = "nil" => firstErr = "none" /\ (cancelled => Len(Shards) = 0)
  <2>1. "nil" \notin Workers
    BY ScanAssumption
  <2> QED BY <1>1, <2>1 DEF Outcome, ScanInv, Control, NilIsUndisturbed
<1>4. NilIsUndisturbed'
  BY <1>1, <1>3 DEF ScanInv, Control, NilIsUndisturbed
<1> QED BY <1>2, <1>4 DEF ScanInv

\* Every step keeps the invariant.
LEMMA StepKeepsScanInv == ScanInv /\ [Next]_vars => ScanInv'
<1> SUFFICES ASSUME ScanInv, [Next]_vars PROVE ScanInv'
  OBVIOUS
<1>1. CASE UNCHANGED vars
  <2>1. Shards' = Shards
    BY <1>1 DEF vars, input, Shards, ShardsOf
  <2> QED
    BY <1>1, <2>1 DEF vars, worker, ScanInv, Control, ShardsExclusive, Prompt,
                      NilIsUndisturbed
<1> QED
  BY <1>1, DrawKeeps, HandOverKeeps, ShardDoneKeeps, WorkerFailsKeeps,
     CallerCancelsKeeps, ReturnKeeps DEF Next

\* The invariant holds of every scan.
LEMMA ScanInvHolds == Spec => []ScanInv
  BY InitScanInv, StepKeepsScanInv, PTL DEF Spec

(***************************************************************************)
(* After ctx is done a worker hands over at most cancelCheckInterval more  *)
(* records, whatever that is (parallel.go:226-238).                        *)
(***************************************************************************)
THEOREM ScanStopsSoon == Spec => []StopsSoon
<1>1. ScanInv => StopsSoon
  BY DEF ScanInv, Prompt, StopsSoon
<1> QED BY <1>1, ScanInvHolds, PTL

(***************************************************************************)
(* No shard is scanned by two workers at a time, and none drawn is past    *)
(* the plan (parallel.go:118-133).                                         *)
(***************************************************************************)
THEOREM NoShardIsShared == Spec => []ShardsExclusive
<1>1. ScanInv => ShardsExclusive
  BY DEF ScanInv
<1> QED BY <1>1, ScanInvHolds, PTL

(***************************************************************************)
(* A scan that returns nil met with no error and, if there was anything to *)
(* read, with no cancellation, and it left no shard undrawn.  While it     *)
(* runs undisturbed and shards are left, some worker is there to draw them *)
(* (parallel.go:77-79 and 96-147).                                         *)
(***************************************************************************)
THEOREM NilMeansUndisturbed == Spec => []NilIsUndisturbed
<1>1. ScanInv => NilIsUndisturbed
  BY DEF ScanInv
<1> QED BY <1>1, ScanInvHolds, PTL

\* ctx is done if somebody made it so; a worker that did is the first to fail.
Stopped ==
  /\ stopped \in Workers \cup {"nobody", "caller"}
  /\ stopped = "nobody" <=> ~cancelled
  /\ stopped \in Workers => firstErr = stopped
  /\ StopIsReported

LEMMA StepKeepsStopped == ScanInv /\ Stopped /\ [Next]_vars => Stopped'
<1> SUFFICES ASSUME ScanInv, Stopped, [Next]_vars PROVE Stopped'
  OBVIOUS
<1>1. /\ firstErr \in Workers \cup {"none"}
      /\ firstErr # "none" => cancelled
      /\ cancelled \in BOOLEAN
      /\ result # "running" => \A w \in Workers : state[w] = "done"
  BY DEF ScanInv, Control, NilIsUndisturbed
<1>2. Workers \cap {"none", "nil", "cancelled", "running", "nobody", "caller"} = {}
  BY ScanAssumption
<1>3. UNCHANGED input => Shards' = Shards
  BY DEF input, Shards, ShardsOf
<1>4. CASE UNCHANGED <<input, cancelled, firstErr, result, stopped>>
  BY <1>3, <1>4 DEF Stopped, StopIsReported
<1>5. ASSUME NEW w \in Workers, WorkerFails(w) PROVE Stopped'
  <2>1. /\ state[w] = "scan" /\ UNCHANGED <<input, result>>
        /\ firstErr' = IF firstErr = "none" THEN w ELSE firstErr
        /\ cancelled' = (cancelled \/ firstErr = "none")
        /\ stopped' = IF cancelled THEN stopped ELSE w
    BY <1>5 DEF WorkerFails, Fail
  <2>2. result' = "running"
    BY <1>1, <2>1
  <2>3. cancelled'
    BY <1>1, <2>1
  <2>4. CASE cancelled
    <3>1. stopped' = stopped /\ stopped # "nobody"
      BY <2>1, <2>4 DEF Stopped
    <3>2. stopped \in Workers => firstErr' = stopped
      BY <1>2, <2>1 DEF Stopped
    <3> QED BY <2>2, <2>3, <3>1, <3>2 DEF Stopped, StopIsReported
  <2>5. CASE ~cancelled
    <3>1. stopped' = w /\ firstErr' = w
      BY <1>1, <2>1, <2>5
    <3> QED BY <1>2, <2>2, <2>3, <3>1 DEF Stopped, StopIsReported
  <2> QED BY <2>4, <2>5
<1>6. CASE CallerCancels
  <2>1. cancelled' /\ stopped' = "caller" /\ result' = "running"
    BY <1>6 DEF CallerCancels
  <2> QED BY <1>2, <2>1 DEF Stopped, StopIsReported
<1>7. CASE Return
  <2>1. result' = Outcome /\ UNCHANGED <<input, cancelled, firstErr, stopped>>
    BY <1>7 DEF Return
  <2>2. Len(Shards) # 0 =>
          \/ stopped = "nobody" /\ Outcome = "nil"
          \/ stopped \in Workers /\ Outcome = stopped
          \/ stopped = "caller" /\ Outcome # "nil"
    BY <1>1, <1>2 DEF Outcome, Stopped
  <2> QED BY <1>3, <2>1, <2>2 DEF Stopped, StopIsReported
<1>8. ASSUME NEW w \in Workers, Draw(w) \/ HandOver(w) \/ ShardDone(w)
      PROVE  UNCHANGED <<input, cancelled, firstErr, result, stopped>>
  BY <1>8 DEF Draw, HandOver, ShardDone
<1>9. UNCHANGED vars => UNCHANGED <<input, cancelled, firstErr, result, stopped>>
  BY DEF vars
<1> QED BY <1>4, <1>5, <1>6, <1>7, <1>8, <1>9 DEF Next

(***************************************************************************)
(* What the call returns is what stopped it (parallel.go:68-69 and 97-105, *)
(* 142-145): nil if nobody did, the error of the worker that did, and no   *)
(* nil for a caller who cancelled.                                         *)
(***************************************************************************)
THEOREM ScanReportsItsStop == Spec => []StopIsReported
<1>1. Init => Stopped
  BY ScanAssumption DEF Init, Stopped, StopIsReported
<1>2. Stopped => StopIsReported
  BY DEF Stopped
<1> QED BY <1>1, <1>2, ScanInvHolds, StepKeepsStopped, PTL DEF Spec
-----------------------------------------------------------------------------
(***************************************************************************)
(* Which records have been handed over.                                    *)
(***************************************************************************)
Bytes(s) == srcs[s].bytes

\* The records a parser finds in source s from position p on, and where it goes
\* on after the one at o.
Left(s, p) == RecordOffsets(Form(s), Bytes(s), p, TRUE)
After(s, o) == NextPosition(Form(s), Bytes(s), o, TRUE)

Source(i) == Shards[i].src

\* The records that begin in shard i.
Here(i) == {o \in InOrder(Source(i)) : InShard(i, o)}

\* A shard of a comparable source, entered with the head of the source.
Sighted(i) == Source(i) \in clear /\ Shards[i] \notin blind

\* A worker finds, of its source, what is left from where it is, and has
\* handed over what its shard holds before that.
OnTrack(w) ==
  LET i == shard[w]
      s == Source(i)
  IN /\ at[w] \in 0..Len(Bytes(s)) /\ Shards[i].start <= at[w]
     /\ Sighted(i) =>
          /\ Left(s, at[w]) = {o \in InOrder(s) : o >= at[w]}
          /\ \A o \in Here(i) : handed[<<s, o>>] = IF o < at[w] THEN 1 ELSE 0

\* A shard that was drawn, and that nobody scans any more.
Finished(i) ==
  /\ i <= next /\ ~cancelled
  /\ \A w \in Workers : state[w] = "scan" => shard[w] # i

\* Nothing of a shard is handed over before it is drawn; all of it is when it
\* is finished.
Tallied(i) ==
  /\ Source(i) \in clear /\ i > next => \A o \in Here(i) : handed[<<Source(i), o>>] = 0
  /\ Sighted(i) /\ Finished(i) => \A o \in Here(i) : handed[<<Source(i), o>>] = 1

\* Nothing is made up of a comparable source.
NothingElse == \A p \in Positioned : p[1] \in clear /\ p \notin records => handed[p] = 0

Tally ==
  /\ handed \in [Positioned -> Nat]
  /\ at \in [Workers -> 0..MaxLen]
  /\ \A w \in Workers : state[w] = "scan" => OnTrack(w)
  /\ \A i \in 1..Len(Shards) : Tallied(i)
  /\ NothingElse

Inv == ScanInv /\ Given /\ Tally

\* They are Framing's, for the bytes of the source.
LEMMA LeftIs ==
  ASSUME NEW s
  PROVE  \E f, c, t :
           /\ f = Form(s) /\ c = Bytes(s)
           /\ \A p : Left(s, p) = RecordOffsets(f, c, p, t)
           /\ \A o : After(s, o) = NextPosition(f, c, o, t)
           /\ InOrder(s) = RecordOffsets(f, c, StartOf(c), t)
           /\ Given /\ s \in clear =>
                /\ StartsLines(c) /\ Regular(f, c, t)
                /\ ~BlankRun(c) /\ ~GivesUp(c)
<1>1. PICK f, c, t : f = Form(s) /\ c = Bytes(s) /\ t = TRUE
  OBVIOUS
<1>2. /\ \A p : Left(s, p) = RecordOffsets(f, c, p, t)
      /\ \A o : After(s, o) = NextPosition(f, c, o, t)
  BY <1>1 DEF Left, After
<1>3. InOrder(s) = RecordOffsets(f, c, StartOf(c), t)
  BY <1>1 DEF InOrder, Form, Bytes
<1>4. Given /\ s \in clear =>
        StartsLines(c) /\ Regular(f, c, t) /\ ~BlankRun(c) /\ ~GivesUp(c)
  BY <1>1 DEF Given, Comparable, Form, Bytes
<1> QED BY <1>1, <1>2, <1>3, <1>4

\* The shards and what they hold stay what they are.
LEMMA ShardsStay ==
  ASSUME Given, UNCHANGED input
  PROVE  /\ Shards' = Shards /\ clear' = clear
         /\ \A i : Source(i)' = Source(i) /\ Here(i)' = Here(i)
         /\ \A s : Bytes(s)' = Bytes(s) /\ InOrder(s)' = InOrder(s)
         /\ \A s, p : Left(s, p)' = Left(s, p)
         /\ blind \subseteq blind' => \A i : Sighted(i)' => Sighted(i)
<1>1. Shards' = Shards /\ \A s : Form(s)' = Form(s) /\ InOrder(s)' = InOrder(s)
  BY GivenStays
<1>2. clear' = clear /\ srcs' = srcs
  BY DEF input
<1> QED BY <1>1, <1>2 DEF Source, Here, InShard, Bytes, Left, Sighted

\* What one shard holds.
LEMMA ShardIs ==
  ASSUME Given, NEW i \in 1..Len(Shards)
  PROVE  /\ Source(i) \in 1..2 /\ Bytes(Source(i)) \in Seq(Byte)
         /\ Len(Bytes(Source(i))) \in 0..MaxLen /\ Form(Source(i)) \in Formats
         /\ ShardFormat(Shards[i]) = Form(Source(i))
         /\ Shards[i].start \in 0..Len(Bytes(Source(i)))
         /\ Shards[i].end \in 0..(MaxLen + 1)
         /\ Here(i) \subseteq InOrder(Source(i))
<1>1. Planned
  BY ShardsArePlanned
<1>2. Source(i) \in 1..2
  BY <1>1 DEF Planned, Source
<1>3. /\ Bytes(Source(i)) \in Seq(Byte) /\ Len(Bytes(Source(i))) \in 0..MaxLen
      /\ Form(Source(i)) \in Formats
  BY <1>2 DEF Given, Bytes
<1>4. ShardFormat(Shards[i]) = Form(Source(i))
  BY DEF Form, ShardFormat, Source
<1>5. /\ Shards[i].start \in 0..Len(Bytes(Source(i)))
      /\ Shards[i].end \in 0..(MaxLen + 1)
  BY <1>1 DEF Planned, Source, Bytes
<1> QED BY <1>2, <1>3, <1>4, <1>5 DEF Here

\* Where the records of a source may be.
LEMMA InOrderIs ==
  ASSUME Given, NEW s \in 1..2, NEW o \in InOrder(s)
  PROVE  /\ o \in Nat /\ o < Len(Bytes(s)) /\ StartOf(Bytes(s)) <= o
         /\ <<s, o>> \in Positioned
<1>1. Bytes(s) \in Seq(Byte) /\ Len(Bytes(s)) \in 0..MaxLen /\ MaxLen \in Nat
  BY FramingAssumption DEF Given, Bytes
<1>2. PICK f, t : InOrder(s) = RecordOffsets(f, Bytes(s), StartOf(Bytes(s)), t)
  BY LeftIs
<1>3. StartOf(Bytes(s)) \in 0..Len(Bytes(s))
  BY <1>1, StartOfIs
<1>4. o \in Nat /\ o < Len(Bytes(s)) /\ StartOf(Bytes(s)) <= o
  BY <1>1, <1>2, <1>3, RecordsAre
<1> QED BY <1>1, <1>4 DEF Positioned

\* A worker whose shard nothing is handed over from stays on its track.
LEMMA StaysOnTrack ==
  ASSUME Given, UNCHANGED input, NEW v \in Workers, OnTrack(v),
         shard'[v] = shard[v], at'[v] = at[v], blind \subseteq blind',
         \A o \in Here(shard[v]) :
           handed'[<<Source(shard[v]), o>>] = handed[<<Source(shard[v]), o>>]
  PROVE  OnTrack(v)'
<1>1. PICK i, p : i = shard[v] /\ p = at[v]
  OBVIOUS
<1>0. shard'[v] = i /\ at'[v] = p
  BY <1>1
<1>2. PICK s : s = Source(i)
  OBVIOUS
<1>3. /\ p \in 0..Len(Bytes(s)) /\ Shards[i].start <= p
      /\ Sighted(i) =>
           /\ Left(s, p) = {o \in InOrder(s) : o >= p}
           /\ \A o \in Here(i) : handed[<<s, o>>] = IF o < p THEN 1 ELSE 0
  BY <1>1, <1>2 DEF OnTrack
<1>4. /\ Sighted(i)' => Sighted(i)
      /\ Source(i)' = s /\ Here(i)' = Here(i) /\ Shards' = Shards /\ clear' = clear
      /\ Bytes(s)' = Bytes(s) /\ Left(s, p)' = Left(s, p) /\ InOrder(s)' = InOrder(s)
  BY <1>2, ShardsStay
<1>5. \A o \in Here(i) : handed'[<<s, o>>] = handed[<<s, o>>]
  BY <1>1, <1>2
<1>6. /\ p \in 0..Len(Bytes(s)') /\ Shards'[i].start <= p
      /\ Sighted(i)' =>
           /\ Left(s, p)' = {o \in InOrder(s)' : o >= p}
           /\ \A o \in Here(i)' : handed'[<<s, o>>] = IF o < p THEN 1 ELSE 0
  BY <1>3, <1>4, <1>5
<1> QED BY <1>0, <1>4, <1>6 DEF OnTrack

\* A shard nothing is handed over from, and that is not finished, stays tallied.
LEMMA StaysTallied ==
  ASSUME Given, UNCHANGED input, NEW i \in 1..Len(Shards), Tallied(i),
         next \in Nat, next' \in Nat, next <= next', i \in Nat,
         Finished(i)' => Finished(i), blind \subseteq blind',
         \A o \in Here(i) : handed'[<<Source(i), o>>] = handed[<<Source(i), o>>]
  PROVE  Tallied(i)'
<1>1. i > next' => i > next
  OBVIOUS
<1> QED BY <1>1, ShardsStay DEF Tallied

(***************************************************************************)
(* The initial states: nothing is drawn, nothing handed over.              *)
(***************************************************************************)
LEMMA InitInv == Init => Inv
<1> SUFFICES ASSUME Init PROVE Inv
  OBVIOUS
<1>1. ScanInv /\ Given
  BY InitScanInv, InitGiven
<1>2. PICK W \in kSubset(HowManyStart, Workers) :
        state = [w \in Workers |-> IF w \in W THEN "draw" ELSE "done"]
  BY DEF Init
<1>3. /\ handed = [p \in Positioned |-> 0] /\ at = [w \in Workers |-> 0]
      /\ next = 0 /\ \A w \in Workers : state[w] # "scan"
  BY <1>2 DEF Init
<1>4. ASSUME NEW i \in 1..Len(Shards) PROVE Tallied(i)
  <2>1. \A o \in Here(i) : handed[<<Source(i), o>>] = 0
    BY <1>1, <1>3, ShardIs, InOrderIs
  <2>2. ~Finished(i)
    <3>1. Len(Shards) \in Nat
      BY <1>1 DEF ScanInv, Control
    <3> QED BY <1>3, <3>1 DEF Finished
  <2> QED BY <2>1, <2>2 DEF Tallied
<1>5. Tally
  BY <1>3, <1>4, FramingAssumption DEF Tally, NothingElse
<1> QED BY <1>1, <1>5 DEF Inv

(***************************************************************************)
(* A worker that draws a shard.                                            *)
(***************************************************************************)
\* Sent to an offset of a comparable source, Seek lands before all the records
\* from there on, and after those before.
LEMMA LandsInOrder ==
  ASSUME NEW f \in Formats, NEW c \in Seq(Byte), NEW t,
         StartsLines(c), Regular(f, c, t), ~BlankRun(c), ~GivesUp(c),
         NEW st \in 1..Len(c)
  PROVE  /\ Landing(c, st) \in st..Len(c)
         /\ \A o \in RecordOffsets(f, c, StartOf(c), t) :
              o \in Nat /\ (o >= st <=> o >= Landing(c, st))
         /\ RecordOffsets(f, c, Landing(c, st), t)
              = {o \in RecordOffsets(f, c, StartOf(c), t) : o >= Landing(c, st)}
<1>1. PICK p : p = Landing(c, st)
  OBVIOUS
<1>2. p \in st..Len(c) /\ Stops(c, p) /\ NoStart(c, st, p)
  BY <1>1, LandingLands DEF Lands
<1>3. RecordOffsets(f, c, p, t) = {o \in RecordOffsets(f, c, StartOf(c), t) : o >= st}
  BY <1>2, FromLandingOn
<1>4. /\ Len(c) \in Nat /\ p \in 0..Len(c) /\ p \in Nat /\ st \in Nat /\ st <= p
      /\ StartOf(c) \in 0..Len(c)
  BY <1>2, LenProperties, StartOfIs
<1>5. \A o \in RecordOffsets(f, c, p, t) : p <= o
  BY <1>4, RecordsAre
<1>6. RecordOffsets(f, c, StartOf(c), t) \subseteq Nat
  BY <1>4, RecordsAre
<1>7. ASSUME NEW o \in RecordOffsets(f, c, StartOf(c), t)
      PROVE  o \in Nat /\ (o >= st <=> o >= p)
  <2>1. o \in Nat /\ (o >= st => p <= o)
    BY <1>3, <1>5, <1>6
  <2> QED BY <1>4, <2>1
<1> QED BY <1>1, <1>2, <1>3, <1>7

\* From the start of its shard a worker finds what one parser finds there.
LEMMA ShardStartIs ==
  ASSUME Given, NEW i \in 1..Len(Shards), NEW p, p = ShardStart(Shards[i]),
         NEW s, s = Source(i)
  PROVE  /\ p \in 0..Len(Bytes(s)) /\ Shards[i].start <= p
         /\ s \in clear =>
              /\ Left(s, p) = {o \in InOrder(s) : o >= p}
              /\ \A o \in Here(i) : ~(o < p)
<1>1. PICK f, c, t :
        /\ f = Form(s) /\ c = Bytes(s)
        /\ \A x : Left(s, x) = RecordOffsets(f, c, x, t)
        /\ \A o : After(s, o) = NextPosition(f, c, o, t)
        /\ InOrder(s) = RecordOffsets(f, c, StartOf(c), t)
        /\ Given /\ s \in clear =>
             /\ StartsLines(c) /\ Regular(f, c, t)
             /\ ~BlankRun(c) /\ ~GivesUp(c)
  BY LeftIs
<1>0. PICK st : st = Shards[i].start
  OBVIOUS
<1>2. /\ s \in 1..2 /\ c \in Seq(Byte) /\ Len(c) \in Nat /\ f \in Formats
      /\ st \in 0..Len(c) /\ st \in Nat
  <2>1. /\ s \in 1..2 /\ c \in Seq(Byte) /\ f \in Formats /\ st \in 0..Len(c)
    BY <1>0, <1>1, ShardIs
  <2> QED BY <2>1, LenProperties
<1>3. p = IF st = 0 THEN StartOf(c) ELSE Landing(c, st)
  BY <1>0, <1>1 DEF ShardStart, Source, Bytes
<1>4. p \in 0..Len(c) /\ st <= p
  <2>1. StartOf(c) \in 0..Len(c)
    BY <1>2, StartOfIs
  <2>2. Landing(c, st) \in st..Len(c)
    BY <1>2, LandingIsInside
  <2> QED BY <1>2, <1>3, <2>1, <2>2
<1>5. \A o \in Here(i) : o \in InOrder(s) /\ o \in Nat /\ st <= o
  <2>1. \A o \in Here(i) : o \in InOrder(s) /\ st <= o
    BY <1>0 DEF Here, InShard
  <2> QED BY <1>2, <2>1, InOrderIs
<1>6. CASE st = 0
  <2>1. p = StartOf(c) /\ st <= p
    BY <1>3, <1>4, <1>6
  <2>2. \A o \in InOrder(s) : o \in Nat /\ p <= o
    BY <1>1, <1>2, <2>1, InOrderIs
  <2>3. ASSUME NEW o \in InOrder(s) PROVE o >= p /\ ~(o < p)
    <3>1. o \in Nat /\ p <= o /\ p \in Nat
      BY <1>2, <1>4, <2>2
    <3> QED BY <3>1
  <2>4. Left(s, p) = {o \in InOrder(s) : o >= p}
    BY <1>1, <2>1, <2>3
  <2> QED BY <1>0, <1>1, <1>4, <1>5, <2>1, <2>3, <2>4
<1>7. CASE st # 0
  <2>1. SUFFICES ASSUME s \in clear
                 PROVE  /\ Left(s, p) = {o \in InOrder(s) : o >= p}
                        /\ \A o \in Here(i) : ~(o < p)
    BY <1>0, <1>1, <1>4
  <2>2. st \in 1..Len(c) /\ p = Landing(c, st)
    BY <1>2, <1>3, <1>7
  <2>3. StartsLines(c) /\ Regular(f, c, t) /\ ~BlankRun(c) /\ ~GivesUp(c)
    BY <1>1, <2>1
  <2>4. /\ p \in st..Len(c)
        /\ \A o \in InOrder(s) : o >= st <=> o >= p
        /\ Left(s, p) = {o \in InOrder(s) : o >= p}
    BY <1>1, <1>2, <2>2, <2>3, LandsInOrder
  <2>5. st <= p /\ p \in Nat
    BY <1>2, <2>4
  <2>6. ASSUME NEW o \in Here(i) PROVE ~(o < p)
    <3>1. o \in Nat /\ (o >= st <=> o >= p) /\ st <= o
      BY <1>5, <2>4
    <3> QED BY <1>2, <2>5, <3>1
  <2> QED BY <2>4, <2>5, <2>6
<1> QED BY <1>6, <1>7

LEMMA DrawTallies ==
  ASSUME Inv, NEW w \in Workers, Draw(w)
  PROVE  Tally'
<1>1. /\ state[w] = "draw" /\ next' = next + 1
      /\ UNCHANGED <<input, cancelled, handed>>
  BY DEF Draw
<1>2. /\ Given /\ Control /\ ShardsExclusive /\ Tally
      /\ next \in Nat /\ next' \in Nat /\ next <= next' /\ Len(Shards) \in Nat
  BY <1>1 DEF Inv, ScanInv, Control
<1>3. Shards' = Shards
  BY <1>1, <1>2, ShardsStay
<1>4. /\ handed' \in [Positioned -> Nat] /\ handed' = handed
      /\ state \in [Workers -> {"draw", "scan", "done"}] /\ shard \in [Workers -> Nat]
      /\ at \in [Workers -> 0..MaxLen]
      /\ \A v \in Workers : state[v] = "scan" => OnTrack(v)
      /\ \A i \in 1..Len(Shards) : Tallied(i)
  BY <1>1, <1>2 DEF Tally, Control
<1>7. NothingElse'
  <2>1. NothingElse /\ UNCHANGED <<clear, records, handed>>
    BY <1>1, <1>2 DEF Tally, input
  <2> QED BY <2>1 DEF NothingElse
<1>5. CASE next >= Len(Shards) \/ cancelled
  <2>1. state' = [state EXCEPT ![w] = "done"] /\ UNCHANGED <<shard, at, blind>>
    BY <1>5 DEF Draw
  <2>2. ASSUME NEW v \in Workers, state'[v] = "scan" PROVE OnTrack(v)'
    <3>1. state[v] = "scan" /\ shard'[v] = shard[v] /\ at'[v] = at[v]
      BY <1>4, <2>1, <2>2
    <3>2. OnTrack(v)
      BY <1>4, <3>1
    <3> QED BY <1>1, <1>2, <1>4, <2>1, <3>1, <3>2, StaysOnTrack
  <2>3. ASSUME NEW i \in 1..Len(Shards) PROVE Tallied(i)'
    <3>1. Finished(i)' => Finished(i)
      <4>1. SUFFICES ASSUME Finished(i)' PROVE Finished(i)
        OBVIOUS
      <4>2. /\ i <= next + 1 /\ ~cancelled
            /\ \A v \in Workers : state'[v] = "scan" => shard'[v] # i
        BY <1>1, <4>1 DEF Finished
      <4>3. i <= next
        BY <1>2, <1>5, <4>2
      <4>4. \A v \in Workers : state[v] = "scan" => state'[v] = "scan"
        BY <1>1, <1>4, <2>1
      <4> QED BY <2>1, <4>2, <4>3, <4>4 DEF Finished
    <3>2. i \in Nat /\ Tallied(i)
      BY <1>2, <1>4
    <3> QED BY <1>1, <1>2, <1>4, <2>1, <3>1, <3>2, StaysTallied
  <2> QED BY <1>3, <1>4, <1>7, <2>1, <2>2, <2>3 DEF Tally
<1>6. CASE ~(next >= Len(Shards) \/ cancelled)
  <2>1. PICK n : n = next + 1
    OBVIOUS
  <2>2. PICK p, s : p = at'[w] /\ s = Source(n)
    OBVIOUS
  <2>3. /\ state' = [state EXCEPT ![w] = "scan"]
        /\ shard' = [shard EXCEPT ![w] = n] /\ at' = [at EXCEPT ![w] = p]
        /\ n \in 1..Len(Shards) /\ n > next /\ n \in Nat /\ blind \subseteq blind'
        /\ \/ p = ShardStart(Shards[n])
           \/ p = Shards[n].start /\ Shards[n] \in blind'
    BY <1>2, <1>4, <1>6, <2>1, <2>2 DEF Draw, Enter
  <2>4. /\ p \in 0..Len(Bytes(s)) /\ Len(Bytes(s)) \in 0..MaxLen
        /\ Shards[n].start <= p
        /\ Sighted(n)' =>
             /\ Left(s, p) = {o \in InOrder(s) : o >= p}
             /\ \A o \in Here(n) : ~(o < p) /\ handed[<<s, o>>] = 0
    <3>1. s \in clear => \A o \in Here(n) : handed[<<s, o>>] = 0
      BY <1>4, <2>2, <2>3 DEF Tallied
    <3>2. Given /\ n \in 1..Len(Shards)
      BY <1>2, <2>3
    <3>3. Len(Bytes(s)) \in 0..MaxLen /\ Shards[n].start \in 0..Len(Bytes(s))
      BY <2>2, <3>2, ShardIs
    <3>4. CASE p = ShardStart(Shards[n])
      <4>1. /\ p \in 0..Len(Bytes(s)) /\ Shards[n].start <= p
            /\ s \in clear =>
                 /\ Left(s, p) = {o \in InOrder(s) : o >= p}
                 /\ \A o \in Here(n) : ~(o < p)
        BY <2>2, <3>2, <3>4, ShardStartIs
      <4>2. Sighted(n)' => s \in clear
        BY <1>1, <1>2, <2>2, ShardsStay DEF Sighted
      <4> QED BY <3>1, <3>3, <4>1, <4>2
    <3>5. CASE p = Shards[n].start /\ Shards[n] \in blind'
      <4>1. ~Sighted(n)'
        BY <1>3, <3>5 DEF Sighted
      <4>2. p \in 0..Len(Bytes(s)) /\ Shards[n].start <= p
        BY <3>3, <3>5
      <4> QED BY <3>3, <4>1, <4>2
    <3> QED BY <2>3, <3>4, <3>5
  <2>5. at' \in [Workers -> 0..MaxLen] /\ OnTrack(w)'
    <3>1. p \in 0..MaxLen
      BY <2>4, FramingAssumption
    <3>2. at' \in [Workers -> 0..MaxLen] /\ shard'[w] = n /\ at'[w] = p
      BY <1>4, <2>3, <3>1
    <3>3. /\ Source(n)' = s /\ Here(n)' = Here(n) /\ Shards' = Shards
          /\ Bytes(s)' = Bytes(s) /\ Left(s, p)' = Left(s, p) /\ InOrder(s)' = InOrder(s)
      BY <1>1, <1>2, <2>2, ShardsStay
    <3>4. /\ p \in 0..Len(Bytes(s)') /\ Shards'[n].start <= p
          /\ Sighted(n)' =>
               /\ Left(s, p)' = {o \in InOrder(s)' : o >= p}
               /\ \A o \in Here(n)' : handed'[<<s, o>>] = IF o < p THEN 1 ELSE 0
      BY <1>4, <2>4, <3>3
    <3> QED BY <3>2, <3>3, <3>4 DEF OnTrack
  <2>6. ASSUME NEW v \in Workers, state'[v] = "scan", v # w PROVE OnTrack(v)'
    <3>1. state[v] = "scan" /\ shard'[v] = shard[v] /\ at'[v] = at[v]
      BY <1>4, <2>3, <2>6
    <3>2. OnTrack(v)
      BY <1>4, <3>1
    <3> QED BY <1>1, <1>2, <1>4, <2>3, <3>1, <3>2, StaysOnTrack
  <2>7. ASSUME NEW i \in 1..Len(Shards) PROVE Tallied(i)'
    <3>1. Finished(i)' => Finished(i)
      <4>1. SUFFICES ASSUME Finished(i)' PROVE Finished(i)
        OBVIOUS
      <4>2. /\ i <= next + 1 /\ ~cancelled
            /\ \A v \in Workers : state'[v] = "scan" => shard'[v] # i
        BY <1>1, <4>1 DEF Finished
      <4>3. i # n
        BY <1>4, <2>3, <4>2
      <4>4. i <= next
        BY <1>2, <2>1, <4>2, <4>3
      <4>5. \A v \in Workers : state[v] = "scan" => state'[v] = "scan" /\ shard'[v] = shard[v]
        BY <1>1, <1>4, <2>3
      <4> QED BY <4>2, <4>4, <4>5 DEF Finished
    <3>2. i \in Nat /\ Tallied(i)
      BY <1>2, <1>4
    <3> QED BY <1>1, <1>2, <1>4, <2>3, <3>1, <3>2, StaysTallied
  <2> QED BY <1>3, <1>4, <1>7, <2>5, <2>6, <2>7 DEF Tally
<1> QED BY <1>5, <1>6

(***************************************************************************)
(* A worker that hands a record over, or finds none of its own.            *)
(***************************************************************************)
\* The record a worker comes to next is the first that is left.
LEMMA NextRecordIs ==
  ASSUME Inv, NEW w \in Workers, state[w] = "scan",
         NEW i, i = shard[w], NEW s, s = Source(i), NEW p, p = at[w],
         NEW o, o = NextRecord(w)
  PROVE  /\ i \in 1..Len(Shards) /\ i <= next /\ s \in 1..2 /\ Bytes(s) \in Seq(Byte)
         /\ p \in 0..Len(Bytes(s)) /\ Len(Bytes(s)) \in 0..MaxLen /\ Shards[i].start <= p
         /\ Shards[i].start \in Nat /\ Shards[i].end \in Nat /\ o \in Nat
         /\ \A x \in Left(s, p) : o <= x
         /\ Owns(Shards[i], o) => o \in Left(s, p)
<1>0. PICK R : R = Left(s, p)
  OBVIOUS
<1>1. i \in 1..Len(Shards) /\ i <= next /\ OnTrack(w) /\ Given
  BY DEF Inv, ScanInv, ShardsExclusive, Tally
<1>2. /\ s \in 1..2 /\ Bytes(s) \in Seq(Byte) /\ Len(Bytes(s)) \in 0..MaxLen
      /\ Shards[i].start \in 0..Len(Bytes(s)) /\ Shards[i].end \in 0..(MaxLen + 1)
      /\ ShardFormat(Shards[i]) = Form(s)
  BY <1>1, ShardIs
<1>3. p \in 0..Len(Bytes(s)) /\ Shards[i].start <= p
  BY <1>1 DEF OnTrack
<1>4. o = Min({MaxLen + 1} \cup R)
  BY <1>0, <1>2 DEF NextRecord, Source, Bytes, Left
<1>5. R \subseteq Nat /\ MaxLen \in Nat
  <2>1. \E f, t : R = RecordOffsets(f, Bytes(s), p, t)
    BY <1>0, LeftIs
  <2> QED BY <1>2, <1>3, <2>1, RecordsAre, FramingAssumption
<1>6. o \in {MaxLen + 1} \cup R /\ \A x \in {MaxLen + 1} \cup R : o <= x
  <2>1. PICK S : S = {MaxLen + 1} \cup R
    OBVIOUS
  <2>2. S \subseteq Nat /\ S # {} /\ o = Min(S)
    BY <1>4, <1>5, <2>1
  <2>3. o \in S /\ \A x \in S : o <= x
    BY <2>2, MinIsLeast
  <2> QED BY <2>1, <2>3
<1>7. o \in Nat /\ \A x \in R : o <= x
  <2>1. MaxLen + 1 \in Nat
    BY <1>5
  <2> QED BY <1>5, <1>6, <2>1
<1>8. Owns(Shards[i], o) => o \in R
  BY <1>2, <1>5, <1>6 DEF Owns
<1>9. Shards[i].start \in Nat /\ Shards[i].end \in Nat
  BY <1>2, <1>5
<1> QED BY <1>1, <1>2, <1>3, <1>7, <1>8, <1>9, <1>0

\* The records of shard i left after the one at o are found past q, and those
\* before q, but that one, have been handed over.
OnlyHands(i, s, o, q) ==
  /\ Left(s, q) = {x \in InOrder(s) : x >= q}
  /\ \A x \in Here(i) : x # o => handed[<<s, x>>] = IF x < q THEN 1 ELSE 0

\* What is handed over is a record of the shard, not handed over before, and
\* what is left is found past it.
LEMMA HandOverIs ==
  ASSUME Inv, NEW w \in Workers, HandOver(w), ~Blind(w),
         NEW i, i = shard[w], NEW s, s = Source(i), NEW o, o = NextRecord(w),
         NEW q, q = After(s, o)
  PROVE  /\ i \in 1..Len(Shards) /\ InShard(i, o) /\ o \in Nat
         /\ <<s, o>> \in Positioned
         /\ handed' = [handed EXCEPT ![<<s, o>>] = @ + 1]
         /\ s \in clear => o \in InOrder(s) /\ handed[<<s, o>>] = 0
         /\ q \in 0..Len(Bytes(s)) /\ Shards[i].start <= q
         /\ q \in (o + 1)..Len(Bytes(s))
         /\ s \in clear => OnlyHands(i, s, o, q)
<1>1. PICK f, c, t :
        /\ f = Form(s) /\ c = Bytes(s)
        /\ \A x : Left(s, x) = RecordOffsets(f, c, x, t)
        /\ After(s, o) = NextPosition(f, c, o, t)
  <2>1. PICK f, c, t :
          /\ f = Form(s) /\ c = Bytes(s)
          /\ \A x : Left(s, x) = RecordOffsets(f, c, x, t)
          /\ \A x : After(s, x) = NextPosition(f, c, x, t)
    BY LeftIs
  <2> QED BY <2>1
<1>2. PICK p, st, R : p = at[w] /\ st = Shards[i].start /\ R = RecordOffsets(f, c, p, t)
  OBVIOUS
<1>3. state[w] = "scan" /\ Owns(Shards[i], o)
  BY DEF HandOver, NextRecords
<1>4. /\ i \in 1..Len(Shards) /\ s \in 1..2 /\ c \in Seq(Byte) /\ p \in 0..Len(c)
      /\ Len(c) \in 0..MaxLen /\ st <= p /\ st \in Nat /\ o \in Nat
      /\ \A x \in R : o <= x
      /\ o \in R
  BY <1>1, <1>2, <1>3, NextRecordIs
<1>5. Given /\ OnTrack(w)
  BY <1>3 DEF Inv, Tally
<1>6. q = NextPosition(f, c, o, t)
  BY <1>1
<1>7. /\ R \subseteq Nat /\ p <= o /\ o < Len(c) /\ q \in (o + 1)..Len(c)
      /\ q \in Positions(f, c, p, t)
      /\ \A x \in R : x <= o \/ x >= q
  BY <1>2, <1>4, <1>6, RecordsAre
<1>8. Len(c) \in Nat /\ p \in Nat /\ MaxLen \in Nat /\ q \in Nat
  BY <1>4, <1>7, FramingAssumption
<1>9. InShard(i, o) /\ <<s, o>> \in Positioned
  <2>1. st <= o /\ o \in 0..MaxLen
    BY <1>4, <1>7, <1>8
  <2> QED BY <1>2, <1>3, <1>4, <2>1 DEF InShard, Owns, Positioned
<1>10. handed' = [handed EXCEPT ![<<s, o>>] = @ + 1]
  <2>1. ShardFormat(Shards[i]) = f /\ Shards[i].src = s /\ srcs[s].bytes = c
    BY <1>1, <1>4, <1>5, ShardIs DEF Source, Bytes
  <2> QED BY <2>1 DEF HandOver, NextRecords, Source
<1>11. q \in 0..Len(c) /\ st <= q /\ o < q /\ p <= q
  BY <1>4, <1>7, <1>8
<1>12. RecordOffsets(f, c, q, t) = {x \in R : x >= q}
  BY <1>2, <1>4, <1>7, TailOfPath
<1>13. ASSUME s \in clear
       PROVE  /\ o \in InOrder(s) /\ handed[<<s, o>>] = 0
              /\ RecordOffsets(f, c, q, t) = {x \in InOrder(s) : x >= q}
              /\ \A x \in Here(i) : x # o => handed[<<s, x>>] = IF x < q THEN 1 ELSE 0
  <2>1. /\ R = {x \in InOrder(s) : x >= p}
        /\ \A x \in Here(i) : handed[<<s, x>>] = IF x < p THEN 1 ELSE 0
    BY <1>1, <1>2, <1>5, <1>13 DEF OnTrack, Sighted, Blind
  <2>2. \A x \in InOrder(s) : x \in Nat
    BY <1>4, <1>5, InOrderIs
  <2>3. o \in InOrder(s) /\ o \in Here(i) /\ ~(o < p)
    BY <1>4, <1>7, <1>8, <1>9, <2>1 DEF Here
  <2>4. \A x \in InOrder(s) : x >= q => x >= p
    BY <1>8, <1>11, <2>2
  <2>5. RecordOffsets(f, c, q, t) = {x \in InOrder(s) : x >= q}
    BY <1>12, <2>1, <2>4
  <2>6. ASSUME NEW x \in Here(i), x # o
        PROVE  handed[<<s, x>>] = IF x < q THEN 1 ELSE 0
    <3>1. x \in InOrder(s) /\ x \in Nat
      BY <2>2, <2>6 DEF Here
    <3>2. CASE x < p
      <4>1. x < q
        BY <1>8, <1>11, <3>1, <3>2
      <4> QED BY <2>1, <2>6, <3>2, <4>1
    <3>3. CASE ~(x < p)
      <4>1. x >= p
        BY <1>8, <3>1, <3>3
      <4>2. x \in R
        BY <2>1, <3>1, <4>1
      <4>3. o <= x /\ (x <= o \/ x >= q)
        BY <1>4, <1>7, <4>2
      <4>4. ~(x < q)
        BY <1>4, <1>8, <2>6, <3>1, <4>3
      <4> QED BY <2>1, <2>6, <3>3, <4>4
    <3> QED BY <3>2, <3>3
  <2> QED BY <2>1, <2>3, <2>5, <2>6
<1> QED BY <1>1, <1>2, <1>4, <1>7, <1>9, <1>10, <1>11, <1>13 DEF OnlyHands

LEMMA SightedTallies ==
  ASSUME Inv, NEW w \in Workers, HandOver(w), ~Blind(w)
  PROVE  Tally'
<1>1. PICK i, o : i = shard[w] /\ o = NextRecord(w)
  OBVIOUS
<1>2. PICK s, q : s = Source(i) /\ q = After(Source(i), o)
  OBVIOUS
<1>3. /\ state[w] = "scan" /\ UNCHANGED <<input, next, cancelled, blind>>
      /\ \/ UNCHANGED <<state, shard>> /\ at' = [at EXCEPT ![w] = GoesOn(w, o)]
         \/ /\ cancelled /\ state' = [state EXCEPT ![w] = "draw"]
            /\ shard' = [shard EXCEPT ![w] = 0] /\ at' = [at EXCEPT ![w] = 0]
  BY <1>1 DEF HandOver, NextRecords, Leave
<1>4. /\ i \in 1..Len(Shards) /\ InShard(i, o) /\ o \in Nat
      /\ <<s, o>> \in Positioned
      /\ handed' = [handed EXCEPT ![<<s, o>>] = @ + 1]
      /\ s \in clear => o \in InOrder(s) /\ handed[<<s, o>>] = 0
  BY <1>1, <1>2, HandOverIs
<1>5. /\ q \in 0..Len(Bytes(s)) /\ Shards[i].start <= q
      /\ GoesOn(w, o) = q
      /\ s \in clear =>
           /\ Left(s, q) = {x \in InOrder(s) : x >= q}
           /\ \A x \in Here(i) : x # o => handed[<<s, x>>] = IF x < q THEN 1 ELSE 0
           /\ o < q
  <2>1. i = shard[w] /\ o = NextRecord(w) /\ s = Source(i) /\ q = After(s, o)
    BY <1>1, <1>2
  <2>2. q \in 0..Len(Bytes(s)) /\ Shards[i].start <= q
    BY <2>1, HandOverIs
  <2>3. GoesOn(w, o) = q
    <3>1. Given
      BY DEF Inv
    <3>2. ShardFormat(Shards[i]) = Form(s) /\ Shards[i].src = s /\ srcs[s].bytes = Bytes(s)
      BY <1>4, <2>1, <3>1, ShardIs DEF Source, Bytes
    <3> QED BY <2>1, <3>2 DEF GoesOn, After
  <2>4. o < q
    <3>1. q \in (o + 1)..Len(Bytes(s))
      BY <2>1, HandOverIs
    <3>2. Len(Bytes(s)) \in Nat
      BY <1>2, <1>4, ShardIs, LenProperties DEF Inv
    <3> QED BY <1>4, <3>1, <3>2
  <2>5. ASSUME s \in clear PROVE OnlyHands(i, s, o, q)
    BY <2>1, <2>5, HandOverIs
  <2> QED BY <2>2, <2>3, <2>4, <2>5 DEF OnlyHands
<1>6. /\ Given /\ Planned /\ Len(Shards) \in Nat /\ next \in Nat
      /\ state \in [Workers -> {"draw", "scan", "done"}]
      /\ handed \in [Positioned -> Nat] /\ at \in [Workers -> 0..MaxLen]
      /\ \A v \in Workers : state[v] = "scan" => OnTrack(v)
      /\ \A j \in 1..Len(Shards) : Tallied(j)
      /\ \A v \in Workers :
           state[v] = "scan" => shard[v] \in 1..Len(Shards) /\ (v # w => shard[v] # i)
      /\ shard \in [Workers -> Nat] /\ NothingElse
  BY <1>1, <1>3, ShardsArePlanned
    DEF Inv, ScanInv, Control, ShardsExclusive, Tally
<1>0. ASSUME NEW v \in Workers, state'[v] = "scan"
      PROVE  /\ state[v] = "scan" /\ shard'[v] = shard[v]
             /\ at'[v] = IF v = w THEN q ELSE at[v]
  BY <1>0, <1>3, <1>5, <1>6
<1>7. /\ Len(Bytes(s)) \in 0..MaxLen /\ s \in 1..2 /\ Here(i) \subseteq InOrder(s)
  BY <1>2, <1>4, <1>6, ShardIs
<1>8. handed' \in [Positioned -> Nat] /\ at' \in [Workers -> 0..MaxLen]
  <2>1. q \in 0..MaxLen /\ 0 \in 0..MaxLen
    BY <1>5, <1>7, FramingAssumption
  <2>2. handed' \in [Positioned -> Nat]
    BY <1>4, <1>6
  <2>3. ASSUME NEW x \in 0..MaxLen, at' = [at EXCEPT ![w] = x]
        PROVE  at' \in [Workers -> 0..MaxLen]
    BY <1>6, <2>3
  <2>4. at' = [at EXCEPT ![w] = q] \/ at' = [at EXCEPT ![w] = 0]
    BY <1>3, <1>5
  <2> QED BY <2>1, <2>2, <2>3, <2>4
<1>9. ASSUME NEW j \in 1..Len(Shards), j # i, NEW x \in Here(j)
      PROVE  handed'[<<Source(j), x>>] = handed[<<Source(j), x>>]
  <2>1. Source(j) \in 1..2 /\ x \in InOrder(Source(j)) /\ InShard(j, x)
    BY <1>6, <1>9, ShardIs DEF Here
  <2>2. <<Source(j), x>> \in Positioned
    BY <1>6, <2>1, InOrderIs
  <2>3. ~(Source(j) = s /\ x = o)
    <3>1. SUFFICES ASSUME Source(j) = s, x = o PROVE FALSE
      OBVIOUS
    <3>2. Shards[j].src = Shards[i].src /\ InShard(j, o) /\ InShard(i, o)
      BY <1>2, <1>4, <2>1, <3>1 DEF Source
    <3> QED BY <1>4, <1>6, <1>9, <3>2 DEF Planned
  <2>4. <<Source(j), x>> # <<s, o>>
    BY <2>3
  <2> QED BY <1>4, <1>6, <2>2, <2>4
<1>10. ASSUME NEW x \in Here(i), s \in clear
       PROVE  /\ x # o => handed'[<<s, x>>] = handed[<<s, x>>]
              /\ x = o => handed'[<<s, x>>] = 1
  <2>1. <<s, x>> \in Positioned
    BY <1>6, <1>7, InOrderIs
  <2>2. <<s, x>> = <<s, o>> <=> x = o
    OBVIOUS
  <2> QED BY <1>4, <1>6, <1>10, <2>1, <2>2
<1>11. ASSUME state'[w] = "scan" PROVE OnTrack(w)'
  <2>1. shard'[w] = i /\ at'[w] = q
    BY <1>0, <1>1, <1>11
  <2>2. /\ Source(i)' = s /\ Here(i)' = Here(i) /\ Shards' = Shards
        /\ Sighted(i)' => s \in clear
        /\ Bytes(s)' = Bytes(s) /\ Left(s, q)' = Left(s, q) /\ InOrder(s)' = InOrder(s)
    BY <1>2, <1>3, <1>6, ShardsStay DEF Sighted
  <2>3. s \in clear => \A x \in Here(i) : handed'[<<s, x>>] = IF x < q THEN 1 ELSE 0
    BY <1>5, <1>10
  <2>4. /\ q \in 0..Len(Bytes(s)') /\ Shards'[i].start <= q
        /\ Sighted(i)' =>
             /\ Left(s, q)' = {x \in InOrder(s)' : x >= q}
             /\ \A x \in Here(i)' : handed'[<<s, x>>] = IF x < q THEN 1 ELSE 0
    BY <1>5, <2>2, <2>3
  <2> QED BY <2>1, <2>2, <2>4 DEF OnTrack
<1>12. ASSUME NEW v \in Workers, state'[v] = "scan" PROVE OnTrack(v)'
  <2>1. CASE v = w
    BY <1>11, <1>12, <2>1
  <2>2. CASE v # w
    <3>1. state[v] = "scan" /\ shard'[v] = shard[v] /\ at'[v] = at[v]
      BY <1>0, <1>12, <2>2
    <3>2. OnTrack(v) /\ shard[v] \in 1..Len(Shards) /\ shard[v] # i
      BY <1>6, <2>2, <3>1
    <3>3. \A x \in Here(shard[v]) :
            handed'[<<Source(shard[v]), x>>] = handed[<<Source(shard[v]), x>>]
      BY <1>9, <3>2
    <3> QED BY <1>3, <1>6, <3>1, <3>2, <3>3, StaysOnTrack
  <2> QED BY <2>1, <2>2
<1>13. ASSUME NEW j \in 1..Len(Shards) PROVE Tallied(j)'
  <2>1. CASE j # i
    <3>1. Finished(j)' => Finished(j)
      <4>1. SUFFICES ASSUME Finished(j)' PROVE Finished(j)
        OBVIOUS
      <4>2. /\ j <= next /\ ~cancelled
            /\ \A v \in Workers : state'[v] = "scan" => shard'[v] # j
        BY <1>3, <4>1 DEF Finished
      <4>3. state' = state /\ shard' = shard
        BY <1>3, <4>2
      <4> QED BY <4>2, <4>3 DEF Finished
    <3>2. j \in Nat /\ Tallied(j) /\ next' = next
      BY <1>3, <1>6
    <3>3. \A x \in Here(j) : handed'[<<Source(j), x>>] = handed[<<Source(j), x>>]
      BY <1>9, <2>1
    <3> QED BY <1>3, <1>6, <3>1, <3>2, <3>3, StaysTallied
  <2>2. CASE j = i
    <3>1. i <= next
      BY <1>1, <1>3 DEF Inv, ScanInv, ShardsExclusive
    <3>2. ~Finished(i)'
      <4>1. SUFFICES ASSUME Finished(i)' PROVE FALSE
        OBVIOUS
      <4>2. ~cancelled /\ \A v \in Workers : state'[v] = "scan" => shard'[v] # i
        BY <1>3, <4>1 DEF Finished
      <4>3. state'[w] = "scan" /\ shard'[w] = shard[w]
        BY <1>3, <4>2
      <4> QED BY <1>1, <4>2, <4>3
    <3>3. ~(i > next') /\ i \in Nat
      BY <1>3, <1>4, <1>6, <3>1
    <3> QED BY <2>2, <3>2, <3>3 DEF Tallied
  <2> QED BY <2>1, <2>2
<1>14. Shards' = Shards
  BY <1>3, <1>6, ShardsStay
<1>15. NothingElse'
  <2>1. UNCHANGED <<clear, records>>
    BY <1>3 DEF input
  <2>2. <<s, o>>[1] = s /\ <<s, o>>[2] = o
    OBVIOUS
  <2>3. s \in clear => <<s, o>> \in records
    BY <1>4, <1>6, <2>2 DEF Given
  <2>4. ASSUME NEW p \in Positioned, p[1] \in clear, p \notin records
        PROVE  handed'[p] = 0
    <3>1. p # <<s, o>>
      BY <2>2, <2>3, <2>4
    <3>2. handed[p] = 0
      BY <1>6, <2>4 DEF NothingElse
    <3> QED BY <1>4, <1>6, <3>1, <3>2
  <2> QED BY <2>1, <2>4 DEF NothingElse
<1> QED BY <1>8, <1>12, <1>13, <1>14, <1>15 DEF Tally

\* Of what a blind worker hands over nothing is counted; it stays in its source.
LEMMA BlindTallies ==
  ASSUME Inv, NEW w \in Workers, HandOver(w), Blind(w)
  PROVE  Tally'
<1>1. PICK i, s : i = shard[w] /\ s = Source(i)
  OBVIOUS
<1>2. PICK o \in NextRecords(w) :
        /\ state[w] = "scan"
        /\ UNCHANGED <<input, next, cancelled, blind>> /\ handed' = handed
        /\ \/ UNCHANGED <<state, shard>> /\ at' = [at EXCEPT ![w] = GoesOn(w, o)]
           \/ /\ cancelled /\ state' = [state EXCEPT ![w] = "draw"]
              /\ shard' = [shard EXCEPT ![w] = 0] /\ at' = [at EXCEPT ![w] = 0]
  BY DEF HandOver, Leave
<1>3. /\ Given /\ Len(Shards) \in Nat /\ next \in Nat /\ NothingElse
      /\ state \in [Workers -> {"draw", "scan", "done"}] /\ shard \in [Workers -> Nat]
      /\ handed \in [Positioned -> Nat] /\ at \in [Workers -> 0..MaxLen]
      /\ \A v \in Workers : state[v] = "scan" => OnTrack(v)
      /\ \A j \in 1..Len(Shards) : Tallied(j)
      /\ i \in 1..Len(Shards)
  BY <1>1, <1>2 DEF Inv, ScanInv, Control, ShardsExclusive, Tally
<1>4. /\ Shards' = Shards /\ Source(i)' = s /\ Bytes(s)' = Bytes(s)
      /\ UNCHANGED <<clear, records>> /\ ~Sighted(i)'
  BY <1>1, <1>2, <1>3, ShardsStay DEF Sighted, Blind, input
<1>5. GoesOn(w, o) \in 0..Len(Bytes(s)) /\ Shards[i].start <= GoesOn(w, o)
  <2>1. /\ o \in 0..MaxLen /\ at[w] <= o /\ o < Len(Bytes(s)) /\ GoesOn(w, o) = o + 1
    BY <1>1 DEF NextRecords, GoesOn, Source, Bytes
  <2>2. at[w] \in 0..MaxLen /\ Shards[i].start <= at[w]
    BY <1>1, <1>2, <1>3 DEF OnTrack
  <2>3. Len(Bytes(s)) \in 0..MaxLen /\ Shards[i].start \in 0..Len(Bytes(s))
    BY <1>1, <1>3, ShardIs
  <2> QED BY <2>1, <2>2, <2>3, FramingAssumption
<1>6. at' \in [Workers -> 0..MaxLen]
  <2>1. Len(Bytes(s)) \in 0..MaxLen /\ MaxLen \in Nat
    BY <1>1, <1>3, ShardIs, FramingAssumption
  <2>2. GoesOn(w, o) \in 0..MaxLen /\ 0 \in 0..MaxLen
    BY <1>5, <2>1
  <2> QED BY <1>2, <1>3, <2>2
<1>7. ASSUME NEW v \in Workers, state'[v] = "scan"
      PROVE  OnTrack(v)'
  <2>1. /\ state[v] = "scan" /\ shard'[v] = shard[v]
        /\ at'[v] = IF v = w THEN GoesOn(w, o) ELSE at[v]
    BY <1>2, <1>3, <1>7
  <2>2. CASE v = w
    <3>1. shard'[v] = i /\ at'[v] = GoesOn(w, o)
      BY <1>1, <2>1, <2>2
    <3>2. PICK g : g = GoesOn(w, o)
      OBVIOUS
    <3>3. at'[v] = g /\ g \in 0..Len(Bytes(s)') /\ Shards'[i].start <= g
      BY <1>4, <1>5, <3>1, <3>2
    <3> QED BY <1>4, <3>1, <3>3 DEF OnTrack
  <2>3. CASE v # w
    <3>1. OnTrack(v) /\ at'[v] = at[v]
      BY <1>3, <2>1, <2>3
    <3> QED BY <1>2, <1>3, <2>1, <3>1, StaysOnTrack
  <2> QED BY <2>2, <2>3
<1>8. ASSUME NEW j \in 1..Len(Shards) PROVE Tallied(j)'
  <2>1. Finished(j)' => Finished(j)
    BY <1>2 DEF Finished
  <2>2. j \in Nat /\ Tallied(j) /\ next' = next
    BY <1>2, <1>3
  <2> QED BY <1>2, <1>3, <2>1, <2>2, StaysTallied
<1>9. NothingElse'
  BY <1>2, <1>3, <1>4 DEF NothingElse
<1> QED BY <1>2, <1>3, <1>4, <1>6, <1>7, <1>8, <1>9 DEF Tally


\* A worker that leaves its shard has handed over all of it.
LEMMA ShardDoneTallies ==
  ASSUME Inv, NEW w \in Workers, ShardDone(w)
  PROVE  Tally'
<1>1. PICK i, o : i = shard[w] /\ o = NextRecord(w)
  OBVIOUS
<1>2. PICK s : s = Source(i)
  OBVIOUS
<1>3. /\ state[w] = "scan" /\ (Shards[i] \in blind \/ ~Owns(Shards[i], o))
      /\ state' = [state EXCEPT ![w] = "draw"]
      /\ shard' = [shard EXCEPT ![w] = 0] /\ at' = [at EXCEPT ![w] = 0]
      /\ UNCHANGED <<input, next, cancelled, blind, handed>>
  BY <1>1 DEF ShardDone, Blind, Leave
<1>4. /\ Given /\ Len(Shards) \in Nat /\ next \in Nat
      /\ state \in [Workers -> {"draw", "scan", "done"}]
      /\ handed \in [Positioned -> Nat] /\ at \in [Workers -> 0..MaxLen]
      /\ \A v \in Workers : state[v] = "scan" => OnTrack(v)
      /\ \A j \in 1..Len(Shards) : Tallied(j)
      /\ shard \in [Workers -> Nat] /\ NothingElse
  BY DEF Inv, ScanInv, Control, Tally
<1>9. at' \in [Workers -> 0..MaxLen]
  <2>1. 0 \in 0..MaxLen
    BY FramingAssumption
  <2> QED BY <1>3, <1>4, <2>1
<1>10. NothingElse'
  <2>1. UNCHANGED <<clear, records, handed>>
    BY <1>3 DEF input
  <2> QED BY <1>4, <2>1 DEF NothingElse
<1>5. ASSUME NEW v \in Workers, state'[v] = "scan" PROVE OnTrack(v)'
  <2>1. state[v] = "scan" /\ shard'[v] = shard[v] /\ at'[v] = at[v]
    BY <1>3, <1>4, <1>5
  <2>2. OnTrack(v)
    BY <1>4, <2>1
  <2> QED BY <1>3, <1>4, <2>1, <2>2, StaysOnTrack
<1>6. /\ i \in 1..Len(Shards) /\ i <= next
      /\ Sighted(i) => \A x \in Here(i) : handed[<<s, x>>] = 1
  <2>1. PICK p, R : p = at[w] /\ R = Left(s, p)
    OBVIOUS
  <2>2. /\ i \in 1..Len(Shards) /\ i <= next /\ s \in 1..2
        /\ p \in 0..Len(Bytes(s)) /\ Bytes(s) \in Seq(Byte)
        /\ Shards[i].end \in Nat /\ o \in Nat /\ \A x \in R : o <= x
    BY <1>1, <1>2, <1>3, <2>1, NextRecordIs
  <2>3. p \in Nat
    BY <2>2, LenProperties
  <2>4. ASSUME Sighted(i), NEW x \in Here(i) PROVE handed[<<s, x>>] = 1
    <3>1. x \in InOrder(s) /\ InShard(i, x) /\ x \in Nat
      BY <1>2, <1>4, <2>2, <2>4, InOrderIs DEF Here
    <3>2. /\ R = {y \in InOrder(s) : y >= p}
          /\ handed[<<s, x>>] = IF x < p THEN 1 ELSE 0
      BY <1>1, <1>2, <1>3, <1>4, <2>1, <2>4 DEF OnTrack
    <3>3. ~(x >= p)
      <4>1. SUFFICES ASSUME x >= p PROVE FALSE
        OBVIOUS
      <4>2. o <= x
        BY <2>2, <3>1, <3>2, <4>1
      <4>3. x < Shards[i].end /\ ~(o < Shards[i].end)
        BY <1>3, <2>4, <3>1 DEF InShard, Owns, Sighted
      <4> QED BY <2>2, <3>1, <4>2, <4>3
    <3> QED BY <2>3, <3>1, <3>2, <3>3
  <2> QED BY <2>2, <2>4
<1>7. ASSUME NEW j \in 1..Len(Shards) PROVE Tallied(j)'
  <2>1. CASE j # i
    <3>1. Finished(j)' => Finished(j)
      <4>1. SUFFICES ASSUME Finished(j)' PROVE Finished(j)
        OBVIOUS
      <4>2. /\ j <= next /\ ~cancelled
            /\ \A v \in Workers : state'[v] = "scan" => shard'[v] # j
        BY <1>3, <4>1 DEF Finished
      <4>3. \A v \in Workers : state[v] = "scan" =>
              v = w \/ (state'[v] = "scan" /\ shard'[v] = shard[v])
        BY <1>3, <1>4
      <4> QED BY <1>1, <2>1, <4>2, <4>3 DEF Finished
    <3>2. j \in Nat /\ Tallied(j) /\ next' = next /\ handed' = handed
      BY <1>3, <1>4
    <3> QED BY <1>3, <1>4, <3>1, <3>2, StaysTallied
  <2>2. CASE j = i
    <3>1. ~(i > next') /\ i \in Nat
      BY <1>3, <1>4, <1>6
    <3>2. Source(i)' = s /\ Here(i)' = Here(i) /\ (Sighted(i)' => Sighted(i))
      BY <1>2, <1>3, <1>4, ShardsStay
    <3> QED BY <1>3, <1>6, <2>2, <3>1, <3>2 DEF Tallied
  <2> QED BY <2>1, <2>2
<1>8. Shards' = Shards
  BY <1>3, <1>4, ShardsStay
<1> QED BY <1>3, <1>4, <1>5, <1>7, <1>8, <1>9, <1>10 DEF Tally

\* A step of another kind hands nothing over, and starts and finishes no shard.
LEMMA OthersTally ==
  ASSUME Inv, UNCHANGED <<input, next, blind, handed>>, at' \in [Workers -> 0..MaxLen],
         \A v \in Workers : state'[v] = "scan" =>
           state[v] = "scan" /\ shard'[v] = shard[v] /\ at'[v] = at[v],
         cancelled' \/ (UNCHANGED <<state, shard>> /\ (cancelled' = cancelled))
  PROVE  Tally'
<1>1. /\ Given /\ Len(Shards) \in Nat /\ next \in Nat
      /\ handed \in [Positioned -> Nat] /\ at \in [Workers -> 0..MaxLen]
      /\ \A v \in Workers : state[v] = "scan" => OnTrack(v)
      /\ \A j \in 1..Len(Shards) : Tallied(j)
      /\ NothingElse
  BY DEF Inv, ScanInv, Control, Tally
<1>2. ASSUME NEW v \in Workers, state'[v] = "scan" PROVE OnTrack(v)'
  <2>1. OnTrack(v) /\ shard'[v] = shard[v] /\ at'[v] = at[v]
    BY <1>1, <1>2
  <2> QED BY <1>1, <2>1, StaysOnTrack
<1>3. ASSUME NEW j \in 1..Len(Shards) PROVE Tallied(j)'
  <2>1. Finished(j)' => Finished(j)
    BY DEF Finished
  <2>2. j \in Nat /\ Tallied(j) /\ next' = next /\ handed' = handed
    BY <1>1
  <2> QED BY <1>1, <2>1, <2>2, StaysTallied
<1>4. Shards' = Shards
  BY <1>1, ShardsStay
<1>5. NothingElse'
  <2>1. UNCHANGED <<clear, records, handed>>
    BY DEF input
  <2> QED BY <1>1, <2>1 DEF NothingElse
<1> QED BY <1>1, <1>2, <1>3, <1>4, <1>5 DEF Tally

\* Every step keeps the whole invariant.
LEMMA StepKeepsInv == Inv /\ [Next]_vars => Inv'
<1> SUFFICES ASSUME Inv, [Next]_vars PROVE Inv'
  OBVIOUS
<1>1. ScanInv'
  BY StepKeepsScanInv DEF Inv
<1>2. UNCHANGED input
  <2>1. ASSUME NEW w \in Workers, Draw(w) \/ HandOver(w) \/ ShardDone(w) \/ WorkerFails(w)
        PROVE  UNCHANGED input
    BY <2>1 DEF Draw, HandOver, ShardDone, WorkerFails
  <2>2. CallerCancels \/ Return \/ UNCHANGED vars => UNCHANGED input
    BY DEF CallerCancels, Return, vars
  <2> QED BY <2>1, <2>2 DEF Next
<1>3. Given'
  BY <1>2, GivenStays DEF Inv
<1>4. Tally'
  <2>1. ASSUME NEW w \in Workers, WorkerFails(w) PROVE Tally'
    <3>1. /\ UNCHANGED <<input, next, blind, handed>>
          /\ state' = [state EXCEPT ![w] = "done"]
          /\ shard' = [shard EXCEPT ![w] = 0] /\ at' = [at EXCEPT ![w] = 0]
          /\ cancelled' = (cancelled \/ firstErr = "none")
      BY <2>1 DEF WorkerFails, Fail, Leave
    <3>2. /\ firstErr # "none" => cancelled
          /\ state \in [Workers -> {"draw", "scan", "done"}]
          /\ shard \in [Workers -> Nat] /\ at \in [Workers -> 0..MaxLen]
      BY DEF Inv, ScanInv, Control, Tally
    <3>3. cancelled'
      BY <3>1, <3>2
    <3>4. \A v \in Workers : state'[v] = "scan" =>
            state[v] = "scan" /\ shard'[v] = shard[v] /\ at'[v] = at[v]
      BY <3>1, <3>2
    <3>5. at' \in [Workers -> 0..MaxLen]
      <4>1. 0 \in 0..MaxLen
        BY FramingAssumption
      <4> QED BY <3>1, <3>2, <4>1
    <3> QED BY <3>1, <3>3, <3>4, <3>5, OthersTally
  <2>2. CASE CallerCancels
    <3>1. UNCHANGED <<input, next, blind, shard, at, handed, state>> /\ cancelled'
      BY <2>2 DEF CallerCancels, worker
    <3>2. at' \in [Workers -> 0..MaxLen]
      BY <3>1 DEF Inv, Tally
    <3> QED BY <3>1, <3>2, OthersTally
  <2>3. CASE Return \/ UNCHANGED vars
    <3>1. UNCHANGED <<input, next, blind, shard, at, handed, state, cancelled>>
      BY <2>3 DEF Return, vars, worker
    <3>2. at' \in [Workers -> 0..MaxLen]
      BY <3>1 DEF Inv, Tally
    <3> QED BY <3>1, <3>2, OthersTally
  <2> QED
    BY <2>1, <2>2, <2>3, DrawTallies, SightedTallies, BlindTallies, ShardDoneTallies
      DEF Next
<1> QED BY <1>1, <1>3, <1>4 DEF Inv
\* The whole invariant holds of every scan.
LEMMA InvHolds == Spec => []Inv
  BY InitInv, StepKeepsInv, PTL DEF Spec

(***************************************************************************)
(* The type invariant: the cursor is drawn past the last shard only by a   *)
(* worker that is done after it.                                           *)
(***************************************************************************)
Idle == {w \in Workers : state[w] = "done"}

Bounded ==
  /\ next <= Len(Shards) + Cardinality(Idle)
  /\ result \in Workers \cup {"running", "cancelled", "nil"}

LEMMA IdleIsFinite ==
  /\ IsFiniteSet(Idle) /\ Cardinality(Idle) \in Nat
  /\ Cardinality(Idle) <= Cardinality(Workers) /\ Cardinality(Workers) \in Nat
<1>1. Idle \subseteq Workers /\ IsFiniteSet(Workers)
  BY ScanAssumption DEF Idle
<1>2. IsFiniteSet(Idle) /\ Cardinality(Idle) <= Cardinality(Workers)
  BY <1>1, FS_Subset
<1> QED BY <1>1, <1>2, FS_CardinalityType

LEMMA StepKeepsBounded == Inv /\ Bounded /\ [Next]_vars => Bounded'
<1> SUFFICES ASSUME Inv, Bounded, [Next]_vars PROVE Bounded'
  OBVIOUS
<1>1. /\ state \in [Workers -> {"draw", "scan", "done"}] /\ next \in Nat
      /\ Len(Shards) \in Nat /\ Given
      /\ firstErr \in Workers \cup {"none"}
  BY DEF Inv, ScanInv, Control
<1>2. /\ IsFiniteSet(Idle) /\ Cardinality(Idle) \in Nat
      /\ IsFiniteSet(Idle') /\ Cardinality(Idle') \in Nat
  <2>1. Idle' \subseteq Workers /\ IsFiniteSet(Workers)
    BY ScanAssumption DEF Idle
  <2>2. IsFiniteSet(Idle')
    BY <2>1, FS_Subset
  <2> QED BY <2>2, IdleIsFinite, FS_CardinalityType
<1>3. ASSUME Idle \subseteq Idle', next' = next, Shards' = Shards
      PROVE  next' <= Len(Shards') + Cardinality(Idle')
  <2>1. Cardinality(Idle) <= Cardinality(Idle')
    BY <1>2, <1>3, FS_Subset
  <2> QED BY <1>1, <1>2, <1>3, <2>1 DEF Bounded
<1>4. ASSUME NEW w \in Workers, Draw(w)
      PROVE  Bounded'
  <2>1. /\ state[w] = "draw" /\ next' = next + 1 /\ UNCHANGED <<input, cancelled, result>>
    BY <1>4 DEF Draw
  <2>2. Shards' = Shards
    BY <1>1, <2>1, ShardsStay
  <2>3. CASE next >= Len(Shards) \/ cancelled
    <3>1. state' = [state EXCEPT ![w] = "done"]
      BY <1>4, <2>3 DEF Draw
    <3>2. Idle' = Idle \cup {w} /\ w \notin Idle
      BY <1>1, <2>1, <3>1 DEF Idle
    <3>3. Cardinality(Idle') = Cardinality(Idle) + 1
      BY <1>2, <3>2, FS_AddElement
    <3> QED BY <1>1, <1>2, <2>1, <2>2, <3>3 DEF Bounded
  <2>4. CASE ~(next >= Len(Shards) \/ cancelled)
    <3>1. next + 1 <= Len(Shards)
      BY <1>1, <2>4
    <3> QED BY <1>1, <1>2, <2>1, <2>2, <3>1 DEF Bounded
  <2> QED BY <2>3, <2>4
<1>5. ASSUME NEW w \in Workers, HandOver(w) \/ ShardDone(w) \/ WorkerFails(w)
      PROVE  Bounded'
  <2>1. /\ state[w] = "scan" /\ UNCHANGED <<input, next, result>>
        /\ \A v \in Workers : state[v] = "done" => state'[v] = "done"
    BY <1>1, <1>5 DEF HandOver, ShardDone, WorkerFails, Leave
  <2>2. Shards' = Shards /\ Idle \subseteq Idle'
    BY <1>1, <2>1, ShardsStay DEF Idle
  <2> QED BY <1>3, <2>1, <2>2 DEF Bounded
<1>6. CASE CallerCancels \/ Return \/ UNCHANGED vars
  <2>1. /\ UNCHANGED <<input, next, state>> /\ result' \in {result, Outcome}
    BY <1>6 DEF CallerCancels, Return, vars, worker
  <2>2. Outcome \in Workers \cup {"running", "cancelled", "nil"}
    BY <1>1 DEF Outcome
  <2>3. Shards' = Shards /\ Idle \subseteq Idle'
    BY <1>1, <2>1, ShardsStay DEF Idle
  <2> QED BY <1>3, <2>1, <2>2, <2>3 DEF Bounded
<1> QED BY <1>4, <1>5, <1>6 DEF Next

(***************************************************************************)
(* The cursor is drawn past the plan at most once by each worker, a worker *)
(* that scans has a shard of it, and its parser stays in the source        *)
(* (parallel.go:111-133).                                                  *)
(***************************************************************************)
THEOREM ScanTypeCorrect == Spec => []TypeOK
<1>1. Init => Bounded
  <2> SUFFICES ASSUME Init PROVE Bounded
    OBVIOUS
  <2>1. next = 0 /\ result = "running"
    BY DEF Init
  <2>2. Len(Shards) \in Nat
    BY InitScanInv DEF ScanInv, Control
  <2> QED BY <2>1, <2>2, IdleIsFinite DEF Bounded
<1>2. Inv /\ Bounded => TypeOK
  <2> SUFFICES ASSUME Inv, Bounded PROVE TypeOK
    OBVIOUS
  <2>1. /\ Len(Shards) \in Nat /\ next \in Nat /\ cancelled \in BOOLEAN
        /\ firstErr \in Workers \cup {"none"}
        /\ state \in [Workers -> {"draw", "scan", "done"}]
        /\ count \in [Workers -> Nat] /\ at \in [Workers -> 0..MaxLen]
        /\ \A w \in Workers : state[w] = "scan" => shard[w] \in 1..Len(Shards)
        /\ blind \subseteq {Shards[i] : i \in 1..Len(Shards)}
    BY DEF Inv, ScanInv, Control, ShardsExclusive, Tally
  <2>2. next \in 0..(Len(Shards) + Cardinality(Workers))
    BY <2>1, IdleIsFinite DEF Bounded
  <2> QED BY <2>1, <2>2 DEF Bounded, TypeOK
<1> QED BY <1>1, <1>2, InvHolds, StepKeepsBounded, PTL DEF Spec
-----------------------------------------------------------------------------
(***************************************************************************)
(* The scan implements the abstract one, step by step.                     *)
(***************************************************************************)
\* What the abstract scan sees of handed.
LEMMA KeptIs ==
  Kept = [p \in Positioned |-> IF p[1] \in clear /\ p \notin Unseen THEN handed[p] ELSE 0]
  BY DEF Kept

LEMMA InitRefines == Init => Promised!Init
<1> SUFFICES ASSUME Init PROVE Promised!Init
  OBVIOUS
<1>1. Unseen = {}
  BY DEF Init, Unseen
<1>2. /\ records \subseteq Positioned /\ handed = [p \in Positioned |-> 0]
      /\ result = "running"
  BY DEF Init
<1>3. Kept = [p \in Positioned |-> 0]
  BY <1>2, KeptIs
<1> QED BY <1>1, <1>2, <1>3 DEF Promised!Init

\* The places of the shards entered blind, and of no other.
LEMMA UnseenIs ==
  ASSUME Inv
  PROVE  /\ Unseen \subseteq Positioned
         /\ \A i \in 1..Len(Shards) : \A o \in Nat : InShard(i, o) =>
              (<<Source(i), o>> \in Unseen <=> Shards[i] \in blind)
<1>1. /\ Planned /\ blind \subseteq {Shards[i] : i \in 1..Len(Shards)}
      /\ \A s \in 1..2 : Len(Bytes(s)) \in 0..MaxLen
  BY ShardsArePlanned DEF Inv, ScanInv, Control, Given, Bytes
<1>2. \A i \in 1..Len(Shards) :
        /\ Source(i) \in 1..2 /\ Shards[i].start \in Nat
        /\ Shards[i].end \in 0..(MaxLen + 1)
  <2>1. \A i \in 1..Len(Shards) :
          /\ Source(i) \in 1..2 /\ Shards[i].start \in 0..Len(Bytes(Source(i)))
          /\ Shards[i].end \in 0..(MaxLen + 1)
    BY <1>1 DEF Planned, Source, Bytes
  <2> QED BY <1>1, <2>1
<1>3. \A i \in 1..Len(Shards) : \A o :
        o \in Shards[i].start .. Shards[i].end - 1 <=> o \in Nat /\ InShard(i, o)
  <2>1. ASSUME NEW i \in 1..Len(Shards), NEW a, NEW b, NEW o,
               a = Shards[i].start, b = Shards[i].end
        PROVE  o \in a .. b - 1 <=> o \in Nat /\ a <= o /\ o < b
    <3>1. a \in Nat /\ b \in Int
      BY <1>2, <2>1, FramingAssumption
    <3> QED BY <3>1
  <2> QED BY <2>1 DEF InShard
<1>4. \A p : p \in Unseen <=>
        \E i \in 1..Len(Shards) : \E o \in Nat :
          Shards[i] \in blind /\ InShard(i, o) /\ p = <<Source(i), o>>
  BY <1>1, <1>3 DEF Unseen, Source
<1>5. Unseen \subseteq Positioned
  <2> SUFFICES ASSUME NEW p \in Unseen PROVE p \in Positioned
    OBVIOUS
  <2>1. PICK i \in 1..Len(Shards), o \in Nat : InShard(i, o) /\ p = <<Source(i), o>>
    BY <1>4
  <2>2. o \in 0..MaxLen /\ Source(i) \in 1..2
    BY <1>2, <2>1, FramingAssumption DEF InShard
  <2> QED BY <2>1, <2>2 DEF Positioned
<1>6. ASSUME NEW i \in 1..Len(Shards), NEW o \in Nat, InShard(i, o),
             <<Source(i), o>> \in Unseen
      PROVE  Shards[i] \in blind
  <2>1. PICK j \in 1..Len(Shards), k \in Nat :
          Shards[j] \in blind /\ InShard(j, k) /\ <<Source(i), o>> = <<Source(j), k>>
    BY <1>4, <1>6
  <2>2. Source(i) = Source(j) /\ o = k
    BY <2>1
  <2>3. i = j
    BY <1>1, <1>6, <2>1, <2>2 DEF Planned, Source
  <2> QED BY <2>1, <2>3
<1> QED BY <1>4, <1>5, <1>6

\* A record handed over of a comparable source is one the abstract scan waits
\* for; one of another source, or of a blind worker, it does not see.
LEMMA HandOverRefines ==
  ASSUME Inv, NEW w \in Workers, HandOver(w)
  PROVE  \/ UNCHANGED <<records, Kept, Unseen, result>>
         \/ \E p \in records : Promised!HandOver(p)
<1>1. PICK i, o : i = shard[w] /\ o = NextRecord(w)
  OBVIOUS
<1>2. PICK s, q : s = Source(i) /\ q = After(Source(i), o)
  OBVIOUS
<1>3. UNCHANGED <<records, clear, blind, result>> /\ state[w] = "scan"
  BY DEF HandOver, Leave, input
<1>0. Unseen' = Unseen
  BY <1>3 DEF Unseen
<1>10. Kept' = [p \in Positioned |->
                  IF p[1] \in clear /\ p \notin Unseen THEN handed'[p] ELSE 0]
  BY <1>0, <1>3 DEF Kept
<1>9. CASE Blind(w)
  <2>1. handed' = handed
    BY <1>9 DEF HandOver
  <2> QED BY <1>0, <1>3, <1>10, <2>1, KeptIs
<1>11. CASE ~Blind(w)
  <2>1. /\ i \in 1..Len(Shards) /\ o \in Nat /\ <<s, o>> \in Positioned /\ InShard(i, o)
        /\ handed' = [handed EXCEPT ![<<s, o>>] = @ + 1]
        /\ s \in clear => o \in InOrder(s) /\ handed[<<s, o>>] = 0
    BY <1>1, <1>2, <1>11, HandOverIs
  <2>2. handed \in [Positioned -> Nat] /\ result = "running" /\ Given
    BY <1>3 DEF Inv, ScanInv, NilIsUndisturbed, Tally
  <2>3. <<s, o>>[1] = s /\ <<s, o>>[2] = o
    OBVIOUS
  <2>4. <<s, o>> \notin Unseen
    BY <1>1, <1>2, <1>11, <2>1, UnseenIs DEF Blind
  <2>5. CASE s \notin clear
    <3>1. \A p \in Positioned : p[1] \in clear => handed'[p] = handed[p]
      BY <2>1, <2>2, <2>3, <2>5
    <3> QED BY <1>0, <1>3, <1>10, <3>1, KeptIs
  <2>6. CASE s \in clear
    <3>1. <<s, o>> \in records
      BY <2>1, <2>2, <2>3, <2>6 DEF Given
    <3>2. Kept[<<s, o>>] = 0
      BY <2>1, KeptIs
    <3>3. Kept' = [Kept EXCEPT ![<<s, o>>] = 1]
      <4>1. ASSUME NEW p \in Positioned
            PROVE  Kept'[p] = IF p = <<s, o>> THEN 1 ELSE Kept[p]
        <5>1. CASE p = <<s, o>>
          <6>1. handed'[<<s, o>>] = 1
            BY <2>1, <2>2, <2>6
          <6> QED BY <1>10, <2>1, <2>3, <2>4, <2>6, <5>1, <6>1
        <5>2. CASE p # <<s, o>>
          <6>1. handed'[p] = handed[p]
            BY <2>1, <2>2, <5>2
          <6> QED BY <1>10, <5>2, <6>1, KeptIs
        <5> QED BY <5>1, <5>2
      <4>2. Kept' = [p \in Positioned |-> Kept'[p]] /\ Kept = [p \in Positioned |-> Kept[p]]
        BY <1>10, KeptIs
      <4> QED BY <4>1, <4>2
    <3>4. Promised!HandOver(<<s, o>>)
      BY <1>0, <1>3, <2>2, <2>4, <3>2, <3>3 DEF Promised!HandOver
    <3> QED BY <3>1, <3>4
  <2> QED BY <2>5, <2>6
<1> QED BY <1>9, <1>11

\* A shard entered blind is a part of its source that could not be read: fn had
\* got nothing of it.
LEMMA DrawRefines ==
  ASSUME Inv, NEW w \in Workers, Draw(w)
  PROVE  Promised!LoseSight \/ UNCHANGED <<records, Kept, Unseen, result>>
<1>1. /\ UNCHANGED <<input, records, clear, handed, result>> /\ state[w] = "draw"
      /\ Given /\ Control /\ Tally /\ Len(Shards) \in Nat /\ next \in Nat
      /\ result = "running"
  BY DEF Draw, input, Inv, ScanInv, Control, NilIsUndisturbed
<1>2. CASE blind' = blind
  <2>1. Unseen' = Unseen
    BY <1>2 DEF Unseen
  <2>2. Kept' = Kept
    BY <1>1, <2>1 DEF Kept
  <2> QED BY <1>1, <2>1, <2>2
<1>3. CASE blind' # blind
  <2>1. PICK n : n = next + 1
    OBVIOUS
  <2>2. n \in 1..Len(Shards) /\ n > next /\ blind' = blind \cup {Shards[n]}
    BY <1>1, <1>3, <2>1 DEF Draw, Enter
  <2>3. Unseen \subseteq Unseen'
    BY <2>2 DEF Unseen
  <2>4. ASSUME NEW p \in Unseen' \ Unseen
        PROVE  p \in Positioned /\ Kept[p] = 0
    <3>1. p \in {Shards[n].src} \X (Shards[n].start .. Shards[n].end - 1)
      BY <2>2, <2>4 DEF Unseen
    <3>2. PICK o \in Shards[n].start .. Shards[n].end - 1 : p = <<Source(n), o>>
      BY <3>1 DEF Source
    <3>3. /\ Source(n) \in 1..2 /\ Len(Bytes(Source(n))) \in 0..MaxLen
          /\ Shards[n].start \in 0..Len(Bytes(Source(n)))
          /\ Shards[n].end \in 0..(MaxLen + 1) /\ MaxLen \in Nat
      BY <1>1, <2>2, ShardIs, FramingAssumption
    <3>4. o \in 0..MaxLen /\ InShard(n, o)
      <4>1. PICK a, b : a = Shards[n].start /\ b = Shards[n].end
        OBVIOUS
      <4>2. a \in Nat /\ b \in 0..(MaxLen + 1) /\ o \in a .. b - 1
        BY <3>3, <4>1
      <4>3. o \in 0..MaxLen /\ a <= o /\ o < b
        BY <3>3, <4>2
      <4> QED BY <4>1, <4>3 DEF InShard
    <3>5. p \in Positioned /\ p[1] = Source(n) /\ p[2] = o
      BY <3>2, <3>3, <3>4 DEF Positioned
    <3>6. p[1] \in clear => handed[p] = 0
      <4>1. CASE p \in records
        <5>1. p[1] \in clear => o \in Here(n)
          BY <1>1, <3>4, <3>5, <4>1 DEF Given, Here
        <5> QED BY <1>1, <2>2, <3>2, <3>5, <5>1 DEF Tally, Tallied
      <4>2. CASE p \notin records
        BY <1>1, <3>5, <4>2 DEF Tally, NothingElse
      <4> QED BY <4>1, <4>2
    <3> QED BY <3>5, <3>6, KeptIs
  <2>5. Unseen' \subseteq Positioned
    BY <2>4, UnseenIs
  <2>6. Kept' = Kept
    <3>1. Kept' = [p \in Positioned |->
                     IF p[1] \in clear /\ p \notin Unseen' THEN handed[p] ELSE 0]
      BY <1>1 DEF Kept
    <3>2. ASSUME NEW p \in Positioned
          PROVE  Kept[p] = IF p[1] \in clear /\ p \notin Unseen' THEN handed[p] ELSE 0
      <4>1. CASE p \in Unseen' \ Unseen
        BY <2>4, <4>1
      <4>2. CASE p \notin Unseen' \ Unseen
        BY <2>3, <4>2, KeptIs
      <4> QED BY <4>1, <4>2
    <3>3. Kept = [p \in Positioned |-> Kept[p]]
      BY KeptIs
    <3> QED BY <3>1, <3>2, <3>3
  <2> QED BY <1>1, <2>3, <2>4, <2>5, <2>6 DEF Promised!LoseSight
<1> QED BY <1>2, <1>3

\* When the call returns nil, every record has been handed over that is not in
\* a shard entered blind.
LEMMA NilHasAll ==
  ASSUME Inv, \A w \in Workers : state[w] = "done",
         ~cancelled \/ Len(Shards) = 0
  PROVE  \A p \in records \ Unseen : handed[p] = 1
<1>1. /\ Given /\ Planned /\ Len(Shards) \in Nat /\ next \in Nat
      /\ ~cancelled => next >= Len(Shards)
      /\ \A i \in 1..Len(Shards) : Tallied(i)
  BY ShardsArePlanned DEF Inv, ScanInv, Control, NilIsUndisturbed, Tally
<1> SUFFICES ASSUME NEW p \in records \ Unseen PROVE handed[p] = 1
  OBVIOUS
<1>2. p \in Positioned /\ p[1] \in clear /\ p[2] \in InOrder(p[1])
  BY <1>1 DEF Given
<1>3. PICK s, o : s = p[1] /\ o = p[2] /\ p = <<s, o>>
  BY <1>2 DEF Positioned
<1>4. s \in 1..2 /\ o \in Nat /\ o < Len(Bytes(s))
  <2>1. s \in 1..2
    BY <1>2, <1>3 DEF Positioned
  <2> QED BY <1>1, <1>2, <1>3, <2>1, InOrderIs
<1>5. PICK i \in 1..Len(Shards) : Source(i) = s /\ InShard(i, o)
  BY <1>1, <1>4 DEF Planned, Bytes, Source
<1>6. o \in Here(i) /\ Sighted(i)
  <2>1. Shards[i] \notin blind
    BY <1>3, <1>4, <1>5, UnseenIs
  <2> QED BY <1>2, <1>3, <1>5, <2>1 DEF Here, Sighted
<1>7. Finished(i)
  <2>1. Len(Shards) # 0
    BY <1>1, <1>5
  <2>2. i <= next /\ ~cancelled
    BY <1>1, <2>1
  <2> QED BY <2>2 DEF Finished
<1> QED BY <1>1, <1>3, <1>5, <1>6, <1>7 DEF Tallied

\* The call returns nil when it may, and gives up otherwise.
LEMMA ReturnRefines ==
  ASSUME Inv, Return
  PROVE  Promised!Complete \/ Promised!GiveUp
<1>1. /\ result = "running" /\ result' = Outcome
      /\ \A w \in Workers : state[w] = "done"
      /\ UNCHANGED <<records, clear, handed, blind>>
  BY DEF Return, worker, input
<1>2. UNCHANGED <<Kept, Unseen>>
  <2>1. Unseen' = Unseen
    BY <1>1 DEF Unseen
  <2> QED BY <1>1, <2>1 DEF Kept
<1>3. /\ firstErr \in Workers \cup {"none"} /\ "nil" \notin Workers
      /\ Len(Shards) = 0 => firstErr = "none"
  BY ScanAssumption DEF Inv, ScanInv, Control, NilIsUndisturbed
<1>4. CASE Outcome = "nil"
  <2>1. ~cancelled \/ Len(Shards) = 0
    BY <1>3, <1>4 DEF Outcome
  <2>2. \A p \in records \ Unseen : handed[p] = 1
    BY <1>1, <2>1, NilHasAll
  <2>3. ASSUME NEW p \in records \ Unseen PROVE Kept[p] = 1
    <3>1. p \in Positioned /\ p[1] \in clear
      BY DEF Inv, Given
    <3> QED BY <2>2, <3>1, KeptIs
  <2> QED BY <1>1, <1>2, <1>4, <2>3 DEF Promised!Complete
<1>5. CASE Outcome # "nil"
  <2>1. result' \in Workers \cup {"cancelled"}
    BY <1>1, <1>3, <1>5 DEF Outcome
  <2> QED BY <1>1, <1>2, <2>1 DEF Promised!GiveUp
<1> QED BY <1>4, <1>5

LEMMA StepRefines == Inv /\ [Next]_vars => [Promised!Next]_(Promised!vars)
<1> SUFFICES ASSUME Inv, [Next]_vars PROVE [Promised!Next]_(Promised!vars)
  OBVIOUS
<1>1. ASSUME UNCHANGED <<records, Kept, Unseen, result>> PROVE UNCHANGED Promised!vars
  BY <1>1 DEF Promised!vars
<1>2. ASSUME UNCHANGED <<records, clear, blind, handed, result>>
      PROVE  UNCHANGED Promised!vars
  <2>1. Unseen' = Unseen
    BY <1>2 DEF Unseen
  <2>2. Kept' = Kept
    BY <1>2, <2>1 DEF Kept
  <2> QED BY <1>1, <1>2, <2>1, <2>2
<1>3. ASSUME NEW w \in Workers, ShardDone(w) \/ WorkerFails(w)
      PROVE  UNCHANGED Promised!vars
  <2>1. UNCHANGED <<records, clear, blind, handed, result>>
    BY <1>3 DEF ShardDone, WorkerFails, Leave, input
  <2> QED BY <1>2, <2>1
<1>4. ASSUME CallerCancels \/ UNCHANGED vars
      PROVE  UNCHANGED Promised!vars
  <2>1. UNCHANGED <<records, clear, blind, handed, result>>
    BY <1>4 DEF CallerCancels, vars, worker, input
  <2> QED BY <1>2, <2>1
<1>5. ASSUME NEW w \in Workers, HandOver(w) \/ Draw(w)
      PROVE  Promised!Next \/ UNCHANGED Promised!vars
  BY <1>1, <1>5, HandOverRefines, DrawRefines DEF Promised!Next
<1>6. Return => Promised!Next
  BY ReturnRefines DEF Promised!Next
<1> QED BY <1>3, <1>4, <1>5, <1>6 DEF Next

(***************************************************************************)
(* The parallel scan is one of those Scan allows (parallel.go:11-31):      *)
(* wherever the sources are cut and whoever draws which shard, each record *)
(* one parser finds is handed over at most once, nothing else is, and a    *)
(* scan that returns nil has handed over all of them but those of shards   *)
(* that were entered without the head of their source.                     *)
(***************************************************************************)
THEOREM ScanIsAsPromised == Spec => ImplementsScan
  BY InitRefines, StepRefines, InvHolds, PTL DEF Spec, ImplementsScan, Promised!Spec
-----------------------------------------------------------------------------
(***************************************************************************)
(* What the abstract scan promises holds of every step it allows, whatever *)
(* the places are.                                                         *)
(***************************************************************************)
LEMMA PromiseStep ==
  ASSUME Promised!ScanType, Promised!ExactlyOnce, [Promised!Next]_(Promised!vars)
  PROVE  Promised!ScanType' /\ Promised!ExactlyOnce'
<1> DEFINE P == Positioned
           h == Kept
           u == Unseen
<1>1. /\ records \subseteq P /\ h \in [P -> 0..1]
      /\ \A p \in (P \ records) \cup (P \cap u) : h[p] = 0
      /\ \A p \in P : h[p] <= (IF p \in records THEN 1 ELSE 0)
      /\ result = "nil" => \A p \in records \ u : h[p] = 1
  BY DEF Promised!ScanType, Promised!ExactlyOnce
<1>2. "nil" \notin Workers \cup {"cancelled"}
  BY ScanAssumption
<1>3. \/ \E p \in records : /\ p \notin u /\ h[p] = 0 /\ h' = [h EXCEPT ![p] = 1]
                            /\ UNCHANGED <<records, u, result>> /\ result = "running"
      \/ /\ u \subseteq u' /\ u' \subseteq P /\ \A p \in u' \ u : h[p] = 0
         /\ UNCHANGED <<records, h, result>> /\ result = "running"
      \/ /\ \A p \in records \ u : h[p] = 1
         /\ result' = "nil" /\ UNCHANGED <<records, h, u>>
      \/ result' \in Workers \cup {"cancelled"} /\ UNCHANGED <<records, h, u>>
      \/ UNCHANGED <<records, h, u, result>>
  BY DEF Promised!Next, Promised!HandOver, Promised!LoseSight, Promised!Complete,
         Promised!GiveUp, Promised!vars
<1> HIDE DEF h, P, u
<1>4. /\ records' \subseteq P /\ h' \in [P -> 0..1]
      /\ \A p \in (P \ records') \cup (P \cap u') : h'[p] = 0
      /\ \A p \in P : h'[p] <= (IF p \in records' THEN 1 ELSE 0)
      /\ result' = "nil" => \A p \in records' \ u' : h'[p] = 1
  <2>1. ASSUME NEW p \in records, p \notin u, h[p] = 0, h' = [h EXCEPT ![p] = 1],
               UNCHANGED <<records, u, result>>, result = "running"
        PROVE  /\ h' \in [P -> 0..1]
               /\ \A x \in (P \ records) \cup (P \cap u) : h'[x] = 0
               /\ \A x \in P : h'[x] <= (IF x \in records THEN 1 ELSE 0)
    BY <1>1, <2>1
  <2>2. ASSUME u \subseteq u', u' \subseteq P, \A p \in u' \ u : h[p] = 0
        PROVE  \A x \in (P \ records) \cup (P \cap u') : h[x] = 0
    BY <1>1, <2>2
  <2> QED BY <1>1, <1>2, <1>3, <2>1, <2>2
<1> QED BY <1>4 DEF Promised!ScanType, Promised!ExactlyOnce, h, P, u

(***************************************************************************)
(* A parallel scan that implements Scan hands over no record twice however *)
(* it ends, and every record once when it returns nil, but for those of    *)
(* the parts of a source nothing is promised of (parallel.go:19).          *)
(***************************************************************************)
THEOREM NilMeansExactlyOnce == ImplementsScan => []Promised!ExactlyOnce
<1> DEFINE P == Positioned
           h == Kept
           u == Unseen
<1>1. Promised!Init => Promised!ScanType /\ Promised!ExactlyOnce
  <2> SUFFICES ASSUME Promised!Init PROVE Promised!ScanType /\ Promised!ExactlyOnce
    OBVIOUS
  <2>1. records \subseteq P /\ h = [p \in P |-> 0] /\ u = {} /\ result = "running"
    BY DEF Promised!Init
  <2> HIDE DEF h, P, u
  <2>2. /\ h \in [P -> 0..1]
        /\ \A p \in (P \ records) \cup (P \cap u) : h[p] = 0
        /\ \A p \in P : h[p] <= (IF p \in records THEN 1 ELSE 0)
        /\ result = "nil" => \A p \in records \ u : h[p] = 1
    BY <2>1
  <2> QED BY <2>1, <2>2 DEF Promised!ScanType, Promised!ExactlyOnce, h, P, u
<1>2. /\ Promised!ScanType /\ Promised!ExactlyOnce /\ [Promised!Next]_(Promised!vars)
      => Promised!ScanType' /\ Promised!ExactlyOnce'
  BY PromiseStep
<1> QED
  BY <1>1, <1>2, PTL DEF ImplementsScan, Promised!Spec

(***************************************************************************)
(* So a parallel scan of sources whose record starts can be told apart     *)
(* hands over none of their records twice however it ends, and each of     *)
(* them once when it returns nil, if it is not in a shard that was entered *)
(* without the head of its source.                                         *)
(***************************************************************************)
THEOREM EachRecordOnce == Spec => []Promised!ExactlyOnce
  BY ScanIsAsPromised, NilMeansExactlyOnce, PTL

\* No source fails while its head is looked at: none fails at all, or the head
\* tells nothing that is not configured.
HeadIsSafe == ~MayFail \/ (~auto /\ actual # "stderr")

\* Of a comparable source only a failure loses the head.
BlindByFailure == HeadIsSafe => \A s \in blind : s.src \notin clear

\* nil stands for every record, once.
NilMeansAll == HeadIsSafe /\ result = "nil" => \A p \in records : handed[p] = 1

LEMMA HeadStaysSafe == [Next]_vars /\ HeadIsSafe' => HeadIsSafe
<1> SUFFICES ASSUME [Next]_vars PROVE UNCHANGED <<auto, actual>>
  BY DEF HeadIsSafe
<1>1. ASSUME NEW w \in Workers, Draw(w) \/ HandOver(w) \/ ShardDone(w) \/ WorkerFails(w)
      PROVE  UNCHANGED <<auto, actual>>
  BY <1>1 DEF Draw, HandOver, ShardDone, WorkerFails, input
<1>2. CallerCancels \/ Return \/ UNCHANGED vars => UNCHANGED <<auto, actual>>
  BY DEF CallerCancels, Return, vars, input
<1> QED BY <1>1, <1>2 DEF Next

LEMMA StepKeepsBlindByFailure ==
  Inv /\ BlindByFailure /\ [Next]_vars => BlindByFailure'
<1> SUFFICES ASSUME Inv, BlindByFailure, [Next]_vars, HeadIsSafe
             PROVE  \A s \in blind' : s.src \notin clear'
  BY HeadStaysSafe DEF BlindByFailure
<1>1. ASSUME UNCHANGED <<clear, blind>> PROVE \A s \in blind' : s.src \notin clear'
  BY <1>1 DEF BlindByFailure
<1>2. ASSUME NEW w \in Workers, Draw(w) PROVE \A s \in blind' : s.src \notin clear'
  <2>1. clear' = clear /\ Given
    BY <1>2 DEF Draw, input, Inv
  <2>2. CASE blind' = blind
    BY <1>1, <2>1, <2>2
  <2>3. CASE blind' # blind
    <3>1. PICK n : n = next + 1
      OBVIOUS
    <3>2. blind' = blind \cup {Shards[n]} /\ ~HeadTells(Shards[n].src)
      BY <1>2, <2>3, <3>1 DEF Draw, Enter, HeadMayFail, HeadIsSafe
    <3>3. Shards[n].src \notin clear
      BY <2>1, <3>2 DEF Given, Comparable
    <3> QED BY <2>1, <3>2, <3>3 DEF BlindByFailure
  <2> QED BY <2>2, <2>3
<1>3. ASSUME NEW w \in Workers, HandOver(w) \/ ShardDone(w) \/ WorkerFails(w)
      PROVE  UNCHANGED <<clear, blind>>
  BY <1>3 DEF HandOver, ShardDone, WorkerFails, Leave, input
<1>4. CallerCancels \/ Return \/ UNCHANGED vars => UNCHANGED <<clear, blind>>
  BY DEF CallerCancels, Return, vars, worker, input
<1> QED BY <1>1, <1>2, <1>3, <1>4 DEF Next

\* When the call returns nil, no record is left.
LEMMA StepKeepsNilMeansAll ==
  Inv /\ BlindByFailure /\ NilMeansAll /\ [Next]_vars => NilMeansAll'
<1> SUFFICES ASSUME Inv, BlindByFailure, NilMeansAll, [Next]_vars,
                    HeadIsSafe, result' = "nil", NEW p \in records'
             PROVE  handed'[p] = 1
  BY HeadStaysSafe DEF NilMeansAll
<1>1. ASSUME UNCHANGED <<records, handed, result>> PROVE handed'[p] = 1
  BY <1>1 DEF NilMeansAll
<1>2. CASE Return
  <2>1. /\ UNCHANGED <<records, handed>> /\ Outcome = "nil"
        /\ \A w \in Workers : state[w] = "done"
    BY <1>2 DEF Return, input
  <2>2. "nil" \notin Workers /\ Given
    BY ScanAssumption DEF Inv
  <2>3. ~cancelled \/ Len(Shards) = 0
    BY <2>1, <2>2 DEF Outcome, Inv, ScanInv, Control
  <2>4. p \notin Unseen
    <3>1. p[1] \in clear
      BY <2>1, <2>2 DEF Given
    <3>2. \A s \in blind : s.src # p[1]
      BY <3>1 DEF BlindByFailure
    <3> QED BY <3>2 DEF Unseen
  <2> QED BY <2>1, <2>3, <2>4, NilHasAll
<1>3. ASSUME NEW w \in Workers, Draw(w) \/ HandOver(w) \/ ShardDone(w) \/ WorkerFails(w)
      PROVE  result' = result /\ result = "running"
  BY <1>3 DEF Draw, HandOver, ShardDone, WorkerFails, Inv, ScanInv, NilIsUndisturbed
<1>4. CallerCancels \/ UNCHANGED vars => UNCHANGED <<records, handed, result>>
  BY DEF CallerCancels, vars, input
<1> QED BY <1>1, <1>2, <1>3, <1>4 DEF Next

(***************************************************************************)
(* Where nothing fails, and where a format other than stderr is configured *)
(* whatever fails, the exception is void: a scan that returns nil has      *)
(* handed over exactly once each record of its sources whose head tells    *)
(* the format and whose record starts can be told apart (parallel.go:19).  *)
(***************************************************************************)
THEOREM NilOfSoundSources == Spec => []NilMeansAll
<1>1. Init => BlindByFailure /\ NilMeansAll
  BY DEF Init, BlindByFailure, NilMeansAll
<1> QED
  BY <1>1, InvHolds, StepKeepsBlindByFailure, StepKeepsNilMeansAll, PTL DEF Spec
=============================================================================
