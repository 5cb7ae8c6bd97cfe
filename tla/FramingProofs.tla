---------------------------- MODULE FramingProofs ---------------------------
(***************************************************************************)
(* Lemmas about the framing of an input, of any length and any size cap:   *)
(* what the split functions return, the positions and the landing place    *)
(* that the recursive definitions of Framing give, and the records found   *)
(* from a landing place on.                                                *)
(***************************************************************************)
EXTENDS Framing, FiniteSetTheorems, SequenceTheorems, WellFoundedInduction, TLAPS

-----------------------------------------------------------------------------
(***************************************************************************)
(* What the split functions return.                                        *)
(***************************************************************************)
\* Every set of numbers has a least element, and Min is it.
LEMMA MinIsLeast ==
  ASSUME NEW S, S \subseteq Nat, S # {}
  PROVE  Min(S) \in S /\ \A y \in S : Min(S) <= y
  <1> DEFINE R == OpToRel(<, Nat)
  <1>1. R = {ss \in Nat \X Nat : ss[1] < ss[2]}
    BY DEF OpToRel
  <1>2. IsWellFoundedOn(R, Nat)
    BY NatLessThanWellFounded
  <1> HIDE DEF R
  <1>3. PICK x \in S : \A y \in S : ~(<<y, x>> \in R)
    BY <1>2, WFMin
  <1>4. ASSUME NEW y \in S PROVE x <= y
    <2>1. <<y, x>> \in Nat \X Nat /\ ~(<<y, x>> \in R)
      BY <1>3
    <2> QED BY <2>1, <1>1
  <1> QED BY <1>4 DEF Min

\* A number that is in a set and below all of it is its least element.
LEMMA LeastIsMin ==
  ASSUME NEW S, S \subseteq Nat, NEW x \in S, \A y \in S : x <= y
  PROVE  Min(S) = x
  <1>1. Min(S) \in S /\ Min(S) <= x
    BY MinIsLeast
  <1>2. x <= Min(S) /\ Min(S) \in Nat
    BY <1>1
  <1> QED BY <1>1, <1>2

\* What is cut is in the window, and a cut uses up at least a byte.
IsCut(cut, d) ==
  \/ cut = NeedMore
  \/ \E a \in 1..Len(d), t \in 0..Len(d) : t <= a /\ cut = Cut(a, t)

\* What is left at the end of the input is cut as one token.
LEMMA CutTailIsCut ==
  ASSUME NEW d \in Seq(Byte), d # <<>>, NEW eof, NEW t
  PROVE  IsCut(CutTail(d, eof, t), d) /\ (eof => CutTail(d, eof, t) # NeedMore)
  <1>1. Len(d) \in 1..Len(d) /\ 0 \in 0..Len(d) /\ Len(d) \in 0..Len(d)
    BY EmptySeq, LenProperties
  <1>2. CASE ~eof
    BY <1>2 DEF CutTail, IsCut
  <1>3. CASE eof
    <2>1. CutTail(d, eof, t) = Cut(Len(d), IF t THEN Len(d) ELSE 0)
      BY <1>3 DEF CutTail
    <2>2. Cut(Len(d), Len(d)) # NeedMore /\ Cut(Len(d), 0) # NeedMore
      BY <1>1 DEF Cut, NeedMore
    <2> QED BY <1>1, <2>1, <2>2 DEF IsCut
  <1> QED BY <1>2, <1>3

\* A cut at a byte that ends a record.
LEMMA CutAtEnd ==
  ASSUME NEW d \in Seq(Byte), NEW S, S \subseteq 1..Len(d), S # {}
  PROVE  /\ IsCut(Cut(Min(S), Min(S) - 1), d)
         /\ Cut(Min(S), Min(S) - 1) # NeedMore
  <1>1. Min(S) \in 1..Len(d)
    <2>1. S \subseteq Nat
      BY LenProperties
    <2> QED BY <2>1, MinIsLeast
  <1>2. Min(S) - 1 \in 0..Len(d) /\ Min(S) - 1 <= Min(S) /\ Min(S) # 0
    BY <1>1, LenProperties
  <1> QED BY <1>1, <1>2 DEF IsCut, Cut, NeedMore

(***************************************************************************)
(* The split functions take no more than the window, and at the end of the *)
(* stream they leave nothing of it behind for ever.                        *)
(***************************************************************************)
LEMMA SplitIsCut ==
  ASSUME NEW f, NEW d \in Seq(Byte), NEW eof \in BOOLEAN, NEW t
  PROVE  /\ IsCut(Split(f, d, eof, t), d)
         /\ eof /\ d # <<>> => Split(f, d, eof, t) # NeedMore
  <1>1. CASE d = <<>>
    BY <1>1 DEF Split, IsCut
  <1>2. CASE d # <<>>
    <2>1. Len(d) \in Nat \ {0}
      BY <1>2, EmptySeq, LenProperties
    <2>2. NewlinesIn(d) \subseteq 1..Len(d) /\ RecordEnds(d) \subseteq 1..Len(d)
      BY DEF NewlinesIn, RecordEnds
    <2>3. IsCut(CutTail(d, eof, t), d) /\ (eof => CutTail(d, eof, t) # NeedMore)
      BY <1>2, CutTailIsCut
    <2>4. /\ IsCut(SplitLine(d, eof, t), d)
          /\ eof => SplitLine(d, eof, t) # NeedMore
      BY <2>2, <2>3, CutAtEnd DEF SplitLine
    <2>5. /\ IsCut(SplitCSV(d, eof, t), d)
          /\ eof => SplitCSV(d, eof, t) # NeedMore
      BY <2>2, <2>3, CutAtEnd DEF SplitCSV
    <2>6. /\ IsCut(SplitStderr(d, eof, t), d)
          /\ eof => SplitStderr(d, eof, t) # NeedMore
      <3> DEFINE Lines == {i \in 2..Len(d) : d[i - 1] = "n"}
                 Stops == {i \in Lines : ~IsContinuation(d, i)}
                 m == Min(Stops)
                 tail == IF d[Len(d)] = "n" THEN Len(d) - 1 ELSE Len(d)
      <3>1. CASE NewlinesIn(d) = {}
        BY <2>3, <3>1 DEF SplitStderr
      <3>2. CASE NewlinesIn(d) # {} /\ d[1] = "n"
        <4>1. SplitStderr(d, eof, t) = Cut(1, 0)
          BY <3>2 DEF SplitStderr
        <4>2. 1 \in 1..Len(d) /\ 0 \in 0..Len(d) /\ 0 <= 1
          BY <2>1
        <4>3. Cut(1, 0) # NeedMore
          BY DEF Cut, NeedMore
        <4> QED BY <4>1, <4>2, <4>3 DEF IsCut
      <3>3. CASE NewlinesIn(d) # {} /\ d[1] # "n" /\ Stops # {}
        <4>1. SplitStderr(d, eof, t)
                = IF LineIsKnown(d, m, eof) THEN Cut(m - 1, m - 2) ELSE NeedMore
          BY <3>3 DEF SplitStderr
        <4>2. m \in 2..Len(d)
          <5>1. Stops \subseteq 2..Len(d) /\ Stops \subseteq Nat
            BY <2>1
          <5> HIDE DEF Stops
          <5> QED BY <3>3, <5>1, MinIsLeast
        <4> HIDE DEF m
        <4>3. /\ m - 1 \in 1..Len(d) /\ m - 2 \in 0..Len(d) /\ m - 2 <= m - 1
              /\ m - 1 # 0
          BY <2>1, <4>2
        <4>4. Cut(m - 1, m - 2) # NeedMore
          BY <4>3 DEF Cut, NeedMore
        <4>5. eof => LineIsKnown(d, m, eof)
          BY DEF LineIsKnown
        <4> QED BY <4>1, <4>3, <4>4, <4>5 DEF IsCut
      <3>4. CASE NewlinesIn(d) # {} /\ d[1] # "n" /\ Stops = {}
        <4>1. SplitStderr(d, eof, t) = IF eof THEN Cut(Len(d), tail) ELSE NeedMore
          BY <3>4 DEF SplitStderr
        <4>2. Len(d) \in 1..Len(d) /\ tail \in 0..Len(d) /\ tail <= Len(d)
          BY <2>1
        <4> HIDE DEF tail
        <4>3. Cut(Len(d), tail) # NeedMore
          BY <2>1 DEF Cut, NeedMore
        <4> QED BY <4>1, <4>2, <4>3 DEF IsCut
      <3> QED BY <3>1, <3>2, <3>3, <3>4
    <2> HIDE DEF IsCut
    <2> QED BY <1>2, <2>4, <2>5, <2>6 DEF Split
  <1> QED BY <1>1, <1>2
-----------------------------------------------------------------------------
(***************************************************************************)
(* Pieces of sequences.                                                    *)
(***************************************************************************)
\* The n elements of a sequence that follow its first a.
LEMMA Slice ==
  ASSUME NEW S, NEW s \in Seq(S), NEW a \in Nat, NEW n \in Nat, a + n <= Len(s)
  PROVE  /\ SubSeq(s, a + 1, a + n) \in Seq(S)
         /\ Len(SubSeq(s, a + 1, a + n)) = n
         /\ \A i \in 1..n : SubSeq(s, a + 1, a + n)[i] = s[a + i]
  <1> DEFINE b == a + 1
             c == a + n
  <1>1. /\ b \in Int /\ c \in Int /\ (c - b) + 1 = n /\ (b > c => n = 0)
        /\ \A i \in 1..n : (b + i) - 1 = a + i
    OBVIOUS
  <1>2. \A i \in b..c : i \in 1..Len(s) /\ s[i] \in S
    OBVIOUS
  <1> HIDE DEF b, c
  <1>3. /\ SubSeq(s, b, c) \in Seq(S) /\ Len(SubSeq(s, b, c)) = n
        /\ \A i \in 1..n : SubSeq(s, b, c)[i] = s[(b + i) - 1]
    BY <1>1, <1>2, SubSeqProperties
  <1> QED BY <1>1, <1>3 DEF b, c

\* Two slices of the same length are equal when their elements are.
LEMMA SameSlice ==
  ASSUME NEW S, NEW s \in Seq(S), NEW a \in Nat,
         NEW u \in Seq(S), NEW b \in Nat, NEW n \in Nat,
         a + n <= Len(s), b + n <= Len(u),
         \A i \in 1..n : s[a + i] = u[b + i]
  PROVE  SubSeq(s, a + 1, a + n) = SubSeq(u, b + 1, b + n)
  <1>1. /\ SubSeq(s, a + 1, a + n) \in Seq(S)
        /\ Len(SubSeq(s, a + 1, a + n)) = n
        /\ \A i \in 1..n : SubSeq(s, a + 1, a + n)[i] = s[a + i]
    BY Slice
  <1>2. /\ SubSeq(u, b + 1, b + n) \in Seq(S)
        /\ Len(SubSeq(u, b + 1, b + n)) = n
        /\ \A i \in 1..n : SubSeq(u, b + 1, b + n)[i] = u[b + i]
    BY Slice
  <1> QED BY <1>1, <1>2, SeqEqual

\* Every input is a sequence of bytes.
LEMMA InputsAreBytes ==
  ASSUME NEW f \in Formats, NEW c \in Contents(f)
  PROVE  c \in Seq(Byte)
  <1> DEFINE Runs == UNION {[1..k -> Alphabet(f)] : k \in 0..MaxLen}
  <1>1. Alphabet(f) \subseteq Byte
    BY DEF Alphabet, Formats, Byte
  <1>2. ASSUME NEW d \in Runs PROVE d \in Seq(Byte)
    <2>1. PICK k \in 0..MaxLen : d \in [1..k -> Alphabet(f)]
      OBVIOUS
    <2>2. k \in Nat
      BY FramingAssumption
    <2>3. d \in [1..k -> Byte]
      BY <2>1, <1>1
    <2> QED BY <2>2, <2>3, SeqDef
  <1>3. <<"b">> \in Seq(Byte)
    BY DEF Byte
  <1>4. \A d \in Seq(Byte) : <<"b">> \o d \in Seq(Byte)
    BY <1>3, ConcatProperties
  <1>5. c \in Runs \/ \E d \in Runs : c = <<"b">> \o d
    BY DEF Contents
  <1> HIDE DEF Runs
  <1> QED BY <1>2, <1>4, <1>5

-----------------------------------------------------------------------------
(***************************************************************************)
(* The positions the framer comes to.                                      *)
(***************************************************************************)
\* What follows the record, or the skipped record, at a position.
LEMMA PastNewlineIs ==
  ASSUME NEW c \in Seq(Byte), NEW p \in 0..Len(c)
  PROVE  /\ PastNewline(c, p) \in p..Len(c)
         /\ \A i \in (p + 1)..Len(c) :
              c[i] = "n" /\ (\A k \in (p + 1)..(i - 1) : c[k] # "n") => PastNewline(c, p) = i
         /\ \A q \in p..Len(c) :
              (\A k \in (p + 1)..q : c[k] # "n") => PastNewline(c, p) = PastNewline(c, q)
  <1> DEFINE Ends(q) == {i \in (q + 1)..Len(c) : c[i] = "n"}
  <1>1. Len(c) \in Nat /\ p \in Nat /\ p <= Len(c)
    BY LenProperties
  <1>2. \A q \in Nat : Ends(q) \subseteq Nat /\ PastNewline(c, q)
                         = IF Ends(q) = {} THEN Len(c) ELSE Min(Ends(q))
    BY <1>1 DEF PastNewline
  <1>3. PastNewline(c, p) \in p..Len(c)
    <2>1. CASE Ends(p) = {}
      <3>1. PastNewline(c, p) = Len(c)
        BY <1>1, <1>2, <2>1
      <3> QED BY <1>1, <3>1
    <2>2. CASE Ends(p) # {}
      <3>1. Min(Ends(p)) \in Ends(p) /\ PastNewline(c, p) = Min(Ends(p))
        BY <1>1, <1>2, <2>2, MinIsLeast
      <3>2. Min(Ends(p)) \in (p + 1)..Len(c)
        BY <3>1
      <3> QED BY <1>1, <3>1, <3>2
    <2> QED BY <2>1, <2>2
  <1>4. ASSUME NEW i \in (p + 1)..Len(c), c[i] = "n", \A k \in (p + 1)..(i - 1) : c[k] # "n"
        PROVE  PastNewline(c, p) = i
    <2>1. i \in Ends(p)
      BY <1>4
    <2>2. ASSUME NEW y \in Ends(p) PROVE i <= y
      <3>1. y \in (p + 1)..Len(c) /\ c[y] = "n"
        OBVIOUS
      <3>2. y \notin (p + 1)..(i - 1)
        BY <1>4, <3>1
      <3> QED BY <1>1, <3>1, <3>2
    <2>3. Ends(p) \subseteq Nat /\ PastNewline(c, p) = Min(Ends(p))
      BY <1>1, <1>2, <2>1
    <2> HIDE DEF Ends
    <2>4. Min(Ends(p)) = i
      BY <2>1, <2>2, <2>3, LeastIsMin
    <2> QED BY <2>3, <2>4
  <1>5. ASSUME NEW q \in p..Len(c), \A k \in (p + 1)..q : c[k] # "n"
        PROVE  PastNewline(c, p) = PastNewline(c, q)
    <2>1. q \in Nat /\ q >= p
      BY <1>1
    <2>2. \A i \in (p + 1)..Len(c) : c[i] = "n" => i \in (q + 1)..Len(c)
      <3>1. ASSUME NEW i \in (p + 1)..Len(c), c[i] = "n" PROVE i \in (q + 1)..Len(c)
        <4>1. i \notin (p + 1)..q
          BY <1>5, <3>1
        <4> QED BY <1>1, <2>1, <4>1
      <3> QED BY <3>1
    <2>3. \A i \in (q + 1)..Len(c) : i \in (p + 1)..Len(c)
      BY <1>1, <2>1
    <2>4. Ends(p) = Ends(q)
      BY <2>2, <2>3
    <2> HIDE DEF Ends
    <2> QED BY <1>1, <1>2, <2>1, <2>4
  <1> QED BY <1>3, <1>4, <1>5

\* The window at a position, byte for byte.
LEMMA WindowAtIs ==
  ASSUME NEW c \in Seq(Byte), NEW p \in 0..Len(c)
  PROVE  /\ WindowAt(c, p) \in Seq(Byte)
         /\ Len(WindowAt(c, p)) = Shorter(MaxRecord, Len(c) - p)
         /\ \A i \in 1..Len(WindowAt(c, p)) : WindowAt(c, p)[i] = c[p + i]
  <1> DEFINE n == Shorter(MaxRecord, Len(c) - p)
  <1>1. Len(c) \in Nat /\ p \in Nat /\ p <= Len(c) /\ MaxRecord \in Nat \ {0}
    BY LenProperties, FramingAssumption
  <1>2. n \in Nat /\ p + n <= Len(c) /\ Shorter(p + MaxRecord, Len(c)) = p + n
    BY <1>1 DEF Shorter
  <1>3. WindowAt(c, p) = SubSeq(c, p + 1, p + n)
    BY <1>2 DEF WindowAt
  <1> HIDE DEF n
  <1>4. /\ SubSeq(c, p + 1, p + n) \in Seq(Byte)
        /\ Len(SubSeq(c, p + 1, p + n)) = n
        /\ \A i \in 1..n : SubSeq(c, p + 1, p + n)[i] = c[p + i]
    BY <1>1, <1>2, Slice, SMTT(30)
  <1> QED BY <1>3, <1>4 DEF n

\* The framer moves on, and not past the end.
LEMMA NextPositionIs ==
  ASSUME NEW f, NEW c \in Seq(Byte), NEW t, NEW p \in 0..Len(c), p < Len(c)
  PROVE  NextPosition(f, c, p, t) \in (p + 1)..Len(c)
  <1> DEFINE w == WindowAt(c, p)
             eof == WindowAtEOF(c, p)
             cut == CutAt(f, c, p, t)
  <1>1. /\ w \in Seq(Byte) /\ Len(w) = Shorter(MaxRecord, Len(c) - p)
        /\ Len(c) \in Nat /\ p \in Nat /\ MaxRecord \in Nat \ {0}
    BY WindowAtIs, LenProperties, FramingAssumption
  <1>2. Len(w) \in Nat /\ p + Len(w) <= Len(c)
    BY <1>1 DEF Shorter
  <1>3. IsCut(cut, w)
    <2>1. eof \in BOOLEAN
      BY DEF WindowAtEOF
    <2>2. cut = Split(f, w, eof, t)
      BY DEF CutAt
    <2> HIDE DEF cut, w, eof
    <2> QED BY <1>1, <2>1, <2>2, SplitIsCut
  <1>4. CASE cut.advance > 0
    <2>1. cut # NeedMore
      BY <1>4 DEF NeedMore
    <2>2. cut.advance \in 1..Len(w)
      BY <1>3, <2>1 DEF IsCut, Cut
    <2>3. NextPosition(f, c, p, t) = p + cut.advance
      BY <1>4 DEF NextPosition
    <2> HIDE DEF cut, w
    <2> QED BY <1>1, <1>2, <2>2, <2>3
  <1>5. CASE ~(cut.advance > 0) /\ eof
    BY <1>1, <1>5 DEF NextPosition
  <1>6. CASE ~(cut.advance > 0) /\ ~eof
    <2>1. p + MaxRecord \in 0..Len(c) /\ p + MaxRecord >= p + 1
      BY <1>1, <1>6 DEF WindowAtEOF
    <2>2. PastNewline(c, p + MaxRecord) \in (p + MaxRecord)..Len(c)
      BY <2>1, PastNewlineIs
    <2>3. NextPosition(f, c, p, t) = PastNewline(c, p + MaxRecord)
      BY <1>6 DEF NextPosition
    <2> QED BY <1>1, <2>1, <2>2, <2>3
  <1> QED BY <1>4, <1>5, <1>6

(***************************************************************************)
(* The positions reached from p: those in every set that holds p and, with *)
(* a position before the end, the next one.  This set needs no recursion,  *)
(* and it solves the equation that defines Positions.                      *)
(***************************************************************************)
FromHere(f, c, t, p) ==
  {Q \in SUBSET (p..Len(c)) :
     /\ p \in Q
     /\ \A q \in Q : q < Len(c) => NextPosition(f, c, q, t) \in Q}

Reached(f, c, t, p) == {x \in p..Len(c) : \A Q \in FromHere(f, c, t, p) : x \in Q}

\* The positions reached from p are p and those reached from the next one.
LEMMA ReachedIs ==
  ASSUME NEW f, NEW c \in Seq(Byte), NEW t, NEW p \in 0..Len(c)
  PROVE  Reached(f, c, t, p)
           = IF p = Len(c) THEN {p}
             ELSE {p} \cup Reached(f, c, t, NextPosition(f, c, p, t))
  <1> DEFINE N(q) == NextPosition(f, c, q, t)
             L == Len(c)
  <1>1. L \in Nat /\ p \in Nat /\ p <= L
    BY LenProperties
  <1>2. \A q \in 0..L : q < L => N(q) \in (q + 1)..L
    BY NextPositionIs
  <1> HIDE DEF N, L
  <1>3. \A q \in 0..L : FromHere(f, c, t, q)
          = {Q \in SUBSET (q..L) : q \in Q /\ \A x \in Q : x < L => N(x) \in Q}
    BY DEF FromHere, N, L
  <1>4. \A q \in 0..L : Reached(f, c, t, q) = {x \in q..L : \A Q \in FromHere(f, c, t, q) : x \in Q}
    BY DEF Reached, L
  <1>5. CASE p = L
    <2>1. {p} \in FromHere(f, c, t, p) /\ p \in p..L
      BY <1>1, <1>3, <1>5
    <2>2. \A Q \in FromHere(f, c, t, p) : p \in Q
      BY <1>1, <1>3
    <2> QED BY <1>1, <1>4, <1>5, <2>1, <2>2 DEF L
  <1>6. CASE p # L
    <2>1. p < L /\ N(p) \in (p + 1)..L /\ N(p) \in 0..L /\ N(p) \in Nat
      BY <1>1, <1>2, <1>6
    <2> DEFINE R == Reached(f, c, t, N(p))
    <2>2. R = {x \in N(p)..L : \A Q \in FromHere(f, c, t, N(p)) : x \in Q}
      BY <1>4, <2>1
    <2> HIDE DEF R
    <2>3. N(p) \in R /\ R \subseteq N(p)..L
      BY <1>3, <2>1, <2>2
    <2>4. \A x \in R : x < L => N(x) \in R
      <3> SUFFICES ASSUME NEW x \in R, x < L PROVE N(x) \in R
        OBVIOUS
      <3>1. x \in 0..L /\ x >= N(p)
        BY <2>1, <2>3
      <3>2. N(x) \in (x + 1)..L
        BY <1>2, <3>1
      <3>3. N(x) \in N(p)..L
        BY <2>1, <3>1, <3>2
      <3>4. \A Q \in FromHere(f, c, t, N(p)) : N(x) \in Q
        BY <1>3, <2>1, <2>2
      <3> QED BY <2>2, <3>3, <3>4
    <2>5. {p} \cup R \in FromHere(f, c, t, p)
      <3>1. {p} \cup R \in SUBSET (p..L)
        BY <1>1, <2>1, <2>3
      <3>2. \A x \in {p} \cup R : x < L => N(x) \in {p} \cup R
        BY <2>3, <2>4
      <3> QED BY <1>3, <3>1, <3>2
    <2>6. /\ Reached(f, c, t, p) = {x \in p..L : \A Q \in FromHere(f, c, t, p) : x \in Q}
          /\ FromHere(f, c, t, p)
               = {Q \in SUBSET (p..L) : p \in Q /\ \A x \in Q : x < L => N(x) \in Q}
      BY <1>1, <1>3, <1>4
    <2>7. Reached(f, c, t, p) \subseteq {p} \cup R
      BY <2>5, <2>6
    <2>8. p \in Reached(f, c, t, p)
      BY <1>1, <2>6
    <2>9. ASSUME NEW x \in R PROVE x \in Reached(f, c, t, p)
      <3>1. x \in p..L
        BY <1>1, <2>1, <2>3
      <3>2. ASSUME NEW Q \in FromHere(f, c, t, p) PROVE x \in Q
        <4>1. Q \in SUBSET (p..L) /\ p \in Q /\ \A y \in Q : y < L => N(y) \in Q
          BY <2>6
        <4> DEFINE Q2 == {y \in Q : y >= N(p)}
        <4>2. Q2 \in SUBSET (N(p)..L)
          <5>1. ASSUME NEW y \in Q, y >= N(p) PROVE y \in N(p)..L
            <6>1. y \in p..L
              BY <4>1
            <6> QED BY <1>1, <2>1, <5>1, <6>1
          <5> QED BY <5>1
        <4>3. N(p) \in Q2
          BY <2>1, <4>1
        <4>4. ASSUME NEW y \in Q2, y < L PROVE N(y) \in Q2
          <5>1. y \in 0..L /\ y >= N(p) /\ N(y) \in Q
            BY <1>1, <4>1, <4>4
          <5>2. N(y) \in (y + 1)..L
            BY <1>2, <4>4, <5>1
          <5> QED BY <2>1, <5>1, <5>2
        <4> HIDE DEF Q2
        <4>5. Q2 \in FromHere(f, c, t, N(p))
          BY <1>3, <2>1, <4>2, <4>3, <4>4
        <4>6. x \in Q2
          BY <2>2, <4>5
        <4> QED BY <4>6 DEF Q2
      <3> QED BY <2>6, <3>1, <3>2
    <2>10. Reached(f, c, t, p) = {p} \cup R
      BY <2>7, <2>8, <2>9
    <2> QED BY <1>6, <2>10 DEF R, L, N
  <1> QED BY <1>5, <1>6

(***************************************************************************)
(* What is known of the positions: the first is among them, with every     *)
(* position before the end the next one is, and none lies between the two. *)
(***************************************************************************)
IsPath(f, c, t, s, P) ==
  /\ P \subseteq s..Len(c) /\ s \in P
  /\ \A q \in P : q < Len(c) =>
       /\ NextPosition(f, c, q, t) \in P
       /\ \A x \in P : x <= q \/ x >= NextPosition(f, c, q, t)

\* They form a path: nothing of it lies between a position and its next.
LEMMA ReachedIsPath ==
  ASSUME NEW f, NEW c \in Seq(Byte), NEW t, NEW s \in 0..Len(c)
  PROVE  IsPath(f, c, t, s, Reached(f, c, t, s))
  <1> DEFINE N(q) == NextPosition(f, c, q, t)
             L == Len(c)
             R(q) == Reached(f, c, t, q)
             Good(q) == IsPath(f, c, t, q, R(q))
             Bad == {m \in 0..L : ~Good(L - m)}
  <1>1. L \in Nat
    BY LenProperties
  <1>2. \A q \in 0..L : q < L => N(q) \in (q + 1)..L
    BY NextPositionIs
  <1>3. \A q \in 0..L : R(q) = IF q = L THEN {q} ELSE {q} \cup R(N(q))
    BY ReachedIs
  <1>4. \A q : Good(q) <=> /\ R(q) \subseteq q..L /\ q \in R(q)
                           /\ \A y \in R(q) : y < L =>
                                N(y) \in R(q) /\ \A x \in R(q) : x <= y \/ x >= N(y)
    BY DEF IsPath
  <1> HIDE DEF N, R, L, Good
  <1>5. SUFFICES ASSUME Bad # {} PROVE FALSE
    <2>1. \A m \in 0..L : Good(L - m)
      BY <1>5
    <2>2. L - s \in 0..L /\ L - (L - s) = s
      BY <1>1 DEF L
    <2>3. Good(s)
      BY <2>1, <2>2
    <2> QED BY <2>3 DEF Good, R
  <1>6. PICK m \in Bad : \A y \in Bad : m <= y
    <2>1. Bad \subseteq Nat
      BY <1>1
    <2> HIDE DEF Bad
    <2> QED BY <1>5, <2>1, MinIsLeast
  <1> DEFINE p == L - m
  <1>7. p \in 0..L /\ ~Good(p)
    BY <1>1, <1>6
  <1>8. CASE p = L
    <2>1. R(p) = {L}
      BY <1>3, <1>7, <1>8
    <2>2. Good(p)
      BY <1>1, <1>4, <1>8, <2>1
    <2> QED BY <1>7, <2>2
  <1>9. CASE p # L
    <2>1. p < L /\ N(p) \in (p + 1)..L
      BY <1>1, <1>2, <1>7, <1>9
    <2>2. Good(N(p))
      <3>1. L - N(p) \in 0..L /\ L - N(p) < m /\ L - (L - N(p)) = N(p)
        BY <1>1, <1>6, <2>1
      <3>2. L - N(p) \notin Bad
        BY <1>1, <1>6, <3>1
      <3> QED BY <3>1, <3>2
    <2>3. /\ R(N(p)) \subseteq N(p)..L /\ N(p) \in R(N(p))
          /\ \A y \in R(N(p)) : y < L =>
               N(y) \in R(N(p)) /\ \A x \in R(N(p)) : x <= y \/ x >= N(y)
      BY <1>4, <2>2
    <2>4. R(p) = {p} \cup R(N(p)) /\ p \in Nat /\ N(p) \in Nat
      BY <1>1, <1>3, <1>7, <1>9, <2>1
    <2> HIDE DEF p, Bad
    <2>5. R(p) \subseteq p..L /\ p \in R(p)
      BY <1>1, <2>1, <2>3, <2>4
    <2>6. ASSUME NEW y \in R(p), y < L
          PROVE  N(y) \in R(p) /\ \A x \in R(p) : x <= y \/ x >= N(y)
      <3>1. CASE y = p
        <4>1. \A x \in R(N(p)) : x >= N(p)
          BY <1>1, <2>1, <2>3
        <4> QED BY <2>3, <2>4, <3>1, <4>1
      <3>2. CASE y \in R(N(p))
        <4>1. y >= N(p) /\ y \in Nat
          BY <1>1, <2>3, <2>4, <3>2
        <4>2. p <= y
          BY <1>1, <2>1, <2>4, <4>1
        <4> QED BY <2>3, <2>4, <2>6, <3>2, <4>2
      <3> QED BY <2>4, <3>1, <3>2
    <2>7. Good(p)
      BY <1>4, <2>5, <2>6
    <2> QED BY <1>7, <2>7
  <1> QED BY <1>8, <1>9

\* Whatever solves the equation of Positions is what is reached.
LEMMA PositionsReached ==
  ASSUME NEW f, NEW c \in Seq(Byte), NEW t, NEW s \in 0..Len(c)
  PROVE  Positions(f, c, s, t) = Reached(f, c, t, s)
  <1> DEFINE N(q) == NextPosition(f, c, q, t)
             L == Len(c)
             g == [q \in s..L |-> Reached(f, c, t, q)]
             h == CHOOSE h : h = [q \in s..L |-> IF q = L THEN {q} ELSE {q} \cup h[N(q)]]
  <1>1. L \in Nat /\ s \in Nat /\ s <= L
    BY LenProperties
  <1>2. \A q \in s..L : q # L => N(q) \in s..L /\ N(q) \in (q + 1)..L
    BY <1>1, NextPositionIs
  <1>3. \A q \in s..L : Reached(f, c, t, q)
                          = IF q = L THEN {q} ELSE {q} \cup Reached(f, c, t, N(q))
    BY <1>1, ReachedIs
  <1>4. Positions(f, c, s, t) = h[s]
    BY DEF Positions
  <1> HIDE DEF L, N
  <1>5. g = [q \in s..L |-> IF q = L THEN {q} ELSE {q} \cup g[N(q)]]
    BY <1>2, <1>3
  <1>6. h = [q \in s..L |-> IF q = L THEN {q} ELSE {q} \cup h[N(q)]]
    BY <1>5
  <1> HIDE DEF g, h
  <1>7. \A q \in s..L : h[q] = IF q = L THEN {q} ELSE {q} \cup h[N(q)]
    BY <1>6
  <1> DEFINE Bad == {m \in 0..(L - s) : h[L - m] # Reached(f, c, t, L - m)}
  <1>8. CASE Bad # {}
    <2>1. PICK m \in Bad : \A y \in Bad : m <= y
      <3>1. Bad \subseteq Nat
        BY <1>1
      <3> HIDE DEF Bad
      <3> QED BY <1>8, <3>1, MinIsLeast
    <2> DEFINE p == L - m
    <2>2. p \in s..L /\ h[p] # Reached(f, c, t, p)
      BY <1>1, <2>1
    <2>3. p # L
      BY <1>3, <1>7, <2>2
    <2>4. N(p) \in s..L /\ N(p) \in (p + 1)..L
      BY <1>2, <2>2, <2>3
    <2>5. L - N(p) \in 0..(L - s) /\ L - N(p) < m /\ L - (L - N(p)) = N(p)
      BY <1>1, <2>1, <2>4
    <2>6. L - N(p) \notin Bad
      BY <1>1, <2>1, <2>5
    <2>7. h[N(p)] = Reached(f, c, t, N(p))
      BY <2>5, <2>6
    <2>8. h[p] = {p} \cup Reached(f, c, t, N(p))
      BY <1>7, <2>2, <2>3, <2>7
    <2>9. Reached(f, c, t, p) = {p} \cup Reached(f, c, t, N(p))
      BY <1>3, <2>2, <2>3
    <2> QED BY <2>2, <2>8, <2>9
  <1>9. CASE Bad = {}
    <2>1. L - s \in 0..(L - s) /\ L - (L - s) = s
      BY <1>1
    <2> QED BY <1>4, <1>9, <2>1
  <1> QED BY <1>8, <1>9

\* The positions are such a path, of finitely many steps.
LEMMA PositionsArePath ==
  ASSUME NEW f, NEW c \in Seq(Byte), NEW t, NEW s \in 0..Len(c)
  PROVE  /\ IsPath(f, c, t, s, Positions(f, c, s, t))
         /\ IsFiniteSet(Positions(f, c, s, t))
  <1>1. IsPath(f, c, t, s, Positions(f, c, s, t))
    BY PositionsReached, ReachedIsPath
  <1>2. s \in Nat /\ Len(c) \in Nat
    BY LenProperties
  <1>3. IsFiniteSet(s..Len(c))
    BY <1>2, FS_Interval
  <1> QED BY <1>1, <1>3, FS_Subset DEF IsPath
-----------------------------------------------------------------------------
(***************************************************************************)
(* What is cut from a window is cut from a longer one: a record that has   *)
(* been found does not depend on bytes not read yet.                       *)
(***************************************************************************)
Extends(e, d) ==
  /\ d \in Seq(Byte) /\ e \in Seq(Byte) /\ Len(d) <= Len(e)
  /\ \A i \in 1..Len(d) : e[i] = d[i]

\* What has been read of an input stays the same when more is read.
LEMMA ExtendedFacts ==
  ASSUME NEW d, NEW e, Extends(e, d)
  PROVE  /\ Len(d) \in Nat /\ Len(e) \in Nat /\ Len(d) <= Len(e)
         /\ \A i \in 1..Len(d) : i \in 1..Len(e) /\ e[i] = d[i]
         /\ \A i \in NewlinesIn(d) : i \in NewlinesIn(e)
         /\ \A i \in 1..(Len(d) + 1) : QuotesBefore(e, i) = QuotesBefore(d, i)
  <1>1. Len(d) \in Nat /\ Len(e) \in Nat /\ Len(d) <= Len(e)
    BY LenProperties DEF Extends
  <1>2. \A i \in 1..Len(d) : i \in 1..Len(e) /\ e[i] = d[i]
    BY <1>1 DEF Extends
  <1>3. ASSUME NEW i \in 1..(Len(d) + 1) PROVE QuotesBefore(e, i) = QuotesBefore(d, i)
    <2>1. \A k \in 1..(i - 1) : k \in 1..Len(d)
      BY <1>1
    <2>2. {k \in 1..(i - 1) : e[k] = "q"} = {k \in 1..(i - 1) : d[k] = "q"}
      BY <1>2, <2>1
    <2> QED BY <2>2 DEF QuotesBefore
  <1> QED BY <1>1, <1>2, <1>3 DEF NewlinesIn

\* The least element of a set that only grows above it.
LEMMA SameMin ==
  ASSUME NEW n \in Nat, NEW S, NEW T, S \subseteq 1..n, S # {}, T \subseteq Nat,
         S \subseteq T, \A y \in T : y <= n => y \in S
  PROVE  Min(T) = Min(S) /\ Min(S) \in S
  <1>1. S \subseteq Nat
    OBVIOUS
  <1>2. Min(S) \in S /\ \A y \in S : Min(S) <= y
    BY <1>1, MinIsLeast
  <1>3. Min(S) \in T /\ \A y \in T : Min(S) <= y
    <2>1. ASSUME NEW y \in T PROVE Min(S) <= y
      <3>1. Min(S) \in Nat /\ Min(S) <= n /\ y \in Nat
        <4>1. Min(S) \in 1..n /\ y \in Nat
          BY <1>2
        <4> QED BY <4>1
      <3>2. CASE y <= n
        BY <1>2, <3>2
      <3>3. CASE ~(y <= n)
        BY <3>1, <3>3
      <3> QED BY <3>2, <3>3
    <2> QED BY <1>2, <2>1
  <1> QED BY <1>2, <1>3, LeastIsMin

\* A record cut before the end of input is seen stays cut at the same place
\* whatever follows it.
LEMMA SplitIsStable ==
  ASSUME NEW f, NEW d, NEW e, Extends(e, d), NEW short, ~short, NEW eof, NEW t,
         Split(f, d, short, t) # NeedMore
  PROVE  Split(f, e, eof, t) = Split(f, d, short, t)
  <1>1. /\ Len(d) \in Nat /\ Len(e) \in Nat /\ Len(d) <= Len(e)
        /\ \A i \in 1..Len(d) : i \in 1..Len(e) /\ e[i] = d[i]
        /\ \A i \in NewlinesIn(d) : i \in NewlinesIn(e)
        /\ \A i \in 1..(Len(d) + 1) : QuotesBefore(e, i) = QuotesBefore(d, i)
        /\ d \in Seq(Byte) /\ e \in Seq(Byte)
    BY ExtendedFacts DEF Extends
  <1>2. d # <<>> /\ e # <<>> /\ Len(d) > 0
    <2>1. d # <<>>
      BY DEF Split
    <2>2. Len(d) > 0
      BY <1>1, <2>1, EmptySeq
    <2> QED BY <1>1, <2>1, <2>2, EmptySeq
  <1>3. /\ NewlinesIn(d) \subseteq 1..Len(d) /\ NewlinesIn(e) \subseteq 1..Len(e)
        /\ \A y \in NewlinesIn(e) : y <= Len(d) => y \in NewlinesIn(d)
    BY <1>1 DEF NewlinesIn
  <1>4. CASE f = "json"
    <2>1. NewlinesIn(d) # {}
      BY <1>2, <1>4 DEF Split, SplitLine, CutTail
    <2>2. NewlinesIn(d) \subseteq NewlinesIn(e) /\ NewlinesIn(e) \subseteq Nat
      BY <1>1, <1>3
    <2>3. Min(NewlinesIn(e)) = Min(NewlinesIn(d)) /\ NewlinesIn(e) # {}
      BY <1>1, <1>3, <2>1, <2>2, SameMin
    <2> QED BY <1>2, <1>4, <2>1, <2>3 DEF Split, SplitLine
  <1>5. CASE f = "csv"
    <2>1. RecordEnds(d) # {}
      BY <1>2, <1>5 DEF Split, SplitCSV, CutTail
    <2>2. \A i \in 1..Len(d) : i \in RecordEnds(d) <=> i \in RecordEnds(e)
      <3> SUFFICES ASSUME NEW i \in 1..Len(d)
                   PROVE  i \in RecordEnds(d) <=> i \in RecordEnds(e)
        OBVIOUS
      <3>1. i \in 1..(Len(d) + 1) /\ i <= Len(d)
        BY <1>1
      <3>2. i \in NewlinesIn(d) <=> i \in NewlinesIn(e)
        BY <1>1, <1>3, <3>1
      <3> QED BY <1>1, <3>1, <3>2 DEF RecordEnds
    <2>3. RecordEnds(d) \subseteq 1..Len(d) /\ RecordEnds(e) \subseteq Nat
      BY <1>1, <1>3 DEF RecordEnds
    <2>4. RecordEnds(d) \subseteq RecordEnds(e)
      BY <2>2, <2>3
    <2>5. \A y \in RecordEnds(e) : y <= Len(d) => y \in RecordEnds(d)
      <3>1. \A y \in RecordEnds(e) : y \in 1..Len(e)
        BY <1>3 DEF RecordEnds
      <3> QED BY <1>1, <2>2, <3>1
    <2>6. Min(RecordEnds(e)) = Min(RecordEnds(d)) /\ RecordEnds(e) # {}
      BY <1>1, <2>1, <2>3, <2>4, <2>5, SameMin
    <2> QED BY <1>2, <1>5, <2>1, <2>6 DEF Split, SplitCSV
  <1>6. CASE f \notin {"json", "csv"}
    <2> DEFINE Stops(s) == {i \in {j \in 2..Len(s) : s[j - 1] = "n"} : ~IsContinuation(s, i)}
               m == Min(Stops(d))
    <2>1. Split(f, d, short, t) = SplitStderr(d, short, t) /\ Split(f, e, eof, t) = SplitStderr(e, eof, t)
      BY <1>2, <1>6 DEF Split
    <2>2. NewlinesIn(d) # {} /\ NewlinesIn(e) # {} /\ d[1] = e[1]
      <3>1. NewlinesIn(d) # {}
        BY <2>1 DEF SplitStderr, CutTail
      <3>2. 1 \in 1..Len(d)
        BY <1>1, <1>2
      <3> QED BY <1>1, <3>1, <3>2
    <2>3. CASE d[1] = "n"
      BY <2>1, <2>2, <2>3 DEF SplitStderr
    <2>4. CASE d[1] # "n"
      <3>1. Stops(d) # {} /\ LineIsKnown(d, m, short)
            /\ SplitStderr(d, short, t) = Cut(m - 1, m - 2)
        BY <2>1, <2>2, <2>4 DEF SplitStderr
      <3>2. \A i \in 2..Len(d) : i \in Stops(d) <=> i \in Stops(e)
        <4> SUFFICES ASSUME NEW i \in 2..Len(d) PROVE i \in Stops(d) <=> i \in Stops(e)
          OBVIOUS
        <4>1. i \in 1..Len(d) /\ i - 1 \in 1..Len(d) /\ i \in 2..Len(e)
          BY <1>1
        <4>2. e[i] = d[i] /\ e[i - 1] = d[i - 1]
          BY <1>1, <4>1
        <4> QED BY <4>1, <4>2 DEF IsContinuation
      <3>3. Stops(d) \subseteq 2..Len(d) /\ Stops(e) \subseteq 2..Len(e)
        OBVIOUS
      <3> HIDE DEF Stops
      <3>4. /\ Stops(d) \subseteq 1..Len(d) /\ Stops(e) \subseteq Nat
            /\ Stops(d) \subseteq Stops(e)
        BY <1>1, <3>2, <3>3
      <3>5. \A y \in Stops(e) : y <= Len(d) => y \in Stops(d)
        BY <1>1, <3>2, <3>3
      <3>6. Min(Stops(e)) = m /\ m \in Stops(d) /\ Stops(e) # {}
        BY <1>1, <3>1, <3>4, <3>5, SameMin
      <3> HIDE DEF m
      <3>7. LineIsKnown(e, m, eof)
        <4>1. PICK k \in m..Len(d) : d[k] = "n"
          BY <3>1 DEF LineIsKnown
        <4>2. m \in 2..Len(d)
          BY <3>3, <3>6
        <4>3. k \in 1..Len(d) /\ k \in m..Len(e)
          BY <1>1, <4>2
        <4>4. e[k] = "n"
          BY <1>1, <4>1, <4>3
        <4> QED BY <4>3, <4>4 DEF LineIsKnown
      <3>8. SplitStderr(e, eof, t) = Cut(m - 1, m - 2)
        BY <2>2, <2>4, <3>6, <3>7 DEF SplitStderr, Stops
      <3> QED BY <2>1, <3>1, <3>8
    <2> QED BY <2>3, <2>4
  <1> QED BY <1>4, <1>5, <1>6
-----------------------------------------------------------------------------
(***************************************************************************)
(* Where Seek lands.  Landing is the solution of an equation over the      *)
(* lines left to try and the position; any solution will do.               *)
(***************************************************************************)
Sample(c, p) ==
  SubSeq(c, p + 1, Shorter(p + Shorter(ResyncPeek, MaxRecord), Len(c)))

\* resync stops at p: a record begins there, or only blank lines are in sight.
Stops(c, p) ==
  FirstNonEmptyLine(Sample(c, p)) = 0
    \/ IsRecordStart(Sample(c, p), FirstNonEmptyLine(Sample(c, p)))

Solves(h, c, s, n) ==
  \A k \in 0..n, p \in s..Len(c) :
    h[k][p] = IF k = 0 \/ Stops(c, p) THEN p ELSE h[k - 1][PastNewline(c, p)]

\* One more line to try extends a solution.
LEMMA OneMoreLine ==
  ASSUME NEW c \in Seq(Byte), NEW s \in 0..Len(c), NEW n \in Nat, n < MaxResyncLines,
         NEW h, Solves(h, c, s, n)
  PROVE  \E g : Solves(g, c, s, n + 1)
  <1> DEFINE P == s..Len(c)
             Past(p) == PastNewline(c, p)
             Here(p) == Stops(c, p)
             g == [k \in 0..MaxResyncLines |-> [p \in P |->
                     IF k = n + 1 THEN (IF Here(p) THEN p ELSE h[n][Past(p)])
                     ELSE h[k][p]]]
  <1>1. MaxResyncLines \in Nat /\ n + 1 <= MaxResyncLines
    BY FramingAssumption
  <1>2. \A p \in P : Past(p) \in P
    <2>1. s \in Nat /\ Len(c) \in Nat
      BY LenProperties
    <2>2. ASSUME NEW p \in P PROVE Past(p) \in P
      <3>1. p \in 0..Len(c)
        BY <2>1
      <3>2. Past(p) \in p..Len(c)
        BY <3>1, PastNewlineIs
      <3> HIDE DEF Past
      <3> QED BY <2>1, <3>2
    <2> QED BY <2>2
  <1>3. \A k \in 0..n, p \in P : h[k][p] = IF k = 0 \/ Here(p) THEN p ELSE h[k - 1][Past(p)]
    BY DEF Solves
  <1> HIDE DEF P, Past, Here
  <1>4. ASSUME NEW p \in P
        PROVE  g[n + 1][p] = IF Here(p) THEN p ELSE h[n][Past(p)]
    BY <1>1
  <1>5. ASSUME NEW k \in 0..n, NEW p \in P PROVE g[k][p] = h[k][p]
    BY <1>1
  <1> HIDE DEF g
  <1>6. ASSUME NEW k \in 0..(n + 1), NEW p \in P
        PROVE  g[k][p] = IF k = 0 \/ Here(p) THEN p ELSE g[k - 1][Past(p)]
    <2>1. CASE k = n + 1
      <3>1. k # 0 /\ k - 1 = n /\ n \in 0..n
        BY <2>1
      <3>2. g[n][Past(p)] = h[n][Past(p)]
        BY <1>2, <1>5, <3>1
      <3> QED BY <1>4, <2>1, <3>1, <3>2
    <2>2. CASE k = 0
      <3>1. 0 \in 0..n
        OBVIOUS
      <3> QED BY <1>3, <1>5, <2>2, <3>1
    <2>3. CASE k # n + 1 /\ k # 0
      <3>1. k \in 0..n /\ k - 1 \in 0..n
        BY <2>3
      <3>2. g[k - 1][Past(p)] = h[k - 1][Past(p)]
        BY <1>2, <1>5, <3>1
      <3> QED BY <1>3, <1>5, <2>3, <3>1, <3>2
    <2> QED BY <2>1, <2>2, <2>3
  <1>7. Solves(g, c, s, n + 1)
    BY <1>6 DEF Solves, P, Past, Here
  <1> QED BY <1>7

\* The landing place solves its own recursion on the lines left.
LEMMA LandingIs ==
  ASSUME NEW c \in Seq(Byte), NEW s \in 0..Len(c)
  PROVE  \E h : Solves(h, c, s, MaxResyncLines) /\ Landing(c, s) = h[MaxResyncLines][s]
  <1> DEFINE Bad == {n \in Nat : n <= MaxResyncLines /\ ~\E h : Solves(h, c, s, n)}
             P == s..Len(c)
             M == MaxResyncLines
             Body(h, k, p) == IF k = 0 \/ Stops(c, p) THEN p ELSE h[k - 1][PastNewline(c, p)]
             land == CHOOSE h : h = [k \in 0..M |-> [p \in P |-> Body(h, k, p)]]
  <1>1. M \in Nat
    BY FramingAssumption
  <1>2. Bad = {}
    <2>1. SUFFICES ASSUME Bad # {} PROVE FALSE
      OBVIOUS
    <2>2. PICK n \in Bad : \A y \in Bad : n <= y
      <3>1. Bad \subseteq Nat
        OBVIOUS
      <3> HIDE DEF Bad
      <3> QED BY <2>1, <3>1, MinIsLeast
    <2>3. CASE n = 0
      <3> DEFINE g == [k \in 0..0 |-> [p \in P |-> p]]
      <3>1. \A k \in 0..0, p \in P : g[k][p] = p /\ k = 0
        OBVIOUS
      <3> HIDE DEF g
      <3>2. Solves(g, c, s, 0)
        BY <3>1 DEF Solves
      <3> QED BY <2>2, <2>3, <3>2
    <2>4. CASE n # 0
      <3> DEFINE m == n - 1
      <3>1. m \in Nat /\ m < n /\ m < MaxResyncLines /\ m + 1 = n
        BY <1>1, <2>2, <2>4
      <3> HIDE DEF m
      <3>2. m \notin Bad /\ m <= MaxResyncLines
        BY <1>1, <2>2, <3>1
      <3>3. PICK h : Solves(h, c, s, m)
        BY <3>1, <3>2
      <3>4. \E g : Solves(g, c, s, m + 1)
        BY <3>1, <3>3, OneMoreLine
      <3> QED BY <2>2, <3>1, <3>4
    <2> QED BY <2>3, <2>4
  <1>3. PICK h : Solves(h, c, s, M)
    <2>1. M \notin Bad
      <3> HIDE DEF Bad
      <3> QED BY <1>2
    <2>2. M \in Nat /\ M <= MaxResyncLines
      BY <1>1
    <2> QED BY <2>1, <2>2
  <1> DEFINE g == [k \in 0..M |-> [p \in P |-> h[k][p]]]
  <1>4. \A k \in 0..M, p \in P : g[k][p] = Body(g, k, p)
    <2>1. \A k \in 0..M, p \in P : g[k][p] = h[k][p]
      OBVIOUS
    <2>2. ASSUME NEW k \in 0..M, NEW p \in P, k # 0
          PROVE  g[k - 1][PastNewline(c, p)] = h[k - 1][PastNewline(c, p)]
      <3>1. s \in Nat /\ Len(c) \in Nat
        BY LenProperties
      <3>2. p \in 0..Len(c)
        BY <3>1
      <3>3. PastNewline(c, p) \in p..Len(c)
        BY <3>2, PastNewlineIs
      <3>4. PastNewline(c, p) \in P /\ k - 1 \in 0..M
        BY <1>1, <2>2, <3>1, <3>2, <3>3
      <3> QED BY <2>1, <3>4
    <2> HIDE DEF g
    <2> QED BY <1>3, <2>1, <2>2 DEF Solves
  <1>5. g = [k \in 0..M |-> [p \in P |-> Body(g, k, p)]]
    BY <1>4
  <1>6. land = [k \in 0..M |-> [p \in P |-> Body(land, k, p)]]
    <2> HIDE DEF g
    <2> QED BY <1>5
  <1>7. Landing(c, s) = land[M][s]
    BY DEF Landing, Stops, Sample
  <1> HIDE DEF land
  <1>8. Solves(land, c, s, M)
    <2>1. \A k \in 0..M, p \in P : land[k][p] = Body(land, k, p)
      <3> HIDE DEF Body, P, M
      <3>1. \A k \in 0..M : land[k] = [q \in P |-> Body(land, k, q)]
        BY <1>6
      <3> QED BY <3>1
    <2> QED BY <2>1 DEF Solves
  <1> QED BY <1>7, <1>8

\* The first line that is not empty, by its place.
LEMMA FirstLineIs ==
  ASSUME NEW d \in Seq(Byte)
  PROVE  /\ FirstNonEmptyLine(d) = 0 <=> \A k \in 1..Len(d) : d[k] = "n"
         /\ FirstNonEmptyLine(d) # 0 =>
              /\ FirstNonEmptyLine(d) \in 1..Len(d) /\ d[FirstNonEmptyLine(d)] # "n"
              /\ \A k \in 1..Len(d) : d[k] # "n" => FirstNonEmptyLine(d) <= k
  <1> DEFINE Others == {k \in 1..Len(d) : d[k] # "n"}
  <1>1. Others \subseteq Nat /\ Len(d) \in Nat
    BY LenProperties
  <1>2. FirstNonEmptyLine(d) = IF \A k \in 1..Len(d) : d[k] = "n" THEN 0 ELSE Min(Others)
    BY DEF FirstNonEmptyLine
  <1>3. CASE \A k \in 1..Len(d) : d[k] = "n"
    BY <1>2, <1>3
  <1>4. CASE ~\A k \in 1..Len(d) : d[k] = "n"
    <2>1. Others # {}
      BY <1>4
    <2>2. Min(Others) \in Others /\ \A y \in Others : Min(Others) <= y
      <3> HIDE DEF Others
      <3> QED BY <1>1, <2>1, MinIsLeast
    <2>3. FirstNonEmptyLine(d) = Min(Others)
      BY <1>2, <1>4
    <2>4. Min(Others) \in 1..Len(d) /\ d[Min(Others)] # "n" /\ Min(Others) # 0
      BY <1>1, <2>2
    <2> QED BY <1>4, <2>2, <2>3, <2>4
  <1> QED BY <1>3, <1>4

\* What resync looks at, byte for byte.
LEMMA SampleIs ==
  ASSUME NEW c \in Seq(Byte), NEW p \in 0..Len(c)
  PROVE  /\ Sample(c, p) \in Seq(Byte)
         /\ Len(Sample(c, p)) = Shorter(Shorter(ResyncPeek, MaxRecord), Len(c) - p)
         /\ \A i \in 1..Len(Sample(c, p)) : Sample(c, p)[i] = c[p + i]
  <1> DEFINE most == Shorter(ResyncPeek, MaxRecord)
             n == Shorter(most, Len(c) - p)
  <1>1. Len(c) \in Nat /\ p \in Nat /\ p <= Len(c)
    BY LenProperties
  <1>2. most \in Nat
    BY FramingAssumption DEF Shorter
  <1> HIDE DEF most
  <1>3. n \in Nat /\ p + n <= Len(c) /\ p + n = Shorter(p + most, Len(c))
    BY <1>1, <1>2 DEF Shorter
  <1>4. Sample(c, p) = SubSeq(c, p + 1, p + n)
    BY <1>3 DEF Sample, most
  <1> HIDE DEF n
  <1>5. /\ SubSeq(c, p + 1, p + n) \in Seq(Byte) /\ Len(SubSeq(c, p + 1, p + n)) = n
        /\ \A i \in 1..n : SubSeq(c, p + 1, p + n)[i] = c[p + i]
    BY <1>1, <1>3, Slice
  <1> QED BY <1>4, <1>5 DEF n, most
-----------------------------------------------------------------------------
(***************************************************************************)
(* Walking a path: its elements are those the start leads to.              *)
(***************************************************************************)
\* Of the elements up to a number that has some there is a last one.
LEMMA LastUpTo ==
  ASSUME NEW S, S \subseteq Nat, NEW q \in Nat, NEW x \in S, x <= q
  PROVE  \E p \in S : p <= q /\ \A y \in S : y <= q => y <= p
  <1> DEFINE T == {d \in 0..q : q - d \in S}
  <1>1. x \in Nat /\ q - x \in T
    <2>1. x \in Nat /\ q - x \in 0..q /\ q - (q - x) = x
      OBVIOUS
    <2> QED BY <2>1
  <1>2. T \subseteq Nat /\ T # {}
    <2>1. T \subseteq Nat
      OBVIOUS
    <2> HIDE DEF T
    <2> QED BY <1>1, <2>1
  <1>3. PICK m \in T : \A d \in T : m <= d
    <2> HIDE DEF T
    <2> QED BY <1>2, MinIsLeast
  <1>4. m \in 0..q /\ q - m \in S /\ q - m <= q
    BY <1>3
  <1>5. ASSUME NEW y \in S, y <= q PROVE y <= q - m
    <2>1. y \in Nat /\ q - y \in 0..q /\ q - (q - y) = y
      BY <1>5
    <2>2. q - y \in T
      BY <1>5, <2>1
    <2>3. m <= q - y
      BY <1>3, <2>2
    <2> QED BY <1>4, <2>1, <2>3
  <1> QED BY <1>4, <1>5

\* A path's positions are numbers.
LEMMA PathIsNumbers ==
  ASSUME NEW f, NEW c \in Seq(Byte), NEW t, NEW s \in 0..Len(c),
         NEW P, IsPath(f, c, t, s, P)
  PROVE  /\ P \subseteq Nat /\ P \subseteq 0..Len(c) /\ s \in P
         /\ \A q \in P : s <= q /\ q <= Len(c)
  <1>1. Len(c) \in Nat /\ s \in Nat /\ P \subseteq s..Len(c) /\ s \in P
    BY LenProperties DEF IsPath
  <1> QED BY <1>1

\* A position after the start is the next one of another.
LEMMA ComesFrom ==
  ASSUME NEW f, NEW c \in Seq(Byte), NEW t, NEW s \in 0..Len(c),
         NEW P, IsPath(f, c, t, s, P), NEW q \in P, q # s
  PROVE  \E p \in P : p < q /\ p < Len(c) /\ NextPosition(f, c, p, t) = q
  <1>1. Len(c) \in Nat /\ s \in Nat /\ q \in Nat /\ s < q /\ q <= Len(c) /\ P \subseteq Nat
    BY LenProperties DEF IsPath
  <1>2. s \in P /\ s <= q - 1 /\ q - 1 \in Nat
    BY <1>1 DEF IsPath
  <1>3. PICK p \in P : p <= q - 1 /\ \A y \in P : y <= q - 1 => y <= p
    BY <1>1, <1>2, LastUpTo
  <1>4. p \in Nat /\ p < q /\ p < Len(c) /\ p \in 0..Len(c)
    BY <1>1, <1>3
  <1> DEFINE n == NextPosition(f, c, p, t)
  <1>5. n \in P /\ (q <= p \/ q >= n)
    BY <1>4 DEF IsPath
  <1>6. n \in (p + 1)..Len(c)
    BY <1>4, NextPositionIs
  <1> HIDE DEF n
  <1>7. n = q
    <2>1. n \in Nat /\ n > p /\ n <= q
      BY <1>1, <1>4, <1>5, <1>6
    <2>2. ~(n <= q - 1)
      BY <1>3, <1>4, <1>5, <2>1
    <2> QED BY <1>1, <2>1, <2>2
  <1> QED BY <1>4, <1>7 DEF n

\* What holds at the start, and of the next position of one of which it
\* holds, holds all along the path.
LEMMA AllAlong ==
  ASSUME NEW f, NEW c \in Seq(Byte), NEW t, NEW s \in 0..Len(c),
         NEW P, IsPath(f, c, t, s, P), NEW Q, s \in Q,
         \A q \in P : q \in Q /\ q < Len(c) => NextPosition(f, c, q, t) \in Q
  PROVE  P \subseteq Q
  <1> DEFINE Bad == {q \in P : q \notin Q}
  <1>1. SUFFICES ASSUME Bad # {} PROVE FALSE
    OBVIOUS
  <1>2. P \subseteq Nat /\ Bad \subseteq P /\ Bad \subseteq Nat
    BY PathIsNumbers
  <1>3. PICK q \in Bad : \A y \in Bad : q <= y
    <2> HIDE DEF Bad
    <2> QED BY <1>1, <1>2, MinIsLeast
  <1>4. q \in P /\ q # s
    BY <1>3
  <1>5. PICK p \in P : p < q /\ p < Len(c) /\ NextPosition(f, c, p, t) = q
    BY <1>4, ComesFrom
  <1>6. p \in Nat /\ q \in Nat /\ p \notin Bad
    BY <1>2, <1>3, <1>5
  <1>7. p \in Q
    BY <1>6
  <1> QED BY <1>3, <1>5, <1>7

\* Two paths that meet go on together.
LEMMA GoOnTogether ==
  ASSUME NEW f, NEW c \in Seq(Byte), NEW t,
         NEW s \in 0..Len(c), NEW P, IsPath(f, c, t, s, P),
         NEW r \in 0..Len(c), NEW R, IsPath(f, c, t, r, R),
         NEW e \in P, e \in R
  PROVE  \A q \in P : q >= e => q \in R
  <1> DEFINE Bad == {q \in P : q >= e /\ q \notin R}
  <1>1. SUFFICES ASSUME Bad # {} PROVE FALSE
    OBVIOUS
  <1>2. P \subseteq Nat /\ Bad \subseteq P /\ Bad \subseteq Nat /\ s <= e /\ s \in P
    BY PathIsNumbers
  <1>3. PICK q \in Bad : \A y \in Bad : q <= y
    <2> HIDE DEF Bad
    <2> QED BY <1>1, <1>2, MinIsLeast
  <1>4. q \in P /\ q >= e /\ q # e /\ q # s /\ q \in Nat /\ e \in Nat
    BY <1>2, <1>3
  <1>5. PICK p \in P : p < q /\ p < Len(c) /\ NextPosition(f, c, p, t) = q
    <2>1. q \in P /\ q # s
      BY <1>4
    <2> HIDE DEF Bad
    <2> QED BY <2>1, ComesFrom
  <1>6. e <= p
    BY <1>4, <1>5 DEF IsPath
  <1>7. p \in R
    BY <1>2, <1>3, <1>5, <1>6
  <1> QED BY <1>3, <1>5, <1>7 DEF IsPath

\* Every path comes to the end.
LEMMA ComesToTheEnd ==
  ASSUME NEW f, NEW c \in Seq(Byte), NEW t, NEW s \in 0..Len(c),
         NEW P, IsPath(f, c, t, s, P)
  PROVE  Len(c) \in P
  <1>1. Len(c) \in Nat /\ P \subseteq Nat /\ s \in P /\ s <= Len(c)
    BY LenProperties DEF IsPath
  <1>2. PICK p \in P : p <= Len(c) /\ \A y \in P : y <= Len(c) => y <= p
    BY <1>1, LastUpTo
  <1>3. CASE p < Len(c)
    <2>1. p \in 0..Len(c)
      BY <1>1, <1>2
    <2>2. NextPosition(f, c, p, t) \in P /\ NextPosition(f, c, p, t) \in (p + 1)..Len(c)
      BY <1>3, <2>1, NextPositionIs DEF IsPath
    <2> HIDE DEF NextPosition
    <2> QED BY <1>1, <1>2, <2>2
  <1> QED BY <1>1, <1>2, <1>3
-----------------------------------------------------------------------------
(***************************************************************************)
(* What is cut at a position, in terms of the whole input.                 *)
(***************************************************************************)
\* A cut uses up some bytes of the window, and only the end of the input or
\* the size cap leaves none.
LEMMA CutIs ==
  ASSUME NEW f, NEW c \in Seq(Byte), NEW t, NEW p \in 0..Len(c), p < Len(c)
  PROVE  LET cut == CutAt(f, c, p, t)
             n   == Shorter(MaxRecord, Len(c) - p)
         IN /\ WindowAtEOF(c, p) => cut # NeedMore
            /\ cut # NeedMore =>
                 /\ cut.advance \in 1..n /\ cut.token \in 0..cut.advance
                 /\ NextPosition(f, c, p, t) = p + cut.advance
                 /\ NextPosition(f, c, p, t) <= p + MaxRecord
  <1> DEFINE cut == CutAt(f, c, p, t)
             W == WindowAt(c, p)
             eof == WindowAtEOF(c, p)
             n == Shorter(MaxRecord, Len(c) - p)
  <1>1. Len(c) \in Nat /\ p \in Nat /\ MaxRecord \in Nat \ {0}
    BY LenProperties, FramingAssumption
  <1>2. n \in Nat \ {0} /\ n <= MaxRecord
    BY <1>1 DEF Shorter
  <1>3. W \in Seq(Byte) /\ Len(W) = n /\ eof \in BOOLEAN /\ cut = Split(f, W, eof, t)
    BY WindowAtIs DEF WindowAtEOF, CutAt
  <1>4. W # <<>>
    BY <1>2, <1>3, EmptySeq
  <1>5. IsCut(cut, W) /\ (eof => cut # NeedMore)
    <2> HIDE DEF W, eof, cut
    <2> QED BY <1>3, <1>4, SplitIsCut
  <1>6. ASSUME cut # NeedMore
        PROVE  /\ cut.advance \in 1..n /\ cut.token \in 0..cut.advance
               /\ NextPosition(f, c, p, t) = p + cut.advance
               /\ NextPosition(f, c, p, t) <= p + MaxRecord
    <2>1. PICK a \in 1..n, k \in 0..n : k <= a /\ cut = Cut(a, k)
      <3> HIDE DEF cut, W, n
      <3> QED BY <1>3, <1>5, <1>6 DEF IsCut
    <2>2. cut.advance = a /\ cut.token = k /\ a \in Nat /\ a > 0 /\ a <= n
      BY <1>2, <2>1 DEF Cut
    <2>3. NextPosition(f, c, p, t) = p + a
      <3> HIDE DEF n
      <3> QED BY <2>2 DEF NextPosition
    <2> HIDE DEF cut, n
    <2> QED BY <1>1, <1>2, <2>1, <2>2, <2>3
  <1> QED BY <1>5, <1>6

\* An empty line is used up without a record.
LEMMA BlankCut ==
  ASSUME NEW f, NEW c \in Seq(Byte), NEW t, NEW p \in 0..Len(c), p < Len(c),
         c[p + 1] = "n"
  PROVE  /\ CutAt(f, c, p, t) = Cut(1, 0)
         /\ NextPosition(f, c, p, t) = p + 1
         /\ TokenAt(f, c, p, t) = <<>>
  <1> DEFINE W == WindowAt(c, p)
             eof == WindowAtEOF(c, p)
             n == Shorter(MaxRecord, Len(c) - p)
  <1>1. Len(c) \in Nat /\ p \in Nat /\ MaxRecord \in Nat \ {0}
    BY LenProperties, FramingAssumption
  <1>2. n \in Nat \ {0}
    BY <1>1 DEF Shorter
  <1>3. /\ W \in Seq(Byte) /\ Len(W) = n
        /\ \A i \in 1..n : W[i] = c[p + i]
    BY WindowAtIs
  <1>4. W # <<>> /\ W[1] = "n" /\ 1 \in 1..n
    BY <1>2, <1>3, EmptySeq
  <1> HIDE DEF W, eof, n
  <1>5. NewlinesIn(W) # {} /\ Min(NewlinesIn(W)) = 1
    <2>1. NewlinesIn(W) \subseteq Nat /\ 1 \in NewlinesIn(W)
      BY <1>2, <1>3, <1>4 DEF NewlinesIn
    <2>2. \A y \in NewlinesIn(W) : 1 <= y
      BY <1>2, <1>3 DEF NewlinesIn
    <2> QED BY <2>1, <2>2, LeastIsMin
  <1>6. SplitLine(W, eof, t) = Cut(1, 0)
    BY <1>5 DEF SplitLine
  <1>7. SplitCSV(W, eof, t) = Cut(1, 0)
    <2>1. QuotesBefore(W, 1) = 0
      <3>1. {k \in 1..(1 - 1) : W[k] = "q"} = {}
        OBVIOUS
      <3> QED BY <3>1, FS_EmptySet DEF QuotesBefore
    <2>2. 1 \in NewlinesIn(W) /\ 1 \in RecordEnds(W)
      BY <1>2, <1>3, <1>4, <2>1 DEF RecordEnds, NewlinesIn
    <2>3. RecordEnds(W) \subseteq Nat /\ \A y \in RecordEnds(W) : 1 <= y
      BY <1>2, <1>3 DEF RecordEnds, NewlinesIn
    <2>4. Min(RecordEnds(W)) = 1
      BY <2>2, <2>3, LeastIsMin
    <2> QED BY <2>2, <2>4 DEF SplitCSV
  <1>8. SplitStderr(W, eof, t) = Cut(1, 0)
    BY <1>4, <1>5 DEF SplitStderr
  <1>9. CutAt(f, c, p, t) = Cut(1, 0)
    BY <1>4, <1>6, <1>7, <1>8 DEF CutAt, Split, W, eof
  <1>10. NextPosition(f, c, p, t) = p + 1
    BY <1>9 DEF NextPosition, Cut
  <1>11. TokenAt(f, c, p, t) = <<>>
    <2>1. TokenAt(f, c, p, t) = SubSeq(c, p + 1, p + 0)
      BY <1>9 DEF TokenAt, Cut
    <2>2. SubSeq(c, p + 1, p + 0) \in Seq(Byte) /\ Len(SubSeq(c, p + 1, p + 0)) = 0
      BY <1>1, Slice
    <2> QED BY <2>1, <2>2, EmptySeq
  <1> QED BY <1>9, <1>10, <1>11

\* A record begins with the byte at its position.
LEMMA TokenIs ==
  ASSUME NEW f, NEW c \in Seq(Byte), NEW t, NEW p \in 0..Len(c), p < Len(c),
         TokenAt(f, c, p, t) # <<>>
  PROVE  TokenAt(f, c, p, t)[1] = c[p + 1]
  <1> DEFINE cut == CutAt(f, c, p, t)
             k == cut.token
  <1>1. Len(c) \in Nat /\ p \in Nat
    BY LenProperties
  <1>2. CASE cut = NeedMore
    <2>1. TokenAt(f, c, p, t) = SubSeq(c, p + 1, p + 0)
      BY <1>2 DEF TokenAt, NeedMore
    <2>2. SubSeq(c, p + 1, p + 0) \in Seq(Byte) /\ Len(SubSeq(c, p + 1, p + 0)) = 0
      BY <1>1, Slice
    <2> QED BY <2>1, <2>2, EmptySeq
  <1>3. CASE cut # NeedMore
    <2>1. cut.advance \in Nat /\ p + cut.advance <= Len(c) /\ k \in 0..cut.advance
      <3>1. cut.advance \in 1..Shorter(MaxRecord, Len(c) - p) /\ k \in 0..cut.advance
        BY <1>3, CutIs
      <3>2. MaxRecord \in Nat
        BY FramingAssumption
      <3> HIDE DEF cut, k
      <3> QED BY <1>1, <3>1, <3>2 DEF Shorter
    <2>2. k \in Nat /\ p + k <= Len(c)
      <3> HIDE DEF cut, k
      <3> QED BY <1>1, <2>1
    <2>3. TokenAt(f, c, p, t) = SubSeq(c, p + 1, p + k)
      BY DEF TokenAt
    <2> HIDE DEF k
    <2>4. /\ SubSeq(c, p + 1, p + k) \in Seq(Byte)
          /\ Len(SubSeq(c, p + 1, p + k)) = k
          /\ \A i \in 1..k : SubSeq(c, p + 1, p + k)[i] = c[p + i]
      BY <1>1, <2>2, Slice
    <2>5. k # 0
      BY <2>3, <2>4, EmptySeq
    <2> QED BY <2>2, <2>3, <2>4, <2>5
  <1> QED BY <1>2, <1>3
-----------------------------------------------------------------------------
(***************************************************************************)
(* Regular inputs: the framer that comes from the head stands wherever a   *)
(* record starts.                                                          *)
(***************************************************************************)
\* The inputs are such that only the first byte of a line looks like a start.
LEMMA InputsStartLines ==
  ASSUME NEW f \in Formats, NEW c \in Contents(f)
  PROVE  StartsLines(c)
  <1> DEFINE plain == {x \in UNION {[1..k -> Alphabet(f)] : k \in 0..MaxLen} :
                         \A i \in 2..Len(x) : x[i] \in {"s", "d"} => x[i - 1] = "n"}
  <1>1. Alphabet(f) \subseteq Byte
    BY DEF Alphabet, Formats, Byte
  <1>2. ASSUME NEW x \in plain
        PROVE  x \in Seq(Byte) /\ \A i \in 2..Len(x) : x[i] \in {"s", "d"} => x[i - 1] = "n"
    <2>1. PICK k \in 0..MaxLen : x \in [1..k -> Alphabet(f)]
      OBVIOUS
    <2>2. k \in Nat
      BY FramingAssumption
    <2>3. x \in Seq(Byte)
      BY <1>1, <2>1, <2>2, SeqDef
    <2> QED BY <2>3
  <1>3. CASE c \in plain
    BY <1>2, <1>3 DEF StartsLines
  <1>4. ASSUME NEW d \in plain, c = <<"b">> \o d
        PROVE  StartsLines(c)
    <2>1. d \in Seq(Byte) /\ \A i \in 2..Len(d) : d[i] \in {"s", "d"} => d[i - 1] = "n"
      BY <1>2
    <2> HIDE DEF plain
    <2>2. Len(c) = Len(d) + 1 /\ c[1] = "b" /\ Len(d) \in Nat
      BY <1>4, <2>1, LenProperties
    <2>3. \A i \in 2..Len(c) : c[i] = d[i - 1] /\ i - 1 \in 1..Len(d)
      BY <1>4, <2>1, <2>2
    <2>4. ASSUME NEW i \in 2..Len(c), c[i] \in {"s", "d"}, i # 2
          PROVE  c[i - 1] = "n"
      <3>1. i - 1 \in 2..Len(d) /\ i - 1 \in 2..Len(c)
        BY <2>2, <2>4
      <3>2. d[(i - 1) - 1] = "n"
        BY <2>1, <2>3, <2>4, <3>1
      <3> QED BY <2>3, <3>1, <3>2
    <2> QED BY <2>2, <2>4 DEF StartsLines
  <1>5. c \in plain \/ \E d \in plain : c = <<"b">> \o d
    BY DEF Contents
  <1> QED BY <1>3, <1>4, <1>5

\* What a cut says of the bytes it takes.
CutShape(f, d, eof, a) ==
  /\ a \in 1..Len(d)
  /\ (eof /\ a = Len(d)) \/ d[a] = "n"
  /\ f = "json" => \A k \in 1..(a - 1) : d[k] # "n"
  /\ f = "csv" =>
       /\ (eof /\ a = Len(d)) \/ QuotesBefore(d, a) % 2 = 0
       /\ \A k \in 1..(a - 1) : d[k] = "n" => QuotesBefore(d, k) % 2 # 0
  /\ f = "stderr" =>
       /\ d[1] = "n" => a = 1
       /\ d[1] # "n" =>
            /\ (eof /\ a = Len(d)) \/ (a + 1 \in 1..Len(d) /\ ~IsContinuation(d, a + 1))
            /\ \A k \in 1..(a - 1) : d[k] = "n" => IsContinuation(d, k + 1)

\* Every cut is of that shape.
LEMMA CutHasShape ==
  ASSUME NEW f \in Formats, NEW d \in Seq(Byte), d # <<>>, NEW eof \in BOOLEAN, NEW t,
         Split(f, d, eof, t) # NeedMore
  PROVE  CutShape(f, d, eof, Split(f, d, eof, t).advance)
  <1> DEFINE n == Len(d)
  <1>1. n \in Nat /\ n # 0 /\ n \in 1..n /\ NewlinesIn(d) \subseteq 1..n
    BY LenProperties, EmptySeq DEF NewlinesIn
  <1>2. NewlinesIn(d) \subseteq Nat /\ RecordEnds(d) \subseteq Nat /\ RecordEnds(d) \subseteq NewlinesIn(d)
    BY <1>1 DEF RecordEnds
  <1>3. ASSUME CutTail(d, eof, t) # NeedMore
        PROVE  eof /\ CutTail(d, eof, t).advance = n
    BY <1>3 DEF CutTail, Cut
  <1>4. CASE f = "json"
    <2>1. Split(f, d, eof, t) = SplitLine(d, eof, t)
      BY <1>4 DEF Split
    <2>2. CASE NewlinesIn(d) = {}
      <3>1. eof /\ Split(f, d, eof, t).advance = n
        BY <1>3, <2>1, <2>2 DEF SplitLine
      <3>2. \A k \in 1..(n - 1) : d[k] # "n"
        BY <1>1, <2>2 DEF NewlinesIn
      <3> QED BY <1>1, <1>4, <3>1, <3>2 DEF CutShape
    <2>3. CASE NewlinesIn(d) # {}
      <3>1. Split(f, d, eof, t).advance = Min(NewlinesIn(d))
        BY <2>1, <2>3 DEF SplitLine, Cut
      <3>2. Min(NewlinesIn(d)) \in NewlinesIn(d) /\ \A y \in NewlinesIn(d) : Min(NewlinesIn(d)) <= y
        BY <1>2, <2>3, MinIsLeast
      <3>3. \A m \in 1..n : (\A y \in NewlinesIn(d) : m <= y) => \A k \in 1..(m - 1) : d[k] # "n"
        BY <1>1 DEF NewlinesIn
      <3>4. Min(NewlinesIn(d)) \in 1..n /\ d[Min(NewlinesIn(d))] = "n"
        BY <3>2 DEF NewlinesIn
      <3> QED BY <1>4, <3>1, <3>2, <3>3, <3>4 DEF CutShape
    <2> QED BY <2>2, <2>3
  <1>5. CASE f = "csv"
    <2>1. Split(f, d, eof, t) = SplitCSV(d, eof, t)
      BY <1>5 DEF Split
    <2>2. CASE RecordEnds(d) = {}
      <3>1. eof /\ Split(f, d, eof, t).advance = n
        BY <1>3, <2>1, <2>2 DEF SplitCSV
      <3>2. \A k \in 1..(n - 1) : d[k] = "n" => QuotesBefore(d, k) % 2 # 0
        BY <1>1, <2>2 DEF NewlinesIn, RecordEnds
      <3> QED BY <1>1, <1>5, <3>1, <3>2 DEF CutShape
    <2>3. CASE RecordEnds(d) # {}
      <3>1. Split(f, d, eof, t).advance = Min(RecordEnds(d))
        BY <2>1, <2>3 DEF SplitCSV, Cut
      <3>2. Min(RecordEnds(d)) \in RecordEnds(d) /\ \A y \in RecordEnds(d) : Min(RecordEnds(d)) <= y
        BY <1>2, <2>3, MinIsLeast
      <3>3. \A m \in 1..n : (\A y \in RecordEnds(d) : m <= y)
              => \A k \in 1..(m - 1) : d[k] = "n" => QuotesBefore(d, k) % 2 # 0
        BY <1>1 DEF NewlinesIn, RecordEnds
      <3>4. /\ Min(RecordEnds(d)) \in 1..n /\ d[Min(RecordEnds(d))] = "n"
            /\ QuotesBefore(d, Min(RecordEnds(d))) % 2 = 0
        BY <3>2 DEF NewlinesIn, RecordEnds
      <3> QED BY <1>5, <3>1, <3>2, <3>3, <3>4 DEF CutShape
    <2> QED BY <2>2, <2>3
  <1>6. CASE f = "stderr"
    <2> DEFINE Lines == {i \in 2..n : d[i - 1] = "n"}
               Halts == {i \in Lines : ~IsContinuation(d, i)}
    <2>1. Split(f, d, eof, t) = SplitStderr(d, eof, t)
      BY <1>6 DEF Split
    <2>2. Halts \subseteq Nat /\ Halts \subseteq 2..n
      BY <1>1
    <2>3. CASE NewlinesIn(d) = {}
      <3>1. eof /\ Split(f, d, eof, t).advance = n
        BY <1>3, <2>1, <2>3 DEF SplitStderr
      <3>2. d[1] # "n" /\ \A k \in 1..(n - 1) : d[k] # "n"
        BY <1>1, <2>3 DEF NewlinesIn
      <3> QED BY <1>1, <1>6, <3>1, <3>2 DEF CutShape
    <2>4. CASE NewlinesIn(d) # {} /\ d[1] = "n"
      <3>1. Split(f, d, eof, t).advance = 1
        BY <2>1, <2>4 DEF SplitStderr, Cut
      <3> QED BY <1>1, <1>6, <2>4, <3>1 DEF CutShape
    <2>5. CASE NewlinesIn(d) # {} /\ d[1] # "n" /\ Halts # {}
      <3>1. Min(Halts) \in Halts /\ \A y \in Halts : Min(Halts) <= y
        <4> HIDE DEF Halts
        <4> QED BY <2>2, <2>5, MinIsLeast
      <3>2. Split(f, d, eof, t).advance = Min(Halts) - 1
        BY <2>1, <2>5 DEF SplitStderr, Cut
      <3>3. PICK m : m = Min(Halts)
        OBVIOUS
      <3>4. m \in 2..n /\ d[m - 1] = "n" /\ ~IsContinuation(d, m)
        BY <3>1, <3>3
      <3>5. ASSUME NEW k \in 1..((m - 1) - 1), d[k] = "n"
            PROVE  IsContinuation(d, k + 1)
        <4>1. k + 1 \in 2..n /\ (k + 1) - 1 = k /\ ~(m <= k + 1)
          BY <1>1, <3>4
        <4>2. k + 1 \notin Halts
          BY <3>1, <3>3, <4>1
        <4> QED BY <3>5, <4>1, <4>2
      <3>6. (m - 1) \in 1..n /\ (m - 1) + 1 = m /\ m \in 1..n
        BY <1>1, <3>4
      <3> HIDE DEF n, Halts
      <3> QED BY <1>6, <2>5, <3>2, <3>3, <3>4, <3>5, <3>6 DEF CutShape, n
    <2>6. CASE NewlinesIn(d) # {} /\ d[1] # "n" /\ Halts = {}
      <3>1. eof /\ Split(f, d, eof, t).advance = n
        BY <2>1, <2>6 DEF SplitStderr, Cut
      <3>2. ASSUME NEW k \in 1..(n - 1), d[k] = "n"
            PROVE  IsContinuation(d, k + 1)
        <4>1. k + 1 \in 2..n /\ (k + 1) - 1 = k
          BY <1>1
        <4> QED BY <2>6, <3>2, <4>1
      <3> HIDE DEF Halts
      <3> QED BY <1>1, <1>6, <2>6, <3>1, <3>2 DEF CutShape
    <2> QED BY <2>3, <2>4, <2>5, <2>6
  <1> QED BY <1>4, <1>5, <1>6 DEF Formats

\* Quotes are counted byte by byte.
LEMMA QuotesStep ==
  ASSUME NEW d \in Seq(Byte)
  PROVE  /\ QuotesBefore(d, 1) = 0
         /\ \A i \in 1..Len(d) :
              /\ QuotesBefore(d, i) \in Nat
              /\ QuotesBefore(d, i + 1)
                   = IF d[i] = "q" THEN QuotesBefore(d, i) + 1 ELSE QuotesBefore(d, i)
  <1> DEFINE Q(i) == {k \in 1..(i - 1) : d[k] = "q"}
  <1>1. \A i : QuotesBefore(d, i) = Cardinality(Q(i))
    BY DEF QuotesBefore
  <1>2. QuotesBefore(d, 1) = 0
    <2>1. Q(1) = {}
      OBVIOUS
    <2> QED BY <1>1, <2>1, FS_EmptySet
  <1>3. ASSUME NEW i \in 1..Len(d)
        PROVE  /\ QuotesBefore(d, i) \in Nat
               /\ QuotesBefore(d, i + 1)
                    = IF d[i] = "q" THEN QuotesBefore(d, i) + 1 ELSE QuotesBefore(d, i)
    <2>1. i \in Nat /\ i - 1 \in Nat /\ (i + 1) - 1 = i
      BY LenProperties
    <2>2. IsFiniteSet(Q(i))
      <3>1. IsFiniteSet(1..(i - 1)) /\ Q(i) \subseteq 1..(i - 1)
        BY <2>1, FS_Interval
      <3> QED BY <3>1, FS_Subset
    <2>3. Cardinality(Q(i)) \in Nat
      BY <2>2, FS_CardinalityType
    <2>4. i \notin Q(i) /\ Q(i + 1) = IF d[i] = "q" THEN Q(i) \cup {i} ELSE Q(i)
      BY <2>1
    <2> HIDE DEF Q
    <2>5. Cardinality(Q(i) \cup {i}) = Cardinality(Q(i)) + 1
      BY <2>2, <2>4, FS_AddElement
    <2> QED BY <1>1, <2>3, <2>4, <2>5
  <1> QED BY <1>2, <1>3

\* The quotes of a slice add to those before it.
LEMMA QuotesAdd ==
  ASSUME NEW c \in Seq(Byte), NEW p \in 0..Len(c), NEW w \in Seq(Byte), p + Len(w) <= Len(c),
         \A j \in 1..Len(w) : w[j] = c[p + j]
  PROVE  \A i \in 1..Len(w) :
           /\ QuotesBefore(c, p + i) = QuotesBefore(c, p + 1) + QuotesBefore(w, i)
           /\ QuotesBefore(c, p + 1) \in Nat /\ QuotesBefore(w, i) \in Nat
  <1> DEFINE n == Len(w)
             A(i) == QuotesBefore(c, p + i)
             B(i) == QuotesBefore(w, i)
             Bad == {i \in 1..n : A(i) # A(1) + B(i)}
  <1>1. n \in Nat /\ p \in Nat /\ Len(c) \in Nat /\ p + n <= Len(c)
    BY LenProperties
  <1>2. \A i \in 1..n : p + i \in 1..Len(c) /\ (p + i) + 1 = p + (i + 1)
    BY <1>1
  <1>3. \A i \in 1..n : A(i) \in Nat /\ A(i + 1) = IF w[i] = "q" THEN A(i) + 1 ELSE A(i)
    BY <1>2, QuotesStep
  <1>4. B(1) = 0 /\ \A i \in 1..n : B(i) \in Nat /\ B(i + 1) = IF w[i] = "q" THEN B(i) + 1 ELSE B(i)
    BY QuotesStep
  <1>5. Bad = {}
    <2>1. SUFFICES ASSUME Bad # {} PROVE FALSE
      OBVIOUS
    <2>2. Bad \subseteq Nat
      BY <1>1
    <2>3. PICK i \in Bad : \A y \in Bad : i <= y
      <3> HIDE DEF Bad
      <3> QED BY <2>1, <2>2, MinIsLeast
    <2>4. i \in 1..n /\ A(i) # A(1) + B(i)
      BY <2>3
    <2>5. 1 \in 1..n
      BY <1>1, <2>4
    <2>6. i # 1
      <3>1. A(1) \in Nat
        BY <1>3, <2>5
      <3> HIDE DEF A, B
      <3> QED BY <1>4, <2>4, <3>1
    <2>7. i - 1 \in 1..n /\ (i - 1) + 1 = i /\ ~(i <= i - 1)
      BY <1>1, <2>4, <2>6
    <2>8. A(i - 1) = A(1) + B(i - 1)
      BY <2>3, <2>7
    <2>9. /\ A(i - 1) \in Nat /\ A(1) \in Nat /\ B(i - 1) \in Nat
          /\ A(i) = IF w[i - 1] = "q" THEN A(i - 1) + 1 ELSE A(i - 1)
          /\ B(i) = IF w[i - 1] = "q" THEN B(i - 1) + 1 ELSE B(i - 1)
      <3> HIDE DEF A, B, n
      <3> QED BY <1>3, <1>4, <2>5, <2>7
    <2> HIDE DEF A, B
    <2> QED BY <2>4, <2>8, <2>9
  <1>6. ASSUME NEW i \in 1..n
        PROVE  A(i) = A(1) + B(i) /\ A(1) \in Nat /\ B(i) \in Nat
    <2>1. 1 \in 1..n
      BY <1>1
    <2>2. i \notin Bad
      BY <1>5
    <2> QED BY <1>3, <1>4, <2>1, <2>2
  <1> QED BY <1>6

\* What a cut says of the bytes of the input, from p to the next position q.
StepShape(f, c, p, q) ==
  /\ p \in 0..Len(c) /\ q \in (p + 1)..Len(c) /\ q <= p + MaxRecord
  /\ q = Len(c) \/ c[q] = "n"
  /\ f = "json" => \A k \in (p + 1)..(q - 1) : c[k] # "n"
  /\ f = "csv" =>
       /\ q = Len(c) \/ (QuotesBefore(c, q) - QuotesBefore(c, p + 1)) % 2 = 0
       /\ \A k \in (p + 1)..(q - 1) :
            c[k] = "n" => (QuotesBefore(c, k) - QuotesBefore(c, p + 1)) % 2 # 0
  /\ f = "stderr" =>
       /\ c[p + 1] = "n" => q = p + 1
       /\ c[p + 1] # "n" =>
            /\ q = Len(c) \/ c[q + 1] \in {"s", "n"}
            /\ \A k \in (p + 1)..(q - 1) : c[k] = "n" => c[k + 1] \notin {"s", "n"}

\* A step of the framer is of that shape.
LEMMA StepHasShape ==
  ASSUME NEW f \in Formats, NEW c \in Seq(Byte), NEW t, NEW p \in 0..Len(c), p < Len(c),
         CutAt(f, c, p, t) # NeedMore
  PROVE  StepShape(f, c, p, NextPosition(f, c, p, t))
  <1> DEFINE w == WindowAt(c, p)
             n == Len(w)
             eof == WindowAtEOF(c, p)
             a == CutAt(f, c, p, t).advance
             q == NextPosition(f, c, p, t)
             B == QuotesBefore(c, p + 1)
  <1>1. Len(c) \in Nat /\ p \in Nat /\ MaxRecord \in Nat \ {0}
    BY LenProperties, FramingAssumption
  <1>2. /\ w \in Seq(Byte) /\ n = Shorter(MaxRecord, Len(c) - p)
        /\ \A i \in 1..n : w[i] = c[p + i]
    BY WindowAtIs
  <1>3. n \in Nat \ {0} /\ p + n <= Len(c) /\ n <= MaxRecord /\ (eof => p + n = Len(c)) /\ w # <<>>
    <2>1. n \in Nat \ {0} /\ p + n <= Len(c) /\ n <= MaxRecord /\ (eof => p + n = Len(c))
      <3> HIDE DEF w
      <3> QED BY <1>1, <1>2 DEF Shorter, WindowAtEOF
    <2> QED BY <1>2, <2>1, EmptySeq
  <1>4. CutShape(f, w, eof, a)
    <2>1. CutAt(f, c, p, t) = Split(f, w, eof, t) /\ eof \in BOOLEAN
      BY DEF CutAt, WindowAtEOF
    <2> HIDE DEF w, eof, n
    <2> QED BY <1>2, <1>3, <2>1, CutHasShape
  <1>5. q = p + a
    BY CutIs
  <1>6. a \in 1..n
    BY <1>4 DEF CutShape
  <1>7. q \in (p + 1)..Len(c) /\ q <= p + MaxRecord /\ (eof /\ a = n => q = Len(c))
    <2> HIDE DEF q, a, n, eof
    <2> QED BY <1>1, <1>3, <1>5, <1>6
  <1>8. c[q] = w[a] /\ c[p + 1] = w[1]
    <2>1. 1 \in 1..n
      BY <1>3
    <2> HIDE DEF w, n, a, q
    <2> QED BY <1>2, <1>5, <1>6, <2>1
  <1>9. ASSUME NEW k \in (p + 1)..(q - 1)
        PROVE  /\ k - p \in 1..(a - 1) /\ c[k] = w[k - p]
               /\ c[k + 1] = w[(k - p) + 1]
               /\ k = p + (k - p) /\ k - p \in 1..n
    <2> HIDE DEF w, n, a, q
    <2>1. /\ k - p \in 1..(a - 1) /\ k - p \in 1..n /\ (k - p) + 1 \in 1..n
          /\ p + (k - p) = k /\ p + ((k - p) + 1) = k + 1
      BY <1>1, <1>3, <1>5, <1>6
    <2> QED BY <1>2, <2>1
  <1>10. CASE f = "json"
    <2>1. \A k \in (p + 1)..(q - 1) : c[k] # "n"
      BY <1>4, <1>9, <1>10 DEF CutShape
    <2>2. q = Len(c) \/ c[q] = "n"
      BY <1>4, <1>7, <1>8 DEF CutShape
    <2> QED BY <1>7, <1>10, <2>1, <2>2 DEF StepShape
  <1>11. CASE f = "csv"
    <2>1. \A i \in 1..n : /\ QuotesBefore(c, p + i) = B + QuotesBefore(w, i)
                          /\ B \in Nat /\ QuotesBefore(w, i) \in Nat
      BY <1>2, <1>3, QuotesAdd
    <2>2. \A i \in 1..n : QuotesBefore(c, p + i) - B = QuotesBefore(w, i)
      <3> HIDE DEF B, w, n
      <3> QED BY <2>1
    <2>3. q = Len(c) \/ c[q] = "n"
      BY <1>4, <1>7, <1>8 DEF CutShape
    <2>4. q = Len(c) \/ (QuotesBefore(c, q) - B) % 2 = 0
      <3>1. (eof /\ a = n) \/ QuotesBefore(w, a) % 2 = 0
        BY <1>4, <1>11 DEF CutShape
      <3> HIDE DEF B, w, n, a, q, eof
      <3> QED BY <1>5, <1>6, <1>7, <2>2, <3>1
    <2>5. ASSUME NEW k \in (p + 1)..(q - 1), c[k] = "n"
          PROVE  (QuotesBefore(c, k) - B) % 2 # 0
      <3>1. \A j \in 1..(a - 1) : w[j] = "n" => QuotesBefore(w, j) % 2 # 0
        BY <1>4, <1>11 DEF CutShape
      <3>2. QuotesBefore(w, k - p) % 2 # 0
        BY <1>9, <2>5, <3>1
      <3>3. QuotesBefore(c, k) - B = QuotesBefore(w, k - p)
        <4> HIDE DEF B, w, n, a, q
        <4> QED BY <1>9, <2>2
      <3> QED BY <3>2, <3>3
    <2> QED BY <1>7, <1>11, <2>3, <2>4, <2>5 DEF StepShape
  <1>12. CASE f = "stderr"
    <2>1. q = Len(c) \/ c[q] = "n"
      BY <1>4, <1>7, <1>8 DEF CutShape
    <2>2. c[p + 1] = "n" => q = p + 1
      BY <1>4, <1>5, <1>8, <1>12 DEF CutShape
    <2>3. ASSUME c[p + 1] # "n" PROVE q = Len(c) \/ c[q + 1] \in {"s", "n"}
      <3>1. (eof /\ a = n) \/ (a + 1 \in 1..n /\ ~IsContinuation(w, a + 1))
        BY <1>4, <1>8, <1>12, <2>3 DEF CutShape
      <3>2. CASE eof /\ a = n
        BY <1>7, <3>2
      <3>3. CASE a + 1 \in 1..n /\ ~IsContinuation(w, a + 1)
        <4>1. w[a + 1] \in {"s", "n"}
          BY <3>3 DEF IsContinuation
        <4>2. w[a + 1] = c[q + 1]
          <5>1. p + (a + 1) = q + 1
            <6> HIDE DEF a, q
            <6> QED BY <1>1, <1>5, <1>6
          <5> HIDE DEF w, n, a, q
          <5> QED BY <1>2, <3>3, <5>1
        <4> QED BY <4>1, <4>2
      <3> QED BY <3>1, <3>2, <3>3
    <2>4. ASSUME c[p + 1] # "n", NEW k \in (p + 1)..(q - 1), c[k] = "n"
          PROVE  c[k + 1] \notin {"s", "n"}
      <3>1. \A j \in 1..(a - 1) : w[j] = "n" => IsContinuation(w, j + 1)
        BY <1>4, <1>8, <1>12, <2>4 DEF CutShape
      <3>2. IsContinuation(w, (k - p) + 1)
        BY <1>9, <2>4, <3>1
      <3> QED BY <1>9, <3>2 DEF IsContinuation
    <2> QED BY <1>7, <1>12, <2>1, <2>2, <2>3, <2>4 DEF StepShape
  <1> QED BY <1>10, <1>11, <1>12 DEF Formats

\* The framer's way from the head, when every step of it cuts.
Framed(f, c, t, P) ==
  /\ IsPath(f, c, t, StartOf(c), P)
  /\ \A p \in P : p < Len(c) => StepShape(f, c, p, NextPosition(f, c, p, t))

\* Reading begins at the head, or after the byte order mark.
LEMMA StartOfIs ==
  ASSUME NEW c \in Seq(Byte)
  PROVE  /\ StartOf(c) \in 0..Len(c) /\ StartOf(c) <= 1
         /\ StartOf(c) = 1 => c[1] = "b"
  BY LenProperties, EmptySeq DEF StartOf

\* Without a record over the cap every step cuts.
LEMMA EveryStepCuts ==
  ASSUME NEW f \in Formats, NEW c \in Seq(Byte), NEW t, Skipped(f, c, StartOf(c), t) = 0
  PROVE  Framed(f, c, t, Positions(f, c, StartOf(c), t))
  <1> DEFINE s == StartOf(c)
             P == Positions(f, c, s, t)
             Over == {p \in P : ~WindowAtEOF(c, p) /\ CutAt(f, c, p, t) = NeedMore}
  <1>1. IsPath(f, c, t, s, P) /\ IsFiniteSet(P) /\ s \in 0..Len(c)
    BY StartOfIs, PositionsArePath
  <1>2. Over = {}
    <2>1. IsFiniteSet(Over) /\ Cardinality(Over) = 0
      BY <1>1, FS_Subset DEF Skipped
    <2> QED BY <2>1, FS_EmptySet
  <1>3. P \subseteq 0..Len(c)
    <2> HIDE DEF P, s
    <2> QED BY <1>1, PathIsNumbers
  <1>4. ASSUME NEW p \in P, p < Len(c)
        PROVE  StepShape(f, c, p, NextPosition(f, c, p, t))
    <2>1. p \in 0..Len(c)
      BY <1>3
    <2>2. CutAt(f, c, p, t) # NeedMore
      <3>1. WindowAtEOF(c, p) => CutAt(f, c, p, t) # NeedMore
        <4> HIDE DEF P, s
        <4> QED BY <1>4, <2>1, CutIs
      <3> QED BY <1>2, <3>1
    <2> HIDE DEF P, s
    <2> QED BY <1>4, <2>1, <2>2, StepHasShape
  <1> QED BY <1>1, <1>4 DEF Framed

\* A position after the start comes by such a step.
LEMMA ComesByStep ==
  ASSUME NEW f, NEW c \in Seq(Byte), NEW t, NEW P, Framed(f, c, t, P),
         NEW q \in P, q # StartOf(c)
  PROVE  \E p \in P : p < q /\ StepShape(f, c, p, q)
  <1>1. IsPath(f, c, t, StartOf(c), P) /\ StartOf(c) \in 0..Len(c)
    BY StartOfIs DEF Framed
  <1>2. PICK p \in P : p < q /\ p < Len(c) /\ NextPosition(f, c, p, t) = q
    BY <1>1, ComesFrom
  <1> QED BY <1>2 DEF Framed

\* Every position but the first and the last is at the beginning of a line.
LEMMA FramedOnLines ==
  ASSUME NEW f, NEW c \in Seq(Byte), NEW t, NEW P, Framed(f, c, t, P),
         NEW q \in P, q # StartOf(c), q < Len(c)
  PROVE  q >= 1 /\ c[q] = "n"
  <1>1. PICK p \in P : p < q /\ StepShape(f, c, p, q)
    BY ComesByStep
  <1> QED BY <1>1, LenProperties DEF StepShape

\* Every position of a csvlog input is outside quotes.
LEMMA FramedOutsideQuotes ==
  ASSUME NEW c \in Seq(Byte), NEW t, NEW P, Framed("csv", c, t, P)
  PROVE  \A q \in P : q < Len(c) => QuotesBefore(c, q + 1) % 2 = 0
  <1> DEFINE L == Len(c)
             s == StartOf(c)
             N(p) == NextPosition("csv", c, p, t)
             Q == {q \in P : q < L => QuotesBefore(c, q + 1) % 2 = 0}
  <1>1. /\ L \in Nat /\ s \in 0..L /\ s <= 1 /\ (s = 1 => c[1] = "b")
        /\ IsPath("csv", c, t, s, P) /\ P \subseteq 0..L /\ s \in P
    <2>1. IsPath("csv", c, t, s, P) /\ s \in 0..L
      BY StartOfIs DEF Framed
    <2>2. P \subseteq 0..L /\ s \in P
      BY <2>1, PathIsNumbers
    <2> QED BY <2>1, <2>2, StartOfIs, LenProperties
  <1>2. \A i \in 1..L : /\ QuotesBefore(c, i) \in Nat
                        /\ c[i] # "q" => QuotesBefore(c, i + 1) = QuotesBefore(c, i)
    BY QuotesStep
  <1>3. s \in Q
    <2>1. QuotesBefore(c, 1) = 0
      BY QuotesStep
    <2>2. CASE s = 0
      BY <1>1, <2>1, <2>2
    <2>3. CASE s = 1
      <3>1. 1 \in 1..L /\ c[1] # "q"
        BY <1>1, <2>3
      <3>2. QuotesBefore(c, s + 1) = 0
        BY <1>2, <2>1, <2>3, <3>1
      <3> QED BY <1>1, <3>2
    <2> QED BY <1>1, <2>2, <2>3
  <1>4. ASSUME NEW q \in P, q \in Q, q < L
        PROVE  N(q) \in Q
    <2>1. StepShape("csv", c, q, N(q)) /\ N(q) \in P
      BY <1>1, <1>4 DEF Framed, IsPath
    <2>2. QuotesBefore(c, q + 1) % 2 = 0
      BY <1>4
    <2>3. ASSUME N(q) < L
          PROVE  QuotesBefore(c, N(q) + 1) % 2 = 0
      <3>1. PICK x : x = N(q)
        OBVIOUS
      <3>2. /\ x \in 1..L /\ c[x] = "n" /\ q + 1 \in 1..L
            /\ (QuotesBefore(c, x) - QuotesBefore(c, q + 1)) % 2 = 0
        <4> HIDE DEF N
        <4> QED BY <1>1, <2>1, <2>3, <3>1 DEF StepShape
      <3>3. QuotesBefore(c, x) \in Nat /\ QuotesBefore(c, q + 1) \in Nat
        BY <1>2, <3>2
      <3>4. QuotesBefore(c, x) % 2 = 0
        <4>1. \A a, b \in Nat : (a - b) % 2 = 0 /\ b % 2 = 0 => a % 2 = 0
          OBVIOUS
        <4> QED BY <2>2, <3>2, <3>3, <4>1
      <3>5. QuotesBefore(c, x + 1) = QuotesBefore(c, x)
        BY <1>2, <3>2
      <3> QED BY <3>1, <3>4, <3>5
    <2> HIDE DEF N
    <2> QED BY <2>1, <2>3
  <1>5. P \subseteq Q
    <2> HIDE DEF Q
    <2> QED BY <1>1, <1>3, <1>4, AllAlong
  <1> QED BY <1>5

\* A step does not pass over the start of a record.
LEMMA StepStopsAtStart ==
  ASSUME NEW f \in Formats, NEW c \in Seq(Byte), StartsLines(c), ~Deceptive(f, c),
         NEW p, NEW n, StepShape(f, c, p, n), StartOf(c) <= p,
         f = "csv" => QuotesBefore(c, p + 1) % 2 = 0,
         NEW q \in (p + 1)..(Len(c) - 1), c[q + 1] = "s"
  PROVE  n <= q
  <1>1. /\ Len(c) \in Nat /\ p \in Nat /\ n \in Nat /\ q \in Nat /\ q < Len(c)
        /\ p < q /\ q + 1 \in 2..Len(c) /\ (q + 1) - 1 = q
    BY LenProperties DEF StepShape
  <1>2. c[q] = "n"
    <2>1. c[(q + 1) - 1] = "n" \/ (q + 1 = 2 /\ c[1] = "b")
      BY <1>1 DEF StartsLines
    <2>2. ~(q + 1 = 2 /\ c[1] = "b")
      <3>1. c[1] = "b" => StartOf(c) = 1
        BY <1>1, EmptySeq, StartOfIs DEF StartOf
      <3> QED BY <1>1, <3>1
    <2> QED BY <1>1, <2>1, <2>2
  <1>3. SUFFICES ASSUME n > q PROVE FALSE
    BY <1>1
  <1>4. q \in (p + 1)..(n - 1)
    BY <1>1, <1>3
  <1>5. CASE f = "json"
    BY <1>2, <1>4, <1>5 DEF StepShape
  <1>6. CASE f = "csv"
    <2>1. (QuotesBefore(c, q) - QuotesBefore(c, p + 1)) % 2 # 0
      BY <1>2, <1>4, <1>6 DEF StepShape
    <2>2. QuotesBefore(c, q + 1) % 2 # 1
      BY <1>1, <1>2, <1>6 DEF Deceptive
    <2>3. /\ QuotesBefore(c, q + 1) = QuotesBefore(c, q)
          /\ QuotesBefore(c, q) \in Nat /\ QuotesBefore(c, p + 1) \in Nat
      <3>1. q \in 1..Len(c) /\ p + 1 \in 1..Len(c)
        BY <1>1
      <3> QED BY <1>2, <3>1, QuotesStep
    <2>4. \A a, b \in Nat : a % 2 # 1 /\ b % 2 = 0 => (a - b) % 2 = 0
      OBVIOUS
    <2> QED BY <1>6, <2>1, <2>2, <2>3, <2>4
  <1>7. CASE f = "stderr"
    <2>1. c[p + 1] # "n"
      BY <1>1, <1>3, <1>7 DEF StepShape
    <2> QED BY <1>2, <1>4, <1>7, <2>1 DEF StepShape
  <1> QED BY <1>5, <1>6, <1>7 DEF Formats

\* The framer comes to every start of a record.
LEMMA FramedAtStarts ==
  ASSUME NEW f \in Formats, NEW c \in Seq(Byte), NEW t, NEW P, Framed(f, c, t, P),
         StartsLines(c), ~Deceptive(f, c),
         NEW q \in StartOf(c)..(Len(c) - 1), c[q + 1] = "s"
  PROVE  q \in P
  <1> DEFINE s == StartOf(c)
  <1>1. Len(c) \in Nat /\ s \in Nat /\ IsPath(f, c, t, s, P) /\ s \in 0..Len(c)
    BY StartOfIs, LenProperties DEF Framed
  <1>2. P \subseteq Nat /\ s \in P /\ \A x \in P : s <= x
    BY <1>1, PathIsNumbers
  <1>3. q \in Nat /\ s <= q /\ q < Len(c)
    BY <1>1
  <1>4. PICK p \in P : p <= q /\ \A y \in P : y <= q => y <= p
    BY <1>2, <1>3, LastUpTo
  <1>5. CASE p < q
    <2> DEFINE n == NextPosition(f, c, p, t)
    <2>1. p < Len(c) /\ p \in Nat
      BY <1>2, <1>3, <1>5
    <2>2. n \in P /\ StepShape(f, c, p, n)
      BY <1>1, <2>1 DEF Framed, IsPath
    <2>3. f = "csv" => QuotesBefore(c, p + 1) % 2 = 0
      BY <2>1, FramedOutsideQuotes
    <2> HIDE DEF n, s
    <2>4. q \in (p + 1)..(Len(c) - 1)
      BY <1>1, <1>3, <1>5, <2>1
    <2>5. StartOf(c) <= p
      BY <1>2 DEF s
    <2>6. n <= q
      BY <2>2, <2>3, <2>4, <2>5, StepStopsAtStart
    <2>7. n > p
      BY <2>1, <2>2, LenProperties DEF StepShape
    <2>8. n \in Nat /\ n <= p
      BY <1>2, <1>4, <2>2, <2>6
    <2> QED BY <2>1, <2>7, <2>8
  <1> QED BY <1>2, <1>3, <1>4, <1>5

\* No record of a stderr log begins, past the head, with a labelled
\* continuation, unless there is none that it continues.
LEMMA FramedAtNoContinuation ==
  ASSUME NEW c \in Seq(Byte), NEW t, NEW P, Framed("stderr", c, t, P), ~Orphan(c),
         NEW q \in P, q >= 1, q < Len(c)
  PROVE  c[q + 1] # "d"
  <1> DEFINE s == StartOf(c)
  <1>1. /\ Len(c) \in Nat /\ IsPath("stderr", c, t, s, P) /\ P \subseteq 0..Len(c) /\ q \in Nat
        /\ s \in 0..Len(c) /\ s <= 1 /\ (s = 1 => c[1] = "b")
    <2>1. IsPath("stderr", c, t, s, P) /\ s \in 0..Len(c)
      BY StartOfIs DEF Framed
    <2>2. P \subseteq 0..Len(c)
      BY <2>1, PathIsNumbers
    <2> QED BY <2>1, <2>2, StartOfIs, LenProperties
  <1>2. SUFFICES ASSUME c[q + 1] = "d" PROVE FALSE
    OBVIOUS
  <1>3. q + 1 \in 2..Len(c) /\ (q + 1) - 2 = q - 1 /\ (q + 1 = 2 <=> q = 1)
    BY <1>1
  <1>4. q # 1 /\ c[q - 1] \notin {"n", "b"}
    BY <1>2, <1>3 DEF Orphan
  <1>5. q # s
    BY <1>1, <1>4
  <1>6. PICK p \in P : p < q /\ StepShape("stderr", c, p, q)
    BY <1>5, ComesByStep
  <1>7. q = p + 1 /\ c[p + 1] = "n"
    BY <1>1, <1>2, <1>6 DEF StepShape
  <1>8. p = q - 1 /\ p < Len(c) /\ p >= 1
    BY <1>1, <1>4, <1>7
  <1>9. p # s
    BY <1>1, <1>4, <1>8
  <1>10. c[p] = "n"
    BY <1>8, <1>9, FramedOnLines
  <1> QED BY <1>4, <1>8, <1>10
-----------------------------------------------------------------------------
(***************************************************************************)
(* Where Seek lands the framer from the head passes too, so that from      *)
(* there on the records are those of the whole input.                      *)
(***************************************************************************)
\* A path goes through a run of empty lines line by line.
LEMMA BlankWalk ==
  ASSUME NEW f, NEW c \in Seq(Byte), NEW t, NEW s \in 0..Len(c),
         NEW P, IsPath(f, c, t, s, P), NEW a \in P, NEW e \in a..Len(c),
         \A k \in a..(e - 1) : c[k + 1] = "n"
  PROVE  e \in P
  <1>1. P \subseteq Nat /\ Len(c) \in Nat /\ P \subseteq 0..Len(c)
    BY PathIsNumbers, LenProperties
  <1>2. a \in Nat /\ e \in Nat /\ a <= e /\ e <= Len(c)
    BY <1>1
  <1>3. PICK p \in P : p <= e /\ \A y \in P : y <= e => y <= p
    <2>1. P \subseteq Nat /\ e \in Nat /\ a \in P /\ a <= e
      BY <1>1, <1>2
    <2> QED BY <2>1, LastUpTo
  <1>4. p \in Nat /\ a <= p /\ p \in 0..Len(c)
    BY <1>1, <1>2, <1>3
  <1>5. CASE p < e
    <2>1. p \in a..(e - 1) /\ p < Len(c)
      BY <1>2, <1>4, <1>5
    <2>2. NextPosition(f, c, p, t) = p + 1
      BY <1>4, <2>1, BlankCut
    <2>3. p + 1 \in P
      BY <2>1, <2>2 DEF IsPath
    <2> QED BY <1>2, <1>3, <1>4, <1>5, <2>3
  <1> QED BY <1>2, <1>3, <1>4, <1>5

\* After every place the empty lines come to an end.
LEMMA BlanksEnd ==
  ASSUME NEW c \in Seq(Byte), NEW l \in 0..Len(c)
  PROVE  \E e \in l..Len(c) : /\ e = Len(c) \/ c[e + 1] # "n"
                              /\ \A k \in l..(e - 1) : c[k + 1] = "n"
  <1> DEFINE E == {e \in l..Len(c) : e = Len(c) \/ c[e + 1] # "n"}
  <1>1. Len(c) \in Nat /\ l \in Nat /\ l <= Len(c)
    BY LenProperties
  <1>2. Len(c) \in E /\ E \subseteq Nat
    BY <1>1
  <1>3. PICK e \in E : \A y \in E : e <= y
    <2> HIDE DEF E
    <2> QED BY <1>2, MinIsLeast
  <1>4. e \in l..Len(c) /\ (e = Len(c) \/ c[e + 1] # "n")
    BY <1>3
  <1>5. ASSUME NEW k \in l..(e - 1)
        PROVE  c[k + 1] = "n"
    <2>1. k \in l..Len(c) /\ ~(e <= k) /\ k # Len(c)
      BY <1>1, <1>4
    <2>2. k \notin E
      BY <1>3, <2>1
    <2> QED BY <2>1, <2>2
  <1> QED BY <1>4, <1>5

\* The first line after a landing place that is not empty is on the way from
\* the head: a record starts there, or the empty lines before it do not fit
\* into a record.
LEMMA LandsOnTheWay ==
  ASSUME NEW f \in Formats, NEW c \in Seq(Byte), NEW t, NEW P, Framed(f, c, t, P),
         StartsLines(c), ~Deceptive(f, c), ~BlankRun(c),
         NEW l \in 1..Len(c), Stops(c, l), NEW e \in l..Len(c),
         e = Len(c) \/ c[e + 1] # "n", \A k \in l..(e - 1) : c[k + 1] = "n"
  PROVE  e \in P
  <1> DEFINE s == StartOf(c)
             w == Sample(c, l)
             n == Len(w)
             i == FirstNonEmptyLine(w)
  <1>1. /\ Len(c) \in Nat /\ l \in Nat /\ e \in Nat /\ l >= 1 /\ l <= e /\ e <= Len(c)
        /\ MaxRecord \in Nat \ {0} /\ ResyncPeek \in Nat \ {0} /\ l \in 0..Len(c)
    BY LenProperties, FramingAssumption
  <1>2. s \in 0..Len(c) /\ s <= 1 /\ s \in Nat /\ IsPath(f, c, t, s, P)
    BY <1>1, StartOfIs DEF Framed
  <1>3. CASE e = Len(c)
    <2> HIDE DEF s
    <2> QED BY <1>2, <1>3, ComesToTheEnd
  <1>4. CASE e < Len(c) /\ c[e + 1] = "s"
    <2>1. e \in StartOf(c)..(Len(c) - 1)
      BY <1>1, <1>2, <1>4
    <2> QED BY <1>4, <2>1, FramedAtStarts
  <1>5. CASE e < Len(c) /\ c[e + 1] # "s"
    <2>1. /\ w \in Seq(Byte) /\ n = Shorter(Shorter(ResyncPeek, MaxRecord), Len(c) - l)
          /\ \A k \in 1..n : w[k] = c[l + k]
      BY <1>1, SampleIs
    <2>2. i = 0 \/ (i > 0 /\ w[i] = "s")
      BY DEF Stops, IsRecordStart
    <2> HIDE DEF w
    <2>3. n \in Nat /\ n >= 1 /\ (n = ResyncPeek \/ n = MaxRecord \/ l + n = Len(c))
      BY <1>1, <1>5, <2>1 DEF Shorter
    <2>4. n <= e - l
      <3>1. SUFFICES ASSUME e - l < n PROVE FALSE
        BY <1>1, <2>3
      <3>2. (e - l) + 1 \in 1..n /\ l + ((e - l) + 1) = e + 1
        BY <1>1, <2>3, <3>1
      <3>3. w[(e - l) + 1] = c[e + 1] /\ c[e + 1] # "n"
        BY <1>5, <2>1, <3>2
      <3>4. i # 0 /\ i \in 1..n /\ i <= (e - l) + 1
        BY <2>1, <3>2, <3>3, FirstLineIs
      <3>5. i \in Nat /\ w[i] = "s" /\ i # (e - l) + 1
        BY <1>5, <2>2, <3>3, <3>4
      <3>6. (l + i) - 1 \in l..(e - 1) /\ ((l + i) - 1) + 1 = l + i
        BY <1>1, <2>3, <3>4, <3>5
      <3>7. c[l + i] = "n"
        BY <3>6
      <3> QED BY <2>1, <3>4, <3>5, <3>7
    <2>5. \A k \in (l + 1)..(l + n) : c[k] = "n"
      <3>1. ASSUME NEW k \in (l + 1)..(l + n) PROVE c[k] = "n"
        <4>1. k - 1 \in l..(e - 1) /\ (k - 1) + 1 = k
          BY <1>1, <2>3, <2>4
        <4> QED BY <4>1
      <3> QED BY <3>1
    <2>6. n # ResyncPeek
      <3>1. SUFFICES ASSUME n = ResyncPeek PROVE FALSE
        OBVIOUS
      <3>2. /\ l + 1 \in 1..Len(c) /\ ((l + 1) + ResyncPeek) - 1 = l + n
            /\ l + n <= Len(c)
        BY <1>1, <1>5, <2>3, <2>4, <3>1
      <3>3. PICK m : m = l + 1
        OBVIOUS
      <3>4. m \in 1..Len(c) /\ (m + ResyncPeek) - 1 = l + n /\ (m + ResyncPeek) - 1 <= Len(c)
        BY <3>2, <3>3
      <3>5. \A k \in m..((m + ResyncPeek) - 1) : c[k] = "n"
        BY <2>5, <3>3, <3>4
      <3>6. BlankRun(c)
        BY <1>1, <3>4, <3>5 DEF BlankRun
      <3> QED BY <3>6
    <2>7. n = MaxRecord /\ l + MaxRecord <= e
      BY <1>1, <1>5, <2>3, <2>4, <2>6
    <2>8. P \subseteq Nat /\ s \in P
      <3> HIDE DEF s
      <3> QED BY <1>2, PathIsNumbers
    <2>9. PICK p \in P : p <= l /\ \A y \in P : y <= l => y <= p
      <3>1. P \subseteq Nat /\ l \in Nat /\ s \in P /\ s <= l
        BY <1>1, <1>2, <2>8
      <3> HIDE DEF s
      <3> QED BY <3>1, LastUpTo
    <2>10. PICK a \in P : l <= a /\ a <= e
      <3>1. CASE p = l
        BY <1>1, <2>9, <3>1
      <3>2. CASE p # l
        <4> DEFINE x == NextPosition(f, c, p, t)
        <4>1. p \in Nat /\ p < l /\ p < Len(c)
          BY <1>1, <2>8, <2>9, <3>2
        <4>2. x \in P /\ StepShape(f, c, p, x)
          BY <1>2, <4>1 DEF Framed, IsPath
        <4> HIDE DEF x
        <4>3. x \in Nat /\ p < x /\ x <= p + MaxRecord
          BY <1>1, <4>1, <4>2 DEF StepShape
        <4>4. ~(x <= l)
          BY <2>9, <4>1, <4>2, <4>3
        <4> QED BY <1>1, <2>7, <4>1, <4>2, <4>3, <4>4
      <3> QED BY <3>1, <3>2
    <2>11. a \in Nat /\ e \in a..Len(c) /\ \A k \in a..(e - 1) : c[k + 1] = "n"
      BY <1>1, <2>8, <2>10
    <2> HIDE DEF s
    <2> QED BY <1>2, <2>10, <2>11, BlankWalk
  <1> QED BY <1>1, <1>3, <1>4, <1>5

\* No record starts at the places from a on and before b.
NoStart(c, a, b) == \A q \in a..(b - 1) : c[q + 1] # "s"

(***************************************************************************)
(* From a place where resync stops, having passed over no start of a       *)
(* record, the records are those that one reading from the head finds at   *)
(* or after the offset asked for.                                          *)
(***************************************************************************)
LEMMA FromLandingOn ==
  ASSUME NEW f \in Formats, NEW c \in Seq(Byte), NEW t,
         StartsLines(c), Regular(f, c, t), ~BlankRun(c),
         NEW s \in 1..Len(c), NEW l \in s..Len(c), Stops(c, l), NoStart(c, s, l)
  PROVE  RecordOffsets(f, c, l, t)
           = {o \in RecordOffsets(f, c, StartOf(c), t) : o >= s}
  <1> DEFINE h == StartOf(c)
             P == Positions(f, c, h, t)
             R == Positions(f, c, l, t)
             IsOne(o) == /\ o < Len(c) /\ TokenAt(f, c, o, t) # <<>>
                         /\ IsRecord(f, TokenAt(f, c, o, t))
  <1>1. /\ Len(c) \in Nat /\ s \in Nat /\ l \in Nat /\ s >= 1 /\ s <= l /\ l <= Len(c)
        /\ l \in 0..Len(c) /\ l \in 1..Len(c) /\ h \in 0..Len(c) /\ h <= 1
    BY LenProperties, StartOfIs
  <1>2. Framed(f, c, t, P) /\ ~Deceptive(f, c) /\ ~Orphan(c)
    BY EveryStepCuts DEF Regular
  <1>3. IsPath(f, c, t, h, P) /\ IsPath(f, c, t, l, R) /\ l \in R
    BY <1>1, PositionsArePath DEF IsPath
  <1>4. /\ RecordOffsets(f, c, l, t) = {o \in R : IsOne(o)}
        /\ RecordOffsets(f, c, h, t) = {o \in P : IsOne(o)}
    BY DEF RecordOffsets
  <1>5. PICK e \in l..Len(c) : /\ e = Len(c) \/ c[e + 1] # "n"
                               /\ \A k \in l..(e - 1) : c[k + 1] = "n"
    BY <1>1, BlanksEnd
  <1> HIDE DEF h, P, R
  <1>6. e \in P
    BY <1>1, <1>2, <1>5, LandsOnTheWay
  <1>7. e \in R
    BY <1>1, <1>3, <1>5, BlankWalk
  <1>8. /\ P \subseteq Nat /\ R \subseteq Nat /\ e \in Nat /\ l <= e
        /\ P \subseteq 0..Len(c) /\ R \subseteq 0..Len(c) /\ \A o \in R : l <= o
    <2>1. P \subseteq Nat /\ P \subseteq 0..Len(c)
      BY <1>1, <1>3, PathIsNumbers
    <2>2. R \subseteq Nat /\ R \subseteq 0..Len(c) /\ \A o \in R : l <= o
      BY <1>1, <1>3, PathIsNumbers
    <2> QED BY <1>1, <2>1, <2>2
  <1>9. \A o : IsOne(o) /\ o \in 0..Len(c) =>
          o < Len(c) /\ c[o + 1] # "n" /\ (c[o + 1] = "s" \/ (f = "stderr" /\ c[o + 1] = "d"))
    <2>1. ASSUME NEW o \in 0..Len(c), IsOne(o)
          PROVE  /\ c[o + 1] # "n"
                 /\ c[o + 1] = "s" \/ (f = "stderr" /\ c[o + 1] = "d")
      <3>1. TokenAt(f, c, o, t)[1] = c[o + 1]
        BY <2>1, TokenIs
      <3> QED BY <2>1, <3>1 DEF IsRecord
    <2> QED BY <2>1
  <1> HIDE DEF IsOne
  <1>10. ASSUME NEW o \in R, IsOne(o)
         PROVE  o \in P /\ o >= s
    <2>1. ~(o < e)
      <3>1. SUFFICES ASSUME o < e PROVE FALSE
        OBVIOUS
      <3>2. o \in l..(e - 1) /\ o \in 0..Len(c)
        BY <1>8, <3>1
      <3> QED BY <1>5, <1>9, <1>10, <3>2
    <2>2. o >= e /\ o \in Nat
      BY <1>8, <2>1
    <2>3. o \in P
      BY <1>1, <1>3, <1>6, <1>7, <2>2, GoOnTogether
    <2> QED BY <1>1, <1>8, <2>2, <2>3
  <1>11. ASSUME NEW o \in P, IsOne(o), o >= s
         PROVE  o \in R
    <2>1. o \in Nat /\ o \in 0..Len(c) /\ o < Len(c)
      BY <1>8, <1>9, <1>11
    <2>2. ~(o < l)
      <3>1. SUFFICES ASSUME o < l PROVE FALSE
        OBVIOUS
      <3>2. o \in s..(l - 1) /\ o >= 1
        BY <1>1, <1>11, <2>1, <3>1
      <3>3. f = "stderr" /\ c[o + 1] = "d"
        BY <1>9, <1>11, <2>1, <3>2 DEF NoStart
      <3> QED BY <1>2, <1>11, <2>1, <3>2, <3>3, FramedAtNoContinuation
    <2>3. ~(o < e)
      <3>1. SUFFICES ASSUME o < e PROVE FALSE
        OBVIOUS
      <3>2. o \in l..(e - 1)
        BY <1>1, <1>8, <2>1, <2>2, <3>1
      <3> QED BY <1>5, <1>9, <1>11, <2>1, <3>2
    <2>4. o >= e
      BY <1>8, <2>1, <2>3
    <2> QED BY <1>1, <1>3, <1>6, <1>7, <2>4, GoOnTogether
  <1> QED BY <1>4, <1>10, <1>11 DEF h

\* resync stops at the end.
LEMMA StopsAtEnd ==
  ASSUME NEW c \in Seq(Byte)
  PROVE  Stops(c, Len(c))
  <1>1. Len(c) \in Nat /\ Len(c) \in 0..Len(c) /\ Len(c) - Len(c) = 0
    BY LenProperties
  <1>2. /\ Sample(c, Len(c)) \in Seq(Byte)
        /\ Len(Sample(c, Len(c))) = Shorter(Shorter(ResyncPeek, MaxRecord), Len(c) - Len(c))
    BY <1>1, SampleIs
  <1>3. Shorter(ResyncPeek, MaxRecord) \in Nat
    BY FramingAssumption DEF Shorter
  <1>4. Len(Sample(c, Len(c))) = 0
    BY <1>1, <1>2, <1>3 DEF Shorter
  <1>5. \A i \in 1..Len(Sample(c, Len(c))) : FALSE
    BY <1>4
  <1>6. FirstNonEmptyLine(Sample(c, Len(c))) = 0
    BY <1>2, <1>5, FirstLineIs
  <1> QED BY <1>6 DEF Stops

\* Before the place past the next newline there is at most that newline.
LEMMA NewlinePassed ==
  ASSUME NEW c \in Seq(Byte), NEW p \in 0..Len(c)
  PROVE  /\ \A k \in (p + 1)..(PastNewline(c, p) - 1) : c[k] # "n"
         /\ \/ PastNewline(c, p) \in (p + 1)..Len(c) /\ c[PastNewline(c, p)] = "n"
            \/ PastNewline(c, p) = Len(c) /\ \A k \in (p + 1)..Len(c) : c[k] # "n"
  <1> DEFINE E == {i \in (p + 1)..Len(c) : c[i] = "n"}
  <1>1. Len(c) \in Nat /\ p \in Nat /\ E \subseteq Nat
    BY LenProperties
  <1>2. PastNewline(c, p) = IF E = {} THEN Len(c) ELSE Min(E)
    BY DEF PastNewline
  <1>3. CASE E = {}
    <2>1. PastNewline(c, p) = Len(c) /\ \A k \in (p + 1)..Len(c) : c[k] # "n"
      BY <1>2, <1>3
    <2> QED BY <1>1, <2>1
  <1>4. CASE E # {}
    <2>1. PICK m : m = Min(E)
      OBVIOUS
    <2>2. m \in E /\ \A y \in E : m <= y
      <3> HIDE DEF E
      <3> QED BY <1>1, <1>4, <2>1, MinIsLeast
    <2>3. m \in (p + 1)..Len(c) /\ c[m] = "n"
      BY <2>2
    <2>4. \A k \in (p + 1)..(m - 1) : c[k] # "n"
      <3>1. ASSUME NEW k \in (p + 1)..(m - 1) PROVE c[k] # "n"
        <4>1. k \in (p + 1)..Len(c) /\ ~(m <= k)
          BY <1>1, <2>3
        <4> QED BY <2>2, <4>1
      <3> QED BY <3>1
    <2>5. PastNewline(c, p) = m
      BY <1>2, <1>4, <2>1
    <2> QED BY <2>3, <2>4, <2>5
  <1> QED BY <1>3, <1>4

\* A line at which resync does not stop holds no start of a record.
LEMMA NoStartPassed ==
  ASSUME NEW c \in Seq(Byte), StartsLines(c), NEW p \in 1..Len(c), ~Stops(c, p)
  PROVE  NoStart(c, p, PastNewline(c, p))
  <1> DEFINE e == PastNewline(c, p)
             w == Sample(c, p)
  <1>1. /\ Len(c) \in Nat /\ p \in Nat /\ p >= 1 /\ p \in 0..Len(c)
        /\ MaxRecord \in Nat \ {0} /\ ResyncPeek \in Nat \ {0}
    BY LenProperties, FramingAssumption
  <1>2. e \in p..Len(c) /\ \A k \in (p + 1)..(e - 1) : c[k] # "n"
    BY <1>1, PastNewlineIs, NewlinePassed
  <1>3. SUFFICES ASSUME NEW q \in p..(e - 1), c[q + 1] = "s" PROVE FALSE
    BY DEF NoStart
  <1> HIDE DEF e
  <1>4. q \in Nat /\ p <= q /\ q + 1 <= Len(c)
    BY <1>1, <1>2
  <1>5. CASE q = p
    <2>1. /\ w \in Seq(Byte)
          /\ Len(w) = Shorter(Shorter(ResyncPeek, MaxRecord), Len(c) - p)
          /\ \A i \in 1..Len(w) : w[i] = c[p + i]
      BY <1>1, SampleIs
    <2>2. 1 \in 1..Len(w)
      <3> HIDE DEF w
      <3> QED BY <1>1, <1>4, <1>5, <2>1 DEF Shorter
    <2>3. w[1] = "s"
      BY <1>3, <1>5, <2>1, <2>2
    <2>4. FirstNonEmptyLine(w) \in 1..Len(w) /\ FirstNonEmptyLine(w) <= 1
      <3> HIDE DEF w
      <3>1. w[1] # "n"
        BY <2>3
      <3> QED BY <2>1, <2>2, <3>1, FirstLineIs
    <2>5. FirstNonEmptyLine(w) = 1
      <3> HIDE DEF w
      <3> QED BY <2>1, <2>4, LenProperties
    <2> QED BY <2>3, <2>5 DEF Stops, IsRecordStart
  <1>6. CASE q # p
    <2>1. q + 1 \in 2..Len(c) /\ q + 1 # 2 /\ (q + 1) - 1 = q /\ q \in (p + 1)..(e - 1)
      BY <1>1, <1>2, <1>4, <1>6
    <2>2. c[q] = "n"
      BY <1>3, <2>1 DEF StartsLines
    <2> QED BY <1>2, <2>1, <2>2
  <1> QED BY <1>5, <1>6

\* Where Seek lands, if it does not give up.
Lands(c, s, l) == l \in s..Len(c) /\ Stops(c, l) /\ NoStart(c, s, l)

\* The newlines passed on the way from one place to another.
Passed(c, s, p) == {i \in (s + 1)..p : c[i] = "n"}

\* Each line passed is one newline, but for the last.
LEMMA OneMorePassed ==
  ASSUME NEW c \in Seq(Byte), NEW s \in 0..Len(c), NEW p \in s..Len(c)
  PROVE  /\ IsFiniteSet(Passed(c, s, p)) /\ Cardinality(Passed(c, s, p)) \in Nat
         /\ \/ PastNewline(c, p) = Len(c)
            \/ Cardinality(Passed(c, s, PastNewline(c, p)))
                 = Cardinality(Passed(c, s, p)) + 1
  <1> DEFINE e == PastNewline(c, p)
             A == Passed(c, s, p)
             B == Passed(c, s, e)
  <1>1. Len(c) \in Nat /\ p \in Nat /\ s \in Nat /\ s <= p /\ p \in 0..Len(c) /\ s + 1 \in Int
    BY LenProperties
  <1>2. IsFiniteSet(A) /\ Cardinality(A) \in Nat
    <2>1. IsFiniteSet((s + 1)..p) /\ A \subseteq (s + 1)..p
      BY <1>1, FS_Interval DEF Passed
    <2> HIDE DEF A
    <2>2. IsFiniteSet(A)
      BY <2>1, FS_Subset
    <2> QED BY <2>2, FS_CardinalityType
  <1>3. \/ e = Len(c)
        \/ e \in (p + 1)..Len(c) /\ c[e] = "n" /\ \A k \in (p + 1)..(e - 1) : c[k] # "n"
    BY <1>1, NewlinePassed
  <1> HIDE DEF e
  <1>4. ASSUME e \in (p + 1)..Len(c), c[e] = "n", \A k \in (p + 1)..(e - 1) : c[k] # "n"
        PROVE  Cardinality(B) = Cardinality(A) + 1
    <2>1. e \in B /\ e \notin A /\ A \subseteq B
      BY <1>1, <1>4 DEF Passed
    <2>2. ASSUME NEW i \in B, i # e PROVE i \in A
      <3>1. i \in (s + 1)..e /\ c[i] = "n"
        BY <2>2 DEF Passed
      <3>2. i \notin (p + 1)..(e - 1)
        BY <1>4, <3>1
      <3>3. i \in (s + 1)..p
        BY <1>1, <1>4, <2>2, <3>1, <3>2
      <3> QED BY <3>1, <3>3 DEF Passed
    <2> HIDE DEF A, B
    <2>3. B = A \cup {e} /\ e \notin A
      BY <2>1, <2>2
    <2> QED BY <1>2, <2>3, FS_AddElement
  <1> QED BY <1>2, <1>3, <1>4 DEF e

(***************************************************************************)
(* Unless there are more lines in a row without a start of a record than   *)
(* resync passes over, it does not give up: it lands where it stops,       *)
(* having passed over no start of a record.                                *)
(***************************************************************************)
LEMMA LandingLands ==
  ASSUME NEW c \in Seq(Byte), StartsLines(c), ~GivesUp(c), NEW s \in 1..Len(c)
  PROVE  Lands(c, s, Landing(c, s))
  <1> DEFINE M == MaxResyncLines
             Count(p) == Cardinality(Passed(c, s, p))
             Ready(p, k) == NoStart(c, s, p) /\ (p = Len(c) \/ Count(p) = M - k)
             Good(h, k) == \A p \in s..Len(c) : Ready(p, k) => Lands(c, s, h[k][p])
  <1>1. Len(c) \in Nat /\ s \in Nat /\ s >= 1 /\ s \in 0..Len(c) /\ M \in Nat \ {0}
    BY LenProperties, FramingAssumption
  <1>2. PICK h : Solves(h, c, s, M) /\ Landing(c, s) = h[M][s]
    BY <1>1, LandingIs
  <1>3. \A k \in 0..M, p \in s..Len(c) :
          h[k][p] = IF k = 0 \/ Stops(c, p) THEN p ELSE h[k - 1][PastNewline(c, p)]
    BY <1>2 DEF Solves
  <1>4. \A p \in s..Len(c) : p \in 0..Len(c) /\ p \in 1..Len(c) /\ p \in Nat /\ Count(p) \in Nat
    <2>1. ASSUME NEW p \in s..Len(c) PROVE Count(p) \in Nat
      BY <1>1, OneMorePassed
    <2> HIDE DEF Count
    <2> QED BY <1>1, <2>1
  <1>5. Good(h, 0)
    <2> SUFFICES ASSUME NEW p \in s..Len(c), NoStart(c, s, p), p = Len(c) \/ Count(p) = M - 0
                 PROVE  Lands(c, s, h[0][p])
      OBVIOUS
    <2>1. h[0][p] = p
      BY <1>1, <1>3
    <2>2. p = Len(c)
      <3>1. ~(Count(p) >= M)
        BY <1>1, <1>4 DEF GivesUp, NoStart, Passed
      <3>2. M - 0 = M /\ M >= M
        BY <1>1
      <3> QED BY <3>1, <3>2
    <2> QED BY <2>1, <2>2, StopsAtEnd DEF Lands
  <1>6. ASSUME NEW k \in 1..M, Good(h, k - 1)
        PROVE  Good(h, k)
    <2> SUFFICES ASSUME NEW p \in s..Len(c), NoStart(c, s, p), p = Len(c) \/ Count(p) = M - k
                 PROVE  Lands(c, s, h[k][p])
      OBVIOUS
    <2> DEFINE e == PastNewline(c, p)
    <2>1. k \in 0..M /\ k # 0 /\ k \in Nat /\ (M - k) + 1 = M - (k - 1)
      BY <1>1
    <2>2. CASE Stops(c, p)
      <3>1. h[k][p] = p
        BY <1>3, <2>1, <2>2
      <3> QED BY <2>2, <3>1 DEF Lands
    <2>3. CASE ~Stops(c, p)
      <3>1. h[k][p] = h[k - 1][e]
        BY <1>3, <2>1, <2>3
      <3>2. e \in p..Len(c) /\ NoStart(c, p, e)
        BY <1>4, <2>3, PastNewlineIs, NoStartPassed
      <3>3. p # Len(c)
        BY <2>3, StopsAtEnd
      <3>4. e = Len(c) \/ Count(e) = Count(p) + 1
        BY <1>1, OneMorePassed
      <3> HIDE DEF e, Count
      <3>5. e \in s..Len(c) /\ p \in Nat /\ e \in Nat
        BY <1>1, <1>4, <3>2
      <3>6. NoStart(c, s, e)
        <4>1. \A q \in s..(e - 1) : q \in s..(p - 1) \/ q \in p..(e - 1)
          BY <1>1, <3>5
        <4> QED BY <3>2, <4>1 DEF NoStart
      <3>7. Ready(e, k - 1)
        BY <2>1, <3>3, <3>4, <3>6
      <3> HIDE DEF Ready
      <3> QED BY <1>6, <3>1, <3>5, <3>7
    <2> QED BY <2>2, <2>3
  <1> DEFINE Bad == {k \in 0..M : ~Good(h, k)}
  <1>7. Bad = {}
    <2>1. SUFFICES ASSUME Bad # {} PROVE FALSE
      OBVIOUS
    <2>2. Bad \subseteq Nat
      BY <1>1
    <2>3. PICK k \in Bad : \A y \in Bad : k <= y
      <3> HIDE DEF Bad
      <3> QED BY <2>1, <2>2, MinIsLeast
    <2> HIDE DEF Good
    <2>4. k \in 0..M /\ ~Good(h, k)
      BY <2>3
    <2>5. k # 0
      BY <1>5, <2>4
    <2>6. k \in 1..M /\ k - 1 \in 0..M /\ ~(k <= k - 1)
      BY <1>1, <2>4, <2>5
    <2>7. Good(h, k - 1)
      BY <2>3, <2>6
    <2> QED BY <1>6, <2>4, <2>6, <2>7
  <1>8. Good(h, M)
    <2> HIDE DEF Good
    <2> QED BY <1>1, <1>7
  <1>9. NoStart(c, s, s) /\ s \in s..Len(c) /\ Count(s) = M - M
    <2>1. Passed(c, s, s) = {}
      BY <1>1 DEF Passed
    <2>2. Count(s) = 0
      BY <2>1, FS_EmptySet
    <2> QED BY <1>1, <2>2 DEF NoStart
  <1> QED BY <1>2, <1>8, <1>9

\* Where Seek lands, or gives up, is in the input.
LEMMA LandingIsInside ==
  ASSUME NEW c \in Seq(Byte), NEW s \in 0..Len(c)
  PROVE  Landing(c, s) \in s..Len(c)
  <1> DEFINE M == MaxResyncLines
             Good(h, k) == \A p \in s..Len(c) : h[k][p] \in s..Len(c)
  <1>1. Len(c) \in Nat /\ s \in Nat /\ M \in Nat \ {0}
    BY LenProperties, FramingAssumption
  <1>2. PICK h : Solves(h, c, s, M) /\ Landing(c, s) = h[M][s]
    BY LandingIs
  <1>3. \A k \in 0..M, p \in s..Len(c) :
          h[k][p] = IF k = 0 \/ Stops(c, p) THEN p ELSE h[k - 1][PastNewline(c, p)]
    BY <1>2 DEF Solves
  <1>4. ASSUME NEW k \in 0..M, k = 0 \/ Good(h, k - 1)
        PROVE  Good(h, k)
    <2> SUFFICES ASSUME NEW p \in s..Len(c) PROVE h[k][p] \in s..Len(c)
      OBVIOUS
    <2>1. PastNewline(c, p) \in p..Len(c)
      BY <1>1, PastNewlineIs
    <2>2. PastNewline(c, p) \in s..Len(c)
      BY <1>1, <2>1
    <2> QED BY <1>3, <1>4, <2>2
  <1> DEFINE Bad == {k \in 0..M : ~Good(h, k)}
  <1>5. Bad = {}
    <2>1. SUFFICES ASSUME Bad # {} PROVE FALSE
      OBVIOUS
    <2>2. Bad \subseteq Nat
      BY <1>1
    <2>3. PICK k \in Bad : \A y \in Bad : k <= y
      <3> HIDE DEF Bad
      <3> QED BY <2>1, <2>2, MinIsLeast
    <2> HIDE DEF Good
    <2>4. k \in 0..M /\ ~Good(h, k)
      BY <2>3
    <2>5. k = 0 \/ (k - 1 \in 0..M /\ ~(k <= k - 1))
      BY <1>1, <2>4
    <2>6. k = 0 \/ Good(h, k - 1)
      BY <2>3, <2>5
    <2> QED BY <1>4, <2>4, <2>6
  <1>6. Good(h, M) /\ s \in s..Len(c)
    <2> HIDE DEF Good
    <2> QED BY <1>1, <1>5
  <1> QED BY <1>2, <1>6

\* The records found from a position on are at positions, one after another.
LEMMA RecordsAre ==
  ASSUME NEW f, NEW c \in Seq(Byte), NEW t, NEW s \in 0..Len(c)
  PROVE  /\ RecordOffsets(f, c, s, t) \subseteq Nat
         /\ \A o \in RecordOffsets(f, c, s, t) :
              /\ s <= o /\ o < Len(c) /\ o \in Positions(f, c, s, t)
              /\ NextPosition(f, c, o, t) \in (o + 1)..Len(c)
              /\ NextPosition(f, c, o, t) \in Positions(f, c, s, t)
              /\ \A x \in RecordOffsets(f, c, s, t) :
                   x <= o \/ x >= NextPosition(f, c, o, t)
  <1> DEFINE P == Positions(f, c, s, t)
             R == RecordOffsets(f, c, s, t)
  <1>1. IsPath(f, c, t, s, P)
    BY PositionsArePath
  <1>2. R \subseteq P /\ \A o \in R : o < Len(c)
    BY DEF RecordOffsets
  <1> HIDE DEF P, R
  <1>3. P \subseteq Nat /\ P \subseteq 0..Len(c) /\ \A q \in P : s <= q
    BY <1>1, PathIsNumbers
  <1>4. ASSUME NEW o \in R
        PROVE  /\ NextPosition(f, c, o, t) \in (o + 1)..Len(c)
               /\ NextPosition(f, c, o, t) \in P
               /\ \A x \in P : x <= o \/ x >= NextPosition(f, c, o, t)
    <2>1. o \in P /\ o \in 0..Len(c) /\ o < Len(c)
      BY <1>2, <1>3
    <2> QED BY <1>1, <2>1, NextPositionIs DEF IsPath
  <1> QED BY <1>2, <1>3, <1>4 DEF P, R

\* From a position on there are the records of the whole that are left.
LEMMA TailOfPath ==
  ASSUME NEW f, NEW c \in Seq(Byte), NEW t, NEW s \in 0..Len(c),
         NEW p \in Positions(f, c, s, t)
  PROVE  RecordOffsets(f, c, p, t) = {o \in RecordOffsets(f, c, s, t) : o >= p}
  <1> DEFINE P == Positions(f, c, s, t)
             R == Positions(f, c, p, t)
             IsOne(o) == /\ o < Len(c) /\ TokenAt(f, c, o, t) # <<>>
                         /\ IsRecord(f, TokenAt(f, c, o, t))
  <1>1. /\ RecordOffsets(f, c, p, t) = {o \in R : IsOne(o)}
        /\ RecordOffsets(f, c, s, t) = {o \in P : IsOne(o)}
    BY DEF RecordOffsets
  <1>2. IsPath(f, c, t, s, P)
    BY PositionsArePath
  <1> HIDE DEF P
  <1>3. p \in P /\ P \subseteq 0..Len(c) /\ P \subseteq Nat
    BY <1>2, PathIsNumbers DEF P
  <1>4. p \in 0..Len(c)
    BY <1>3
  <1>5. IsPath(f, c, t, p, R)
    BY <1>4, PositionsArePath
  <1> HIDE DEF R, IsOne
  <1>6. p \in R /\ R \subseteq Nat /\ \A q \in R : p <= q
    BY <1>4, <1>5, PathIsNumbers
  <1>7. \A o \in R : o \in P /\ o >= p
    <2>1. \A o \in R : o >= p
      BY <1>3, <1>6
    <2>2. \A o \in R : o >= p => o \in P
      BY <1>2, <1>3, <1>4, <1>5, <1>6, GoOnTogether
    <2> QED BY <2>1, <2>2
  <1>8. \A o \in P : o >= p => o \in R
    BY <1>2, <1>3, <1>4, <1>5, <1>6, GoOnTogether
  <1> QED BY <1>1, <1>7, <1>8
=============================================================================
