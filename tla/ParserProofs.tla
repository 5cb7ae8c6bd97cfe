---------------------------- MODULE ParserProofs ----------------------------
(***************************************************************************)
(* Proofs about the parser, for inputs of any length, any buffer and       *)
(* record sizes and any way the source has of answering.                   *)
(***************************************************************************)
EXTENDS Parser, FramingProofs

-----------------------------------------------------------------------------
(***************************************************************************)
(* The inductive strengthening of the type invariant: the source's error   *)
(* is met at its last byte, the end of the stream is only declared when    *)
(* the window has room left, and the window is the piece of the stream     *)
(* that begins at consumed.                                                *)
(***************************************************************************)
SourceShape ==
  /\ content \in Seq(Byte) /\ actual \in Formats /\ ending \in {"EOF", "broken"}
  /\ consumed \in Nat /\ lines \in Nat /\ truncated \in Nat /\ malformed \in Nat
  /\ sought \in Nat /\ origin \in Nat
  /\ err \in {"EOF", "broken"} => pos = Len(content)
  /\ err = "noprogress" => atEOF
  /\ atEOF => err # "none" /\ Have < MaxRecord
  /\ pc = "ended" => bomChecked

Mirror ==
  /\ consumed + Have = pos
  /\ \A i \in 1..Have : data[r + i] = content[consumed + i]

BufInv == TypeOK /\ SourceShape /\ Mirror

\* The window, as a sequence of its own.
LEMMA WindowIs ==
  ASSUME BufInv
  PROVE  /\ Have \in Nat /\ Have <= MaxRecord /\ Len(Window) = Have
         /\ Window \in Seq(Byte)
         /\ \A i \in 1..Have : Window[i] = data[r + i] /\ Window[i] = content[consumed + i]
         /\ Window = SubSeq(content, consumed + 1, pos)
         /\ Window = <<>> <=> Have = 0
  <1>1. /\ data \in Seq(Byte) /\ content \in Seq(Byte)
        /\ r \in 0..Len(data) /\ Len(data) \in Nat /\ Len(content) \in Nat
        /\ consumed \in Nat /\ pos \in 0..Len(content) /\ Len(data) <= cap
        /\ cap \in InitialBuffer..MaxRecord
        /\ consumed + (Len(data) - r) = pos
        /\ \A i \in 1..(Len(data) - r) : data[r + i] = content[consumed + i]
    BY LenProperties DEF BufInv, TypeOK, SourceShape, Mirror, Have, Byte
  <1>2. /\ InitialBuffer \in Nat /\ MaxRecord \in Nat
    BY ParserAssumption, FramingAssumption
  <1> DEFINE n == Len(data) - r
  <1>3. /\ n \in Nat /\ n <= MaxRecord /\ r + n = Len(data) /\ r \in Nat
        /\ consumed + n = pos /\ r + n <= Len(data) /\ consumed + n <= Len(content)
    BY <1>1, <1>2
  <1>4. n = Have /\ Window = SubSeq(data, r + 1, r + n)
    BY <1>3 DEF Have, Window
  <1> HIDE DEF n
  <1>5. /\ SubSeq(data, r + 1, r + n) \in Seq(Byte)
        /\ Len(SubSeq(data, r + 1, r + n)) = n
        /\ \A i \in 1..n : SubSeq(data, r + 1, r + n)[i] = data[r + i]
    BY <1>1, <1>3, Slice
  <1>6. \A i \in 1..n : data[r + i] = content[consumed + i]
    BY <1>1 DEF n
  <1>7. SubSeq(data, r + 1, r + n) = SubSeq(content, consumed + 1, consumed + n)
    BY <1>1, <1>3, <1>6, SameSlice, SMTT(30)
  <1>8. Window = <<>> <=> n = 0
    BY <1>4, <1>5, EmptySeq
  <1> QED BY <1>3, <1>4, <1>5, <1>6, <1>7, <1>8

\* Nothing has been read when the parser is made.
LEMMA BufInit == Init => BufInv
  <1> SUFFICES ASSUME Init PROVE BufInv
    OBVIOUS
  <1>1. actual \in Formats /\ content \in Seq(Byte) /\ ending \in {"EOF", "broken"}
    <2>1. actual \in Formats /\ ending \in {"EOF", "broken"}
      BY ParserAssumption DEF Init
    <2> QED BY <2>1, InputsAreBytes DEF Init
  <1>2. Len(content) \in Nat /\ Len(data) = 0 /\ data \in Seq(Byte)
    BY <1>1, LenProperties, EmptySeq DEF Init
  <1>3. InitialBuffer \in 1..MaxRecord /\ MaxRecord \in Nat \ {0}
    BY ParserAssumption, FramingAssumption
  <1>4. format \in Formats \cup {"auto"}
    BY <1>1 DEF Init
  <1>5. Have = 0
    BY <1>2 DEF Init, Have
  <1>6. TypeOK
    <2>1. /\ pos \in 0..Len(content) /\ r \in 0..Len(data)
          /\ cap \in InitialBuffer..MaxRecord /\ Len(data) <= cap
      BY <1>2, <1>3 DEF Init
    <2>2. data \in Seq({"n", "q", "s", "d", "x", "b"})
      BY <1>2 DEF Byte
    <2> QED BY <1>4, <2>1, <2>2 DEF Init, TypeOK
  <1>7. SourceShape
    BY <1>1, <1>5 DEF Init, SourceShape
  <1>8. Mirror
    BY <1>5 DEF Init, Mirror
  <1> QED BY <1>6, <1>7, <1>8 DEF BufInv

\* advance leaves the rest of the window where it was.
LEMMA Advanced ==
  ASSUME BufInv, NEW n \in 0..Have, Advance(n), UNCHANGED <<content, pos, data>>
  PROVE  /\ r' \in 0..Len(data') /\ consumed' \in Nat
         /\ Have' = Have - n /\ Mirror'
  <1>1. /\ data \in Seq(Byte) /\ Len(data) \in Nat
        /\ r \in 0..Len(data) /\ consumed \in Nat
    BY LenProperties DEF BufInv, TypeOK, SourceShape, Byte
  <1>2. /\ consumed + (Len(data) - r) = pos
        /\ \A i \in 1..(Len(data) - r) : data[r + i] = content[consumed + i]
    BY DEF BufInv, Mirror, Have
  <1>3. n \in 0..(Len(data) - r) /\ r' = r + n /\ consumed' = consumed + n
    BY DEF Advance, Have
  <1>4. /\ r' \in 0..Len(data') /\ consumed' \in Nat
        /\ Have' = Have - n /\ consumed' + Have' = pos'
    BY <1>1, <1>2, <1>3 DEF Have
  <1>5. ASSUME NEW i \in 1..(Len(data) - (r + n))
        PROVE  data[(r + n) + i] = content[(consumed + n) + i]
    <2>1. /\ n + i \in 1..(Len(data) - r)
          /\ r + (n + i) = (r + n) + i /\ consumed + (n + i) = (consumed + n) + i
      BY <1>1, <1>3
    <2> QED BY <2>1, <1>2
  <1>6. Mirror'
    BY <1>3, <1>4, <1>5 DEF Mirror, Have
  <1> QED BY <1>4, <1>6

\* The first newline of the window is in it.
LEMMA PastLineInWindow ==
  ASSUME BufInv, NewlinesIn(Window) # {}
  PROVE  PastLine(Window) \in 1..Have
  <1>1. Len(Window) = Have /\ Have \in Nat
    BY WindowIs
  <1>2. NewlinesIn(Window) \subseteq 1..Have /\ NewlinesIn(Window) \subseteq Nat
    BY <1>1 DEF NewlinesIn
  <1> QED BY <1>2, MinIsLeast DEF PastLine

\* A cut takes at least a byte of the window and the record is part of it.
LEMMA TheCutIsCut ==
  ASSUME BufInv
  PROVE  /\ TheCut.advance \in 0..Have /\ TheCut.token \in 0..TheCut.advance
         /\ TheCut.advance > 0 <=> TheCut # NeedMore
         /\ atEOF /\ Have > 0 => TheCut.advance > 0
  <1>1. /\ Len(Window) = Have /\ Have \in Nat /\ Window \in Seq(Byte)
        /\ Window = <<>> <=> Have = 0
    BY WindowIs
  <1>2. atEOF \in BOOLEAN
    BY DEF BufInv, TypeOK
  <1>3. IsCut(TheCut, Window) /\ (atEOF /\ Window # <<>> => TheCut # NeedMore)
    BY <1>1, <1>2, SplitIsCut DEF TheCut
  <1>4. CASE TheCut = NeedMore
    BY <1>1, <1>3, <1>4 DEF NeedMore
  <1>5. CASE TheCut # NeedMore
    <2>1. PICK a \in 1..Have, t \in 0..Have : t <= a /\ TheCut = Cut(a, t)
      BY <1>1, <1>3, <1>5 DEF IsCut
    <2>2. TheCut.advance = a /\ TheCut.token = t
      BY <2>1 DEF Cut
    <2> QED BY <1>1, <1>5, <2>1, <2>2
  <1> QED BY <1>4, <1>5

\* Every call keeps the window a copy of the stream.
LEMMA BufStep == BufInv /\ [Next]_vars => BufInv'
  <1> SUFFICES ASSUME BufInv, [Next]_vars PROVE BufInv'
    OBVIOUS
  <1>0. /\ TypeOK /\ SourceShape /\ Mirror
        /\ Have \in Nat /\ Have <= MaxRecord
        /\ InitialBuffer \in 1..MaxRecord /\ MaxRecord \in Nat \ {0}
        /\ Len(content) \in Nat /\ Len(data) \in Nat
    BY WindowIs, LenProperties, ParserAssumption, FramingAssumption
    DEF BufInv, TypeOK, SourceShape
  <1>1. ASSUME CheckBOM PROVE BufInv'
    <2>1. /\ UNCHANGED <<content, actual, ending, pos, data, cap, err, atEOF, skipping>>
          /\ UNCHANGED <<format, perr, truncated, malformed, pc, lines, sought, origin>>
          /\ bomChecked' = TRUE
      BY <1>1 DEF CheckBOM, source, stats
    <2>2. \/ Have > 0 /\ Advance(1)
          \/ UNCHANGED <<r, consumed>>
      BY <1>1 DEF CheckBOM
    <2>3. /\ r' \in 0..Len(data') /\ consumed' \in Nat
          /\ Have' <= Have /\ Mirror'
      <3>1. CASE Have > 0 /\ Advance(1)
        <4>1. 1 \in 0..Have
          BY <1>0, <3>1
        <4> QED BY <1>0, <2>1, <3>1, <4>1, Advanced
      <3>2. CASE UNCHANGED <<r, consumed>>
        <4>1. Have' = Have
          BY <2>1, <3>2 DEF Have
        <4>2. Mirror'
          BY <1>0, <2>1, <3>2, <4>1 DEF Mirror
        <4>3. r \in 0..Len(data) /\ consumed \in Nat
          BY <1>0 DEF TypeOK, SourceShape
        <4> QED BY <1>0, <2>1, <3>2, <4>1, <4>2, <4>3
      <3> QED BY <2>2, <3>1, <3>2
    <2>4. TypeOK'
      BY <1>0, <2>1, <2>3 DEF TypeOK
    <2>5. Have' \in Int
      BY <1>0, <2>1, <2>3 DEF Have
    <2>6. SourceShape'
      BY <1>0, <2>1, <2>3, <2>5 DEF SourceShape
    <2> QED BY <2>3, <2>4, <2>6 DEF BufInv
  <1>2. ASSUME FillRead PROVE BufInv'
    <2> DEFINE kept == Slid(data, r)
               room == IF Len(kept) = cap THEN GrownCap(cap) ELSE cap
               left == Len(content) - pos
    <2>1. /\ UNCHANGED <<content, actual, ending, consumed, skipping, bomChecked>>
          /\ UNCHANGED <<format, perr, truncated, malformed, pc, lines, sought, origin>>
          /\ r' = 0 /\ cap' = room /\ Len(kept) < room /\ ~atEOF /\ err = "none"
      BY <1>2 DEF FillRead, NeedsData, source, stats
    <2>2. /\ kept = Window /\ kept \in Seq(Byte) /\ Len(kept) = Have
          /\ \A i \in 1..Have : kept[i] = content[consumed + i]
      BY <1>0, WindowIs DEF Window, Slid
    <2>3. room \in InitialBuffer..MaxRecord
      <3>1. cap \in InitialBuffer..MaxRecord /\ cap \in Nat
        BY <1>0 DEF TypeOK
      <3>2. GrownCap(cap) \in InitialBuffer..MaxRecord
        BY <1>0, <3>1 DEF GrownCap, Shorter
      <3> QED BY <3>1, <3>2
    <2>4. \/ \E n \in ReadSizes :
               /\ n <= left /\ n <= room - Len(kept)
               /\ data' = kept \o SubSeq(content, pos + 1, pos + n)
               /\ pos' = pos + n
               /\ err' \in {"none"} \cup (IF n = left THEN {ending} ELSE {})
               /\ UNCHANGED atEOF
          \/ /\ data' = kept /\ pos' = pos /\ atEOF' = TRUE
             /\ (left = 0 /\ err' = ending) \/ err' = "noprogress"
      BY <1>2 DEF FillRead
    <2>5. consumed \in Nat /\ pos \in Nat /\ consumed + Have = pos
      BY <1>0 DEF TypeOK, SourceShape, Mirror
    <2> HIDE DEF kept, room
    <2>6. CASE \E n \in ReadSizes :
                 /\ n <= left /\ n <= room - Len(kept)
                 /\ data' = kept \o SubSeq(content, pos + 1, pos + n)
                 /\ pos' = pos + n
                 /\ err' \in {"none"} \cup (IF n = left THEN {ending} ELSE {})
                 /\ UNCHANGED atEOF
      <3>1. PICK n \in ReadSizes :
              /\ n <= left /\ n <= room - Len(kept)
              /\ data' = kept \o SubSeq(content, pos + 1, pos + n)
              /\ pos' = pos + n
              /\ err' \in {"none"} \cup (IF n = left THEN {ending} ELSE {})
              /\ UNCHANGED atEOF
        BY <2>6
      <3>2. n \in Nat \ {0} /\ n <= left /\ pos + n <= Len(content)
        BY <1>0, <2>5, <3>1, ParserAssumption
      <3> DEFINE got == SubSeq(content, pos + 1, pos + n)
      <3>3. /\ got \in Seq(Byte) /\ Len(got) = n
            /\ \A i \in 1..n : got[i] = content[pos + i]
        BY <1>0, <2>5, <3>2, Slice DEF SourceShape
      <3>4. data' = kept \o got
        BY <3>1
      <3> HIDE DEF got, left
      <3>5. /\ data' \in Seq(Byte) /\ Len(data') = Have + n
            /\ \A i \in 1..(Have + n) :
                 data'[i] = IF i <= Have THEN kept[i] ELSE got[i - Have]
        BY <2>2, <3>3, <3>4, ConcatProperties
      <3>6. Have' = Have + n
        BY <1>0, <2>1, <3>2, <3>5 DEF Have
      <3>7. Mirror'
        <4>1. consumed' + Have' = pos'
          BY <1>0, <2>1, <2>5, <3>1, <3>2, <3>6
        <4>2. ASSUME NEW i \in 1..(Have + n)
              PROVE  data'[0 + i] = content[consumed + i]
          <5>1. CASE i <= Have
            <6>1. i \in 1..Have /\ 0 + i = i
              BY <1>0, <5>1
            <6> QED BY <2>2, <3>5, <5>1, <6>1
          <5>2. CASE ~(i <= Have)
            <6>1. i - Have \in 1..n /\ 0 + i = i /\ pos + (i - Have) = consumed + i
              BY <1>0, <2>5, <3>2, <5>2
            <6> QED BY <3>3, <3>5, <5>2, <6>1
          <5> QED BY <5>1, <5>2
        <4> QED BY <2>1, <3>6, <4>1, <4>2 DEF Mirror
      <3>8. TypeOK'
        <4>1. /\ pos' \in 0..Len(content') /\ r' \in 0..Len(data')
              /\ cap' \in InitialBuffer..MaxRecord /\ Len(data') <= cap'
          <5>1. room \in Nat /\ n <= room - Have /\ pos' = pos + n
            BY <1>0, <2>2, <2>3, <3>1
          <5>2. Have + n \in Nat /\ Have + n <= room /\ pos + n \in 0..Len(content)
            BY <1>0, <2>5, <3>2, <5>1
          <5>3. Len(data') \in Nat /\ Len(data') <= cap' /\ pos' \in 0..Len(content')
            BY <2>1, <3>5, <5>1, <5>2
          <5> QED BY <2>1, <2>3, <5>3
        <4>2. err' \in {"none", "EOF", "broken", "noprogress"}
          BY <1>0, <3>1 DEF SourceShape
        <4>3. data' \in Seq({"n", "q", "s", "d", "x", "b"})
          BY <3>5 DEF Byte
        <4>4. atEOF' = FALSE
          BY <2>1, <3>1
        <4> QED BY <1>0, <2>1, <4>1, <4>2, <4>3, <4>4 DEF TypeOK
      <3>9. SourceShape'
        <4>1. err' # "none" => n = left
          BY <3>1
        <4>2. err' # "none" => pos' = Len(content')
          BY <1>0, <2>1, <2>5, <3>1, <3>2, <4>1 DEF left
        <4>3. err' # "noprogress"
          BY <1>0, <3>1 DEF SourceShape
        <4>4. atEOF' = FALSE
          BY <2>1, <3>1
        <4> QED BY <1>0, <2>1, <4>2, <4>3, <4>4 DEF SourceShape
      <3> QED BY <3>7, <3>8, <3>9 DEF BufInv
    <2>7. CASE /\ data' = kept /\ pos' = pos /\ atEOF' = TRUE
               /\ (left = 0 /\ err' = ending) \/ err' = "noprogress"
      <3>1. Have' = Have
        BY <1>0, <2>1, <2>2, <2>7 DEF Have
      <3>2. Mirror'
        <4>1. \A i \in 1..Have : 0 + i = i
          BY <1>0
        <4> QED BY <1>0, <2>1, <2>2, <2>5, <2>7, <3>1, <4>1 DEF Mirror
      <3>3. TypeOK'
        <4>1. /\ pos' \in 0..Len(content') /\ r' \in 0..Len(data')
              /\ cap' \in InitialBuffer..MaxRecord /\ Len(data') <= cap'
          BY <1>0, <2>1, <2>2, <2>3, <2>7 DEF TypeOK
        <4>2. err' \in {"none", "EOF", "broken", "noprogress"}
          BY <1>0, <2>7 DEF SourceShape
        <4>3. data' \in Seq({"n", "q", "s", "d", "x", "b"})
          BY <2>2, <2>7 DEF Byte
        <4> QED BY <1>0, <2>1, <2>7, <4>1, <4>2, <4>3 DEF TypeOK
      <3>4. SourceShape'
        <4>1. Have < MaxRecord
          BY <1>0, <2>1, <2>2, <2>3
        <4>2. err' # "none" /\ (err' \in {"EOF", "broken"} => left = 0)
          BY <1>0, <2>7 DEF SourceShape
        <4>3. left = 0 => pos' = Len(content')
          BY <1>0, <2>1, <2>5, <2>7 DEF left
        <4> HIDE DEF left
        <4> QED BY <1>0, <2>1, <2>7, <3>1, <4>1, <4>2, <4>3 DEF SourceShape
      <3> QED BY <3>2, <3>3, <3>4 DEF BufInv
    <2> HIDE DEF left
    <2> QED BY <2>4, <2>6, <2>7
  <1>3. ASSUME FillEnded PROVE BufInv'
    <2>1. /\ UNCHANGED <<content, actual, ending, pos, data, r, cap, consumed, err>>
          /\ UNCHANGED <<skipping, bomChecked, format, perr, truncated, malformed>>
          /\ UNCHANGED <<pc, lines, sought, origin>>
          /\ ~atEOF /\ err # "none" /\ atEOF' = TRUE
      BY <1>3 DEF FillEnded, NeedsData, source, stats
    <2>2. Have < MaxRecord
      <3>1. FormatPeek \in Nat /\ ResyncPeek \in Nat
        BY ParserAssumption, FramingAssumption
      <3>2. Have = 0 \/ ~Peeked(FormatPeek) \/ ~Peeked(ResyncPeek) \/ ~TooLong
        BY <1>3 DEF FillEnded, NeedsData
      <3> QED BY <1>0, <3>1, <3>2 DEF Peeked, Shorter, TooLong
    <2>3. TypeOK'
      BY <1>0, <2>1 DEF TypeOK
    <2>4. SourceShape'
      BY <1>0, <2>1, <2>2 DEF SourceShape, Have
    <2>5. Mirror'
      BY <1>0, <2>1 DEF Mirror, Have
    <2> QED BY <2>3, <2>4, <2>5 DEF BufInv
  <1>4. ASSUME NEW n \in 0..Have, Advance(n),
               UNCHANGED <<source, pos, data, cap, err, atEOF, bomChecked, format,
                           perr, sought, origin>>,
               skipping' \in BOOLEAN, truncated' \in Nat, malformed' \in Nat,
               lines' = lines, pc' \in Busy \cup {"idle"}
        PROVE  BufInv'
    <2>1. /\ UNCHANGED <<content, actual, ending, pos, data, cap, err, atEOF>>
          /\ UNCHANGED <<bomChecked, format, perr, lines, sought, origin>>
      BY <1>4 DEF source
    <2>2. /\ r' \in 0..Len(data') /\ consumed' \in Nat
          /\ Have' = Have - n /\ Mirror'
      BY <1>4, <2>1, Advanced
    <2>3. Have' <= Have /\ Have' \in Int
      BY <1>0, <2>2
    <2>4. TypeOK'
      BY <1>0, <1>4, <2>1, <2>2 DEF TypeOK
    <2>5. pc' # "ended"
      BY <1>4 DEF Busy
    <2>6. SourceShape'
      BY <1>0, <1>4, <2>1, <2>2, <2>3, <2>5 DEF SourceShape
    <2> QED BY <2>2, <2>4, <2>6 DEF BufInv
  <1>5. ASSUME UNCHANGED <<source, pos, buf, stats, sought>>,
               format' \in Formats \cup {"auto"},
               perr' \in {"none", "broken", "noprogress"},
               pc' \in Busy \cup {"idle", "ended"}, pc' = "ended" => bomChecked,
               lines' \in Nat, origin' \in Nat
        PROVE  BufInv'
    <2>1. /\ UNCHANGED <<content, actual, ending, pos, data, r, cap, consumed, err>>
          /\ UNCHANGED <<atEOF, skipping, bomChecked, truncated, malformed, sought>>
      BY <1>5 DEF source, buf, stats
    <2>2. TypeOK'
      BY <1>0, <1>5, <2>1 DEF TypeOK
    <2>3. SourceShape'
      BY <1>0, <1>5, <2>1 DEF SourceShape, Have
    <2>4. Mirror'
      BY <1>0, <2>1 DEF Mirror, Have
    <2> QED BY <2>2, <2>3, <2>4 DEF BufInv
  <1>6. /\ format \in Formats \cup {"auto"} /\ perr \in {"none", "broken", "noprogress"}
        /\ pc \in Busy \cup {"idle", "ended"} /\ (pc = "ended" => bomChecked)
        /\ lines \in Nat /\ origin \in Nat /\ consumed \in Nat
        /\ truncated \in Nat /\ malformed \in Nat /\ skipping \in BOOLEAN
    BY <1>0 DEF TypeOK, SourceShape
  <1>7. ASSUME Skip PROVE BufInv'
    <2>1. Have \in 0..Have
      BY <1>0
    <2>2. pc = "read" /\ pc' = pc /\ truncated' \in Nat
      BY <1>6, <1>7 DEF Skip, Reading
    <2> QED BY <1>4, <1>6, <1>7, <2>1, <2>2 DEF Skip, Busy
  <1>8. ASSUME Discard PROVE BufInv'
    <2>1. PastLine(Window) \in 0..Have
      BY <1>0, <1>8, PastLineInWindow DEF Discard
    <2>2. pc' \in Busy
      BY <1>8 DEF Discard, Dropping, Busy
    <2> QED BY <1>4, <1>6, <1>8, <2>1, <2>2 DEF Discard, stats
  <1>9. ASSUME DiscardAll PROVE BufInv'
    <2>1. Have \in 0..Have
      BY <1>0
    <2>2. pc' \in Busy
      BY <1>9 DEF DiscardAll, Dropping, Busy
    <2> QED BY <1>4, <1>6, <1>9, <2>1, <2>2 DEF DiscardAll, stats
  <1>10. ASSUME CutRecord PROVE BufInv'
    <2>1. TheCut.advance \in 0..Have
      BY TheCutIsCut
    <2>2. pc' \in Busy \cup {"idle"} /\ malformed' \in Nat
      BY <1>6, <1>10 DEF CutRecord, Reading, Busy
    <2> QED BY <1>4, <1>6, <1>10, <2>1, <2>2 DEF CutRecord
  <1>11. ASSUME NextCall PROVE BufInv'
    BY <1>5, <1>6, <1>11 DEF NextCall, Busy
  <1>12. ASSUME EnsureFormat PROVE BufInv'
    <2>1. format' \in Formats \cup {"auto"}
      BY <1>0, <1>6, <1>12 DEF EnsureFormat, ClassifyLine, SourceShape, Formats
    <2>2. pc' \in Busy \cup {"idle", "ended"} /\ bomChecked /\ origin' \in Nat
      BY <1>6, <1>12 DEF EnsureFormat, Busy
    <2> QED BY <1>5, <1>6, <1>12, <2>1, <2>2 DEF EnsureFormat
  <1>13. ASSUME EndOfInput PROVE BufInv'
    <2>1. perr' \in {"none", "broken", "noprogress"}
      BY <1>0, <1>13 DEF EndOfInput, FinalError, TypeOK
    <2> QED BY <1>5, <1>6, <1>13, <2>1 DEF EndOfInput
  <1>14. ASSUME NEW offset \in 0..Len(content), Seek(offset) PROVE BufInv'
    <2>1. /\ UNCHANGED <<content, actual, ending, cap, format>>
          /\ pos' = offset /\ data' = <<>> /\ r' = 0 /\ consumed' = offset
          /\ err' = "none" /\ atEOF' = FALSE /\ skipping' = FALSE /\ bomChecked' = FALSE
          /\ perr' = "none" /\ truncated' = 0 /\ malformed' = 0 /\ lines' = 0
          /\ sought' = offset /\ origin' = offset
          /\ pc' \in Busy \cup {"idle"}
      BY <1>14 DEF Seek, source, Busy
    <2>2. offset \in Nat /\ Len(data') = 0 /\ data' \in Seq({"n", "q", "s", "d", "x", "b"})
      BY <2>1, EmptySeq
    <2>3. Have' = 0
      BY <2>1, <2>2 DEF Have
    <2>4. /\ pos' \in 0..Len(content') /\ r' \in 0..Len(data')
          /\ cap' \in InitialBuffer..MaxRecord /\ Len(data') <= cap'
      BY <1>0, <2>1, <2>2 DEF TypeOK
    <2>5. TypeOK'
      BY <1>6, <2>1, <2>2, <2>4 DEF TypeOK
    <2>6. SourceShape'
      BY <1>0, <2>1, <2>2 DEF SourceShape, Busy
    <2>7. Mirror'
      BY <2>1, <2>2, <2>3 DEF Mirror
    <2> QED BY <2>5, <2>6, <2>7 DEF BufInv
  <1>15. ASSUME Resynced PROVE BufInv'
    BY <1>5, <1>6, <1>15 DEF Resynced, Busy
  <1>16. ASSUME ResyncLine PROVE BufInv'
    BY <1>5, <1>6, <1>16 DEF ResyncLine, Busy
  <1>17. ASSUME ResyncEnds PROVE BufInv'
    BY <1>5, <1>6, <1>17 DEF ResyncEnds, Busy
  <1>18. ASSUME UNCHANGED vars PROVE BufInv'
    BY <1>5, <1>6, <1>18 DEF vars
  <1> QED BY <1>1, <1>2, <1>3, <1>7, <1>8, <1>9, <1>10, <1>11, <1>12, <1>13, <1>14,
             <1>15, <1>16, <1>17, <1>18 DEF Next, Step

(***************************************************************************)
(* buf keeps 0 <= r <= w <= len(data) and len(data) within the cap, and    *)
(* the resolved format is one of the five, whatever the source answers.    *)
(***************************************************************************)
THEOREM ParserTypeCorrect == Spec => []TypeOK
  <1>1. BufInv => TypeOK
    BY DEF BufInv
  <1> QED BY <1>1, BufInit, BufStep, PTL DEF Spec

(***************************************************************************)
(* IFC-006: consumed is the stream position of the first buffered byte and *)
(* the window the bytes that follow it, whatever was slid, grown, skipped  *)
(* or sought before.                                                       *)
(***************************************************************************)
THEOREM OffsetsAreTrue == Spec => []BufferMirrorsStream
  <1>1. BufInv => BufferMirrorsStream
    BY WindowIs DEF BufferMirrorsStream, BufInv, Mirror
  <1> QED BY <1>1, BufInit, BufStep, PTL DEF Spec

-----------------------------------------------------------------------------
(***************************************************************************)
(* The end of the stream: Next returns false for good with the source's    *)
(* error and nothing left in the window.                                   *)
(***************************************************************************)
EndShape ==
  pc = "ended" /\ format # "auto" => perr = FinalError /\ consumed = pos /\ atEOF

EndInv == BufInv /\ EndShape

(***************************************************************************)
(* No error after the last record means that the whole input was used up.  *)
(* (The format is known.)                                                  *)
(***************************************************************************)
NoErrorMeansAllRead ==
  pc = "ended" /\ format # "auto" /\ perr = "none" => consumed = Len(content)

\* The parser starts with no error to report.
LEMMA EndInit == Init => EndInv
  BY BufInit DEF EndInv, EndShape, Init

\* A call that stops reading either has all of it or has an error to report.
LEMMA EndStep == EndInv /\ [Next]_vars => EndInv'
  <1> SUFFICES ASSUME EndInv, [Next]_vars PROVE EndShape'
    BY BufStep DEF EndInv
  <1>0. BufInv
    BY DEF EndInv
  <1>1. CASE UNCHANGED vars
    <2>1. UNCHANGED <<pc, format, perr, err, consumed, pos, atEOF>>
      BY <1>1 DEF vars, buf
    <2> QED BY <2>1 DEF EndInv, EndShape, FinalError
  <1>2. CASE EndOfInput
    <2>1. /\ UNCHANGED <<err, consumed, pos, atEOF>>
          /\ pc' = "ended" /\ perr' = FinalError /\ atEOF
          /\ IF skipping THEN Have = 0 ELSE TheCut = NeedMore
      BY <1>2 DEF EndOfInput, buf
    <2>2. Have = 0
      <3>1. Have \in Nat
        BY <1>0, WindowIs
      <3>2. atEOF /\ Have > 0 => TheCut # NeedMore
        BY <1>0, <3>1, TheCutIsCut
      <3> QED BY <2>1, <3>1, <3>2
    <2>3. consumed = pos
      BY <1>0, <2>2 DEF BufInv, Mirror, SourceShape
    <2> QED BY <2>1, <2>3 DEF EndShape, FinalError
  <1>3. CASE EnsureFormat
    <2>1. pc' = "ended" => format' = "auto"
      BY <1>3 DEF EnsureFormat
    <2> QED BY <2>1 DEF EndShape
  <1>4. CASE CutRecord
    <2>1. pc' # "ended"
      BY <1>4 DEF CutRecord, Reading
    <2> QED BY <2>1 DEF EndShape
  <1>5. CASE \/ NextCall \/ CheckBOM \/ FillRead \/ FillEnded \/ Skip \/ Discard
             \/ DiscardAll \/ Resynced \/ ResyncLine \/ ResyncEnds
             \/ \E offset \in 0..Len(content) : Seek(offset)
    <2>1. pc' # "ended"
      BY <1>5 DEF NextCall, CheckBOM, FillRead, FillEnded, Skip, Discard, DiscardAll,
                  Resynced, ResyncLine, ResyncEnds, Seek, NeedsData, Reading, Dropping, Busy
    <2> QED BY <2>1 DEF EndShape
  <1> QED BY <1>1, <1>2, <1>3, <1>4, <1>5 DEF Next, Step

(***************************************************************************)
(* IFC-003: a source that failed is not taken for one that ended, and one  *)
(* that ended was read to its last byte.                                   *)
(***************************************************************************)
THEOREM EndIsReported == Spec => [](FailureIsReported /\ NoErrorMeansAllRead)
  <1>1. EndInv => FailureIsReported
    BY DEF EndInv, EndShape, FailureIsReported, FinalError
  <1>2. EndInv => NoErrorMeansAllRead
    BY DEF EndInv, EndShape, NoErrorMeansAllRead, FinalError, BufInv, SourceShape, TypeOK
  <1> QED BY <1>1, <1>2, EndInit, EndStep, PTL DEF Spec

-----------------------------------------------------------------------------
(***************************************************************************)
(* Next and Seek return: the work left is a number that every step inside  *)
(* them makes smaller.                                                     *)
(***************************************************************************)
\* The terms of WorkLeft, and how they move.
LEMMA WorkIs ==
  ASSUME BufInv
  PROVE  /\ WorkLeft \in Nat
         /\ consumed \in Nat /\ pos \in Nat /\ Len(content) \in Nat
         /\ consumed + Have = pos
  <1>1. /\ consumed \in Nat /\ pos \in 0..Len(content) /\ Len(content) \in Nat
        /\ consumed + Have = pos /\ Have \in Nat
    BY WindowIs, LenProperties DEF BufInv, TypeOK, SourceShape, Mirror
  <1>2. /\ Weight(~atEOF) \in Nat /\ Weight(~bomChecked) \in Nat
        /\ Weight(format = "auto") \in Nat /\ Weight(pc = "resync") \in Nat
    BY DEF Weight
  <1>3. Len(content) - consumed \in Nat /\ Len(content) - pos \in Nat
    BY <1>1
  <1>4. WorkLeft \in Nat
    <2> DEFINE u == 4 * (Len(content) - consumed)
               v == 2 * (Len(content) - pos)
               a == Weight(~atEOF)
               b == Weight(~bomChecked)
               c == 2 * Weight(format = "auto")
               k == Weight(pc = "resync")
    <2>1. u \in Nat /\ v \in Nat /\ a \in Nat /\ b \in Nat /\ c \in Nat /\ k \in Nat
      BY <1>2, <1>3
    <2>2. WorkLeft = u + v + a + b + c + k
      BY DEF WorkLeft
    <2> HIDE DEF u, v, a, b, c, k
    <2> QED BY <2>1, <2>2
  <1> QED BY <1>1, <1>4

\* A step that takes bytes from the window, whatever it does to the place.
LEMMA TakingIsWork ==
  ASSUME BufInv, BufInv', NEW n \in Nat \ {0}, Advance(n),
         UNCHANGED <<content, pos, atEOF, format, bomChecked>>
  PROVE  WorkLeft' < WorkLeft
  <1>1. /\ consumed \in Nat /\ pos \in Nat /\ Len(content) \in Nat
        /\ consumed' = consumed + n /\ content' = content /\ pos' = pos
    BY WorkIs DEF Advance
  <1> DEFINE a == Weight(~atEOF)
             b == Weight(~bomChecked)
             c == Weight(format = "auto")
             k == Weight(pc = "resync")
  <1>2. /\ a \in {0, 1} /\ b \in {0, 1} /\ c \in {0, 1}
        /\ k \in {0, 1} /\ k' \in {0, 1} /\ a' = a /\ b' = b /\ c' = c
    BY DEF Weight
  <1>3. /\ WorkLeft = 4 * (Len(content) - consumed) + 2 * (Len(content) - pos)
                        + a + b + 2 * c + k
        /\ WorkLeft' = 4 * (Len(content) - (consumed + n)) + 2 * (Len(content) - pos)
                         + a + b + 2 * c + k'
    <2>1. WorkLeft' = 4 * (Len(content') - consumed') + 2 * (Len(content') - pos')
                        + a' + b' + 2 * c' + k'
      BY DEF WorkLeft
    <2>2. WorkLeft = 4 * (Len(content) - consumed) + 2 * (Len(content) - pos)
                       + a + b + 2 * c + k
      BY DEF WorkLeft
    <2> HIDE DEF a, b, c, k
    <2> QED BY <1>1, <1>2, <2>1, <2>2
  <1> HIDE DEF a, b, c, k
  <1>4. k' < 4 * n + k
    BY <1>2
  <1> DEFINE u == Len(content) - consumed
             v == Len(content) - pos
  <1>5. u \in Int /\ v \in Int /\ Len(content) - (consumed + n) = u - n
    BY <1>1
  <1>6. /\ WorkLeft = 4 * u + 2 * v + a + b + 2 * c + k
        /\ WorkLeft' = 4 * (u - n) + 2 * v + a + b + 2 * c + k'
    BY <1>3, <1>5
  <1> HIDE DEF u, v
  <1>7. 4 * (u - n) = 4 * u - 4 * n /\ 4 * u \in Int /\ 2 * v \in Int /\ 2 * c \in Int
    BY <1>2, <1>5
  <1> QED BY <1>2, <1>4, <1>6, <1>7

\* Fewer bytes to hand over against flags that change.
LEMMA LessSum ==
  ASSUME NEW u \in Int, NEW v \in Int, NEW d \in Nat,
         NEW a \in Nat, NEW b \in Nat, NEW c \in Nat, NEW k \in Nat,
         NEW a1 \in Nat, NEW b1 \in Nat, NEW c1 \in Nat, NEW k1 \in Nat,
         2 * d + a + b + 2 * c + k > a1 + b1 + 2 * c1 + k1
  PROVE  u + 2 * (v - d) + a1 + b1 + 2 * c1 + k1 < u + 2 * v + a + b + 2 * c + k
  OBVIOUS

\* A step that leaves every byte where it is.
LEMMA OtherWork ==
  ASSUME BufInv, UNCHANGED <<content, consumed>>, NEW d \in Nat, pos' = pos + d,
         2 * d + Weight(~atEOF) + Weight(~bomChecked) + 2 * Weight(format = "auto")
           + Weight(pc = "resync")
         > Weight(~atEOF') + Weight(~bomChecked') + 2 * Weight(format' = "auto")
             + Weight(pc' = "resync")
  PROVE  WorkLeft' < WorkLeft
  <1>1. /\ consumed \in Nat /\ pos \in Nat /\ Len(content) \in Nat
        /\ consumed' = consumed /\ content' = content /\ pos' = pos + d
    BY WorkIs
  <1> DEFINE a == Weight(~atEOF)
             b == Weight(~bomChecked)
             c == Weight(format = "auto")
             k == Weight(pc = "resync")
             a1 == Weight(~atEOF')
             b1 == Weight(~bomChecked')
             c1 == Weight(format' = "auto")
             k1 == Weight(pc' = "resync")
             u == 4 * (Len(content) - consumed)
             v == Len(content) - pos
  <1>2. /\ a \in Nat /\ b \in Nat /\ c \in Nat /\ k \in Nat
        /\ a1 \in Nat /\ b1 \in Nat /\ c1 \in Nat /\ k1 \in Nat
    BY DEF Weight
  <1>3. u \in Int /\ v \in Int /\ Len(content) - (pos + d) = v - d
    BY <1>1
  <1>4. WorkLeft = u + 2 * v + a + b + 2 * c + k
    BY DEF WorkLeft
  <1>5. WorkLeft' = u + 2 * (v - d) + a1 + b1 + 2 * c1 + k1
    <2>1. WorkLeft' = u + 2 * (Len(content) - (pos + d)) + a1 + b1 + 2 * c1 + k1
      BY <1>1 DEF WorkLeft
    <2> HIDE DEF u, v, a1, b1, c1, k1
    <2> QED BY <2>1, <1>3
  <1>6. 2 * d + a + b + 2 * c + k > a1 + b1 + 2 * c1 + k1
    OBVIOUS
  <1> HIDE DEF a, b, c, k, a1, b1, c1, k1, u, v
  <1> QED BY <1>2, <1>3, <1>4, <1>5, <1>6, LessSum

\* A step inside a call leaves less to do before the call returns.
LEMMA LessWork ==
  ASSUME BufInv, BufInv', Next, pc \in Busy, pc' \in Busy
  PROVE  WorkLeft' < WorkLeft
  <1>0. /\ Have \in Nat /\ MaxRecord \in Nat \ {0} /\ Have <= MaxRecord
        /\ pos \in Nat /\ 0 \in Nat
    BY WindowIs, WorkIs, FramingAssumption
  <1>1. CASE CheckBOM
    <2>1. /\ UNCHANGED <<content, pos, atEOF, format, pc>>
          /\ ~bomChecked /\ bomChecked' = TRUE
          /\ Advance(1) \/ UNCHANGED <<r, consumed>>
      BY <1>1 DEF CheckBOM, source
    <2>2. pos' = pos + 0
      BY <1>0, <2>1
    <2>3. CASE UNCHANGED <<r, consumed>>
      <3>1. 2 * 0 + Weight(~atEOF) + Weight(~bomChecked) + 2 * Weight(format = "auto")
              + Weight(pc = "resync")
            > Weight(~atEOF') + Weight(~bomChecked') + 2 * Weight(format' = "auto")
                + Weight(pc' = "resync")
        BY <2>1 DEF Weight
      <3> QED BY <1>0, <2>1, <2>2, <2>3, <3>1, OtherWork
    <2>4. CASE Advance(1)
      <3>1. /\ consumed \in Nat /\ pos \in Nat /\ Len(content) \in Nat
            /\ consumed' = consumed + 1 /\ content' = content /\ pos' = pos
        BY <2>1, <2>4, WorkIs DEF Advance
      <3> QED BY <2>1, <3>1 DEF WorkLeft, Weight
    <2> QED BY <2>1, <2>3, <2>4
  <1>2. CASE FillRead
    <2>1. /\ UNCHANGED <<content, consumed, bomChecked, format, pc>> /\ ~atEOF
      BY <1>2 DEF FillRead, NeedsData, source
    <2>2. \/ \E n \in ReadSizes : pos' = pos + n /\ atEOF' = atEOF
          \/ pos' = pos /\ atEOF' = TRUE
      BY <1>2 DEF FillRead
    <2>3. CASE \E n \in ReadSizes : pos' = pos + n /\ atEOF' = atEOF
      <3>1. PICK n \in ReadSizes : pos' = pos + n /\ atEOF' = atEOF
        BY <2>3
      <3>2. n \in Nat \ {0}
        BY ParserAssumption
      <3>3. 2 * n + Weight(~atEOF) + Weight(~bomChecked) + 2 * Weight(format = "auto")
              + Weight(pc = "resync")
            > Weight(~atEOF') + Weight(~bomChecked') + 2 * Weight(format' = "auto")
                + Weight(pc' = "resync")
        BY <2>1, <3>1, <3>2 DEF Weight
      <3> QED BY <2>1, <3>1, <3>2, <3>3, OtherWork
    <2>4. CASE pos' = pos /\ atEOF' = TRUE
      <3>1. 2 * 0 + Weight(~atEOF) + Weight(~bomChecked) + 2 * Weight(format = "auto")
              + Weight(pc = "resync")
            > Weight(~atEOF') + Weight(~bomChecked') + 2 * Weight(format' = "auto")
                + Weight(pc' = "resync")
        BY <2>1, <2>4 DEF Weight
      <3>2. pos' = pos + 0
        BY <1>0, <2>4
      <3> QED BY <1>0, <2>1, <3>1, <3>2, OtherWork
    <2> QED BY <2>2, <2>3, <2>4
  <1>3. CASE FillEnded
    <2>1. /\ UNCHANGED <<content, consumed, pos, bomChecked, format, pc>>
          /\ ~atEOF /\ atEOF' = TRUE
      BY <1>3 DEF FillEnded, NeedsData, source
    <2>2. 2 * 0 + Weight(~atEOF) + Weight(~bomChecked) + 2 * Weight(format = "auto")
            + Weight(pc = "resync")
          > Weight(~atEOF') + Weight(~bomChecked') + 2 * Weight(format' = "auto")
              + Weight(pc' = "resync")
      BY <2>1 DEF Weight
    <2>3. pos' = pos + 0
      BY <1>0, <2>1
    <2> QED BY <1>0, <2>1, <2>2, <2>3, OtherWork
  <1>4. CASE Skip
    <2>1. Have \in Nat \ {0}
      BY <1>0, <1>4 DEF Skip, TooLong
    <2> QED BY <1>4, <2>1, TakingIsWork DEF Skip, source
  <1>5. CASE Discard
    <2>1. PastLine(Window) \in Nat \ {0}
      BY <1>0, <1>5, PastLineInWindow DEF Discard
    <2> QED BY <1>5, <2>1, TakingIsWork DEF Discard, source
  <1>6. CASE DiscardAll
    <2>1. Have \in Nat \ {0}
      BY <1>0, <1>6 DEF DiscardAll
    <2> QED BY <1>6, <2>1, TakingIsWork DEF DiscardAll, source
  <1>7. CASE CutRecord
    <2>1. TheCut.advance \in Nat \ {0}
      BY <1>0, <1>7, TheCutIsCut DEF CutRecord
    <2> QED BY <1>7, <2>1, TakingIsWork DEF CutRecord, source
  <1>8. CASE EnsureFormat
    <2>1. format' # "auto"
      <3>1. actual \in Formats
        BY DEF BufInv, SourceShape
      <3> QED BY <1>8, <3>1 DEF EnsureFormat, ClassifyLine, Formats, Busy
    <2>2. /\ UNCHANGED <<content, consumed, pos, bomChecked, atEOF>>
          /\ format = "auto" /\ pc \in {"format", "seekformat"}
      BY <1>8 DEF EnsureFormat, source, buf
    <2>3. 2 * 0 + Weight(~atEOF) + Weight(~bomChecked) + 2 * Weight(format = "auto")
            + Weight(pc = "resync")
          > Weight(~atEOF') + Weight(~bomChecked') + 2 * Weight(format' = "auto")
              + Weight(pc' = "resync")
      BY <2>1, <2>2 DEF Weight
    <2>4. pos' = pos + 0
      BY <1>0, <2>2
    <2> QED BY <1>0, <2>2, <2>3, <2>4, OtherWork
  <1>9. CASE ResyncLine
    <2>1. /\ UNCHANGED <<content, consumed, pos, bomChecked, atEOF, format>>
          /\ pc = "resync" /\ pc' = "drop"
      BY <1>9 DEF ResyncLine, source, buf
    <2>2. 2 * 0 + Weight(~atEOF) + Weight(~bomChecked) + 2 * Weight(format = "auto")
            + Weight(pc = "resync")
          > Weight(~atEOF') + Weight(~bomChecked') + 2 * Weight(format' = "auto")
              + Weight(pc' = "resync")
      BY <2>1 DEF Weight
    <2>3. pos' = pos + 0
      BY <1>0, <2>1
    <2> QED BY <1>0, <2>1, <2>2, <2>3, OtherWork
  <1>10. CASE EndOfInput \/ Resynced \/ ResyncEnds
    BY <1>10 DEF EndOfInput, Resynced, ResyncEnds, Busy
  <1>11. CASE NextCall \/ \E offset \in 0..Len(content) : Seek(offset)
    BY <1>11 DEF NextCall, Seek, Busy
  <1> QED BY <1>1, <1>2, <1>3, <1>4, <1>5, <1>6, <1>7, <1>8, <1>9, <1>10, <1>11
          DEF Next, Step

(***************************************************************************)
(* Every call returns after finitely many steps, whatever the source does: *)
(* a step inside one leaves less work, and there is never less than none.  *)
(***************************************************************************)
THEOREM CallsComeToAnEnd == Spec => CallsReturn /\ [](WorkLeft \in Nat)
  <1>1. BufInv => WorkLeft \in Nat
    BY WorkIs
  <1>2. BufInv /\ BufInv' /\ [Next]_vars
          => [(pc \in Busy /\ pc' \in Busy) => WorkLeft' < WorkLeft]_vars
    BY LessWork
  <1> QED BY <1>1, <1>2, BufInit, BufStep, PTL DEF Spec, CallsReturn

-----------------------------------------------------------------------------
(***************************************************************************)
(* The inputs that agree with all that was read.  What the parser has      *)
(* returned must be right for each of them: whichever it is, only bytes    *)
(* not read yet can tell.                                                  *)
(***************************************************************************)
Possible == {SubSeq(content, 1, k) : k \in IF atEOF THEN {pos} ELSE pos..Len(content)}

\* The window holds the bytes of every input the parser may be reading.
LEMMA PossibleIs ==
  ASSUME BufInv, NEW c \in Possible
  PROVE  /\ c \in Seq(Byte) /\ Len(c) \in Nat /\ pos <= Len(c)
         /\ atEOF => Len(c) = pos
         /\ \A i \in 1..Have : Window[i] = c[consumed + i]
         /\ Have \in Nat /\ consumed \in Nat /\ pos \in Nat
         /\ consumed + Have = pos /\ Have <= MaxRecord /\ MaxRecord \in Nat \ {0}
         /\ Window \in Seq(Byte) /\ Len(Window) = Have
         /\ consumed \in 0..Len(c)
  <1>1. /\ content \in Seq(Byte) /\ Len(content) \in Nat
        /\ pos \in Nat /\ pos <= Len(content)
        /\ Have \in Nat /\ consumed \in Nat /\ consumed + Have = pos
        /\ Have <= MaxRecord /\ MaxRecord \in Nat \ {0}
        /\ Window \in Seq(Byte) /\ Len(Window) = Have
        /\ \A i \in 1..Have : Window[i] = content[consumed + i]
    BY WindowIs, WorkIs, LenProperties, FramingAssumption
    DEF BufInv, TypeOK, SourceShape
  <1>2. PICK k \in pos..Len(content) : c = SubSeq(content, 1, k) /\ (atEOF => k = pos)
    <2>1. PICK k \in IF atEOF THEN {pos} ELSE pos..Len(content) : c = SubSeq(content, 1, k)
      BY DEF Possible
    <2>2. k \in pos..Len(content) /\ (atEOF => k = pos)
      BY <1>1, <2>1
    <2> QED BY <2>1, <2>2
  <1>3. /\ k \in Nat /\ 0 + k <= Len(content) /\ 0 + k = k /\ 0 + 1 = 1 /\ 0 \in Nat
        /\ pos <= k
    BY <1>1
  <1>4. /\ SubSeq(content, 0 + 1, 0 + k) \in Seq(Byte)
        /\ Len(SubSeq(content, 0 + 1, 0 + k)) = k
        /\ \A i \in 1..k : SubSeq(content, 0 + 1, 0 + k)[i] = content[0 + i]
    BY <1>1, <1>3, Slice
  <1>5. \A i \in 1..k : 0 + i = i
    BY <1>3
  <1>6. c \in Seq(Byte) /\ Len(c) = k /\ \A i \in 1..k : c[i] = content[i]
    BY <1>2, <1>3, <1>4, <1>5
  <1>7. \A i \in 1..Have : consumed + i \in 1..k
    BY <1>1, <1>3
  <1>8. consumed \in 0..k
    BY <1>1, <1>3
  <1> QED BY <1>1, <1>2, <1>3, <1>6, <1>7, <1>8

\* What the source hands over is one of them, the one when it has ended.
LEMMA InputIsPossible ==
  ASSUME BufInv
  PROVE  Input \in Possible /\ (atEOF => Len(Input) = pos)
  <1>1. /\ content \in Seq(Byte) /\ Len(content) \in Nat
        /\ pos \in 0..Len(content) /\ err \in {"none", "EOF", "broken", "noprogress"}
        /\ err \in {"EOF", "broken"} => pos = Len(content)
        /\ err = "noprogress" => atEOF
        /\ atEOF => err # "none"
    BY LenProperties DEF BufInv, TypeOK, SourceShape
  <1>2. SubSeq(content, 1, Len(content)) = content
    BY <1>1, SubSeqFull
  <1>3. Input \in Possible
    <2>1. CASE err = "noprogress"
      BY <1>1, <2>1 DEF Input, Possible
    <2>2. CASE err # "noprogress"
      <3>1. Input = SubSeq(content, 1, Len(content))
        BY <1>2, <2>2 DEF Input
      <3>2. Len(content) \in IF atEOF THEN {pos} ELSE pos..Len(content)
        BY <1>1, <2>2
      <3> QED BY <3>1, <3>2 DEF Possible
    <2> QED BY <2>1, <2>2
  <1> QED BY <1>3, PossibleIs

\* A cut that is made is the cut of every such input.
LEMMA CutAgrees ==
  ASSUME BufInv, NEW c \in Possible, TheCut # NeedMore
  PROVE  CutAt(format, c, consumed, emitTail) = TheCut
  <1>1. /\ c \in Seq(Byte) /\ Len(c) \in Nat /\ pos <= Len(c)
        /\ atEOF => Len(c) = pos
        /\ \A i \in 1..Have : Window[i] = c[consumed + i]
        /\ Have \in Nat /\ consumed \in Nat /\ pos \in Nat
        /\ consumed + Have = pos /\ Have <= MaxRecord /\ MaxRecord \in Nat \ {0}
        /\ Window \in Seq(Byte) /\ Len(Window) = Have
        /\ consumed \in 0..Len(c)
    BY PossibleIs
  <1> DEFINE w == WindowAt(c, consumed)
             eof == WindowAtEOF(c, consumed)
  <1>2. /\ w \in Seq(Byte) /\ Len(w) = Shorter(MaxRecord, Len(c) - consumed)
        /\ \A i \in 1..Len(w) : w[i] = c[consumed + i]
    BY <1>1, WindowAtIs
  <1>3. CutAt(format, c, consumed, emitTail) = Split(format, w, eof, emitTail)
    BY DEF CutAt
  <1>4. TheCut = Split(format, Window, atEOF, emitTail) /\ atEOF \in BOOLEAN
    BY DEF TheCut, BufInv, TypeOK
  <1>5. eof \in BOOLEAN /\ (eof <=> Len(c) - consumed < MaxRecord)
    BY DEF WindowAtEOF
  <1>6. Len(w) \in Nat /\ Have <= Len(w)
    BY <1>1, <1>2 DEF Shorter
  <1> HIDE DEF w, eof
  <1>7. \A i \in 1..Have : w[i] = Window[i]
    <2>1. \A i \in 1..Have : i \in 1..Len(w)
      BY <1>1, <1>6
    <2> QED BY <1>1, <1>2, <2>1
  <1>8. CASE atEOF
    <2>1. Have < MaxRecord
      BY <1>8 DEF BufInv, SourceShape
    <2>2. Len(w) = Have /\ eof = TRUE
      BY <1>1, <1>2, <1>5, <1>8, <2>1 DEF Shorter
    <2>3. w = Window
      BY <1>1, <1>2, <1>7, <2>2, SeqEqual
    <2> QED BY <1>3, <1>4, <1>8, <2>2, <2>3
  <1>9. CASE ~atEOF
    <2>1. Extends(w, Window)
      BY <1>1, <1>2, <1>6, <1>7 DEF Extends
    <2>2. Split(format, Window, atEOF, emitTail) # NeedMore
      BY <1>4
    <2>3. Split(format, w, eof, emitTail) = Split(format, Window, atEOF, emitTail)
      BY <1>9, <2>1, <2>2, SplitIsStable
    <2> QED BY <1>3, <1>4, <2>3
  <1> QED BY <1>8, <1>9

\* The record that is cut is that of every such input.
LEMMA TokenAgrees ==
  ASSUME BufInv, NEW c \in Possible, TheCut # NeedMore
  PROVE  TokenAt(format, c, consumed, emitTail) = SubSeq(Window, 1, TheCut.token)
  <1> DEFINE n == TheCut.token
  <1>1. /\ c \in Seq(Byte) /\ Len(c) \in Nat /\ pos <= Len(c)
        /\ \A i \in 1..Have : Window[i] = c[consumed + i]
        /\ Have \in Nat /\ consumed \in Nat /\ pos \in Nat /\ consumed + Have = pos
        /\ Window \in Seq(Byte) /\ Len(Window) = Have
    BY PossibleIs
  <1>2. n \in Nat /\ n <= Have
    BY <1>1, TheCutIsCut
  <1>3. TokenAt(format, c, consumed, emitTail) = SubSeq(c, consumed + 1, consumed + n)
    BY CutAgrees DEF TokenAt
  <1> HIDE DEF n
  <1>4. /\ 0 \in Nat /\ 0 + n <= Len(Window) /\ consumed + n <= Len(c)
        /\ 0 + 1 = 1 /\ 0 + n = n
        /\ \A i \in 1..n : i \in 1..Have /\ 0 + i = i
    BY <1>1, <1>2
  <1>5. \A i \in 1..n : Window[0 + i] = c[consumed + i]
    BY <1>1, <1>4
  <1>6. SubSeq(Window, 0 + 1, 0 + n) = SubSeq(c, consumed + 1, consumed + n)
    BY <1>1, <1>2, <1>4, <1>5, SameSlice
  <1> QED BY <1>3, <1>4, <1>6 DEF n

\* A record too long to be cut is too long in every such input.
LEMMA SkipAgrees ==
  ASSUME BufInv, NEW c \in Possible, ~atEOF, TheCut = NeedMore, TooLong
  PROVE  /\ CutAt(format, c, consumed, emitTail) = NeedMore
         /\ ~WindowAtEOF(c, consumed)
         /\ TokenAt(format, c, consumed, emitTail) = <<>>
         /\ Have = MaxRecord
  <1>1. /\ c \in Seq(Byte) /\ Len(c) \in Nat /\ pos <= Len(c)
        /\ \A i \in 1..Have : Window[i] = c[consumed + i]
        /\ Have \in Nat /\ consumed \in Nat /\ pos \in Nat
        /\ consumed + Have = pos /\ Have <= MaxRecord /\ MaxRecord \in Nat \ {0}
        /\ Window \in Seq(Byte) /\ Len(Window) = Have
        /\ consumed \in 0..Len(c)
    BY PossibleIs
  <1> DEFINE w == WindowAt(c, consumed)
  <1>2. /\ w \in Seq(Byte) /\ Len(w) = Shorter(MaxRecord, Len(c) - consumed)
        /\ \A i \in 1..Len(w) : w[i] = c[consumed + i]
    BY <1>1, WindowAtIs
  <1>3. Have = MaxRecord /\ Len(c) - consumed >= MaxRecord
    BY <1>1 DEF TooLong
  <1>4. Len(w) = Have /\ WindowAtEOF(c, consumed) = FALSE
    BY <1>1, <1>2, <1>3 DEF Shorter, WindowAtEOF
  <1>5. CutAt(format, c, consumed, emitTail) = Split(format, w, FALSE, emitTail)
    BY <1>4 DEF CutAt
  <1> HIDE DEF w
  <1>6. w = Window
    BY <1>1, <1>2, <1>4, SeqEqual
  <1>7. CutAt(format, c, consumed, emitTail) = NeedMore
    <2>1. atEOF = FALSE
      BY DEF BufInv, TypeOK
    <2> QED BY <1>5, <1>6, <2>1 DEF TheCut
  <1>8. TokenAt(format, c, consumed, emitTail) = SubSeq(c, consumed + 1, consumed + 0)
    <2>1. NeedMore.token = 0
      BY DEF NeedMore
    <2> QED BY <1>7, <2>1 DEF TokenAt
  <1>9. SubSeq(c, consumed + 1, consumed + 0) = <<>>
    BY <1>1, SubSeqEmpty
  <1> QED BY <1>3, <1>4, <1>7, <1>8, <1>9

-----------------------------------------------------------------------------
(***************************************************************************)
(* The inductive invariant of the records.  For every input that agrees    *)
(* with what was read, the parser stands at a position of that input's     *)
(* framing, or inside a record it skips on the way to one, and has         *)
(* returned exactly the records and counted exactly the skips before it.   *)
(***************************************************************************)
Start(c) == IF origin = 0 THEN StartOf(c) ELSE origin

Path(c) == Positions(format, c, Start(c), emitTail)

RecordAt(c, p) ==
  /\ p < Len(c)
  /\ TokenAt(format, c, p, emitTail) # <<>>
  /\ IsRecord(format, TokenAt(format, c, p, emitTail))

SkippedAt(c, p) ==
  ~WindowAtEOF(c, p) /\ CutAt(format, c, p, emitTail) = NeedMore

RecordsBelow(c, n) == {p \in Path(c) : p < n /\ RecordAt(c, p)}
SkipsBelow(c, n) == {p \in Path(c) : p < n /\ SkippedAt(c, p)}

\* Where the framer is, or where it will be when the skipped record ends.
Target(c) == IF skipping THEN PastNewline(c, consumed) ELSE consumed

Walked(c) ==
  /\ Target(c) \in Path(c) /\ consumed <= Target(c)
  /\ \A p \in Path(c) : p < Target(c) => p < consumed
  /\ {out[i].offset : i \in 1..Len(out)} = RecordsBelow(c, Target(c))
  /\ \A i \in 1..Len(out) :
       out[i].raw = TokenAt(format, c, out[i].offset, emitTail)
  /\ truncated = Cardinality(SkipsBelow(c, Target(c)))

\* The format is known and the parser is past its head, or where Seek landed.
Started == bomChecked /\ format # "auto" /\ pc \notin {"resync", "drop"}

AtStart == \A c \in Possible : consumed = Start(c)

NothingYet == out = <<>> /\ truncated = 0 /\ ~skipping

Record == [offset : Nat, raw : Seq(Byte), cut : BOOLEAN]

Setting ==
  /\ out \in Seq(Record)
  /\ origin <= consumed
  /\ pc \in {"format", "seekformat"} => format = "auto"
  /\ pc \in {"read", "resync", "drop"} => format # "auto"
  /\ pc \in {"seekformat", "resync", "drop"} => consumed > 0
  /\ ~Started => NothingYet
  /\ ~bomChecked => consumed = origin
  /\ bomChecked /\ format = "auto" => AtStart

InOrder == \A i, j \in 1..Len(out) : i < j => out[i].offset < out[j].offset

WalkInv ==
  BufInv /\ Setting /\ InOrder /\ (Started => \A c \in Possible : Walked(c))

\* Reading starts inside the input.
LEMMA StartIs ==
  ASSUME BufInv, origin <= consumed, NEW c \in Possible
  PROVE  Start(c) \in 0..Len(c)
  <1>1. Len(c) \in Nat /\ consumed \in 0..Len(c) /\ c \in Seq(Byte)
    BY PossibleIs
  <1>2. StartOf(c) \in 0..Len(c)
    BY <1>1, EmptySeq DEF StartOf
  <1>3. origin \in Nat
    BY DEF BufInv, SourceShape
  <1> QED BY <1>1, <1>2, <1>3 DEF Start

\* The path of an input.
LEMMA PathIs ==
  ASSUME BufInv, origin <= consumed, NEW c \in Possible
  PROVE  /\ Path(c) \subseteq Start(c)..Len(c) /\ Start(c) \in Path(c)
         /\ Start(c) \in Nat /\ Len(c) \in Nat /\ Path(c) \subseteq Nat
         /\ IsFiniteSet(Path(c))
         /\ \A q \in Path(c) : q < Len(c) =>
              /\ NextPosition(format, c, q, emitTail) \in Path(c)
              /\ \A x \in Path(c) : x <= q \/ x >= NextPosition(format, c, q, emitTail)
  <1>1. Start(c) \in 0..Len(c) /\ c \in Seq(Byte) /\ Len(c) \in Nat
    BY StartIs, PossibleIs
  <1>2. /\ IsPath(format, c, emitTail, Start(c), Path(c))
        /\ IsFiniteSet(Path(c))
    BY <1>1, PositionsArePath DEF Path
  <1>3. Start(c) \in Nat /\ \A x \in Start(c)..Len(c) : x \in Nat
    BY <1>1
  <1> QED BY <1>1, <1>2, <1>3 DEF IsPath

\* A parser that has returned nothing and stands at the start is on the path.
LEMMA StartIsWalked ==
  BufInv /\ origin <= consumed /\ NothingYet /\ AtStart => \A c \in Possible : Walked(c)
  <1> SUFFICES ASSUME BufInv, origin <= consumed, NothingYet, AtStart, NEW c \in Possible
               PROVE  Walked(c)
    OBVIOUS
  <1>1. /\ Path(c) \subseteq Start(c)..Len(c) /\ Start(c) \in Path(c)
        /\ Start(c) \in Nat /\ Len(c) \in Nat
    BY PathIs
  <1>2. Target(c) = Start(c) /\ consumed = Start(c)
    BY DEF AtStart, NothingYet, Target
  <1>3. \A p \in Path(c) : ~(p < Start(c))
    BY <1>1
  <1>4. RecordsBelow(c, Start(c)) = {} /\ SkipsBelow(c, Start(c)) = {}
    BY <1>3 DEF RecordsBelow, SkipsBelow
  <1>5. Len(out) = 0 /\ truncated = 0
    BY EmptySeq DEF NothingYet
  <1>6. {out[i].offset : i \in 1..Len(out)} = {} /\ \A i \in 1..Len(out) : FALSE
    BY <1>5
  <1>7. Cardinality({}) = 0
    BY FS_EmptySet
  <1> QED BY <1>1, <1>2, <1>3, <1>4, <1>5, <1>6, <1>7 DEF Walked

\* What one step along the path adds to what lies below.
LEMMA PathStep ==
  ASSUME BufInv, origin <= consumed, NEW c \in Possible,
         consumed \in Path(c), consumed < Len(c)
  PROVE  LET N == NextPosition(format, c, consumed, emitTail)
         IN /\ N \in Path(c) /\ N > consumed /\ N \in Nat
            /\ \A p \in Path(c) : p < N => p <= consumed
            /\ RecordsBelow(c, N)
                 = RecordsBelow(c, consumed)
                     \cup (IF RecordAt(c, consumed) THEN {consumed} ELSE {})
            /\ SkipsBelow(c, N)
                 = SkipsBelow(c, consumed)
                     \cup (IF SkippedAt(c, consumed) THEN {consumed} ELSE {})
            /\ IsFiniteSet(SkipsBelow(c, consumed))
            /\ consumed \notin SkipsBelow(c, consumed)
  <1> DEFINE N == NextPosition(format, c, consumed, emitTail)
  <1>1. /\ Path(c) \subseteq Nat /\ IsFiniteSet(Path(c)) /\ N \in Path(c)
        /\ \A x \in Path(c) : x <= consumed \/ x >= N
    BY PathIs
  <1>2. N > consumed /\ N \in Nat /\ consumed \in Nat
    <2>1. c \in Seq(Byte) /\ consumed \in 0..Len(c) /\ consumed \in Nat
      BY PossibleIs
    <2>2. N \in (consumed + 1)..Len(c)
      BY <2>1, NextPositionIs
    <2> HIDE DEF N
    <2> QED BY <2>1, <2>2
  <1> HIDE DEF N
  <1>3. ASSUME NEW p \in Path(c)
        PROVE  (p < N <=> p < consumed \/ p = consumed) /\ (p < N => p <= consumed)
    <2>1. p \in Nat /\ (p <= consumed \/ p >= N)
      BY <1>1
    <2> QED BY <1>2, <2>1
  <1>4. RecordsBelow(c, N)
          = RecordsBelow(c, consumed)
              \cup (IF RecordAt(c, consumed) THEN {consumed} ELSE {})
    BY <1>3 DEF RecordsBelow
  <1>5. SkipsBelow(c, N)
          = SkipsBelow(c, consumed)
              \cup (IF SkippedAt(c, consumed) THEN {consumed} ELSE {})
    BY <1>3 DEF SkipsBelow
  <1>6. IsFiniteSet(SkipsBelow(c, consumed))
    <2>1. SkipsBelow(c, consumed) \subseteq Path(c)
      BY DEF SkipsBelow
    <2> QED BY <1>1, <2>1, FS_Subset
  <1>7. consumed \notin SkipsBelow(c, consumed)
    BY <1>2 DEF SkipsBelow
  <1> QED BY <1>1, <1>2, <1>3, <1>4, <1>5, <1>6, <1>7 DEF N

\* The path of an input is settled by the format and by where reading began.
LEMMA SamePath ==
  ASSUME UNCHANGED <<format, origin, emitTail>>, NEW c
  PROVE  /\ Path(c)' = Path(c)
         /\ \A p : RecordAt(c, p)' <=> RecordAt(c, p)
         /\ \A p : SkippedAt(c, p)' <=> SkippedAt(c, p)
         /\ RecordsBelow(c, Target(c))' = RecordsBelow(c, Target(c)')
         /\ SkipsBelow(c, Target(c))' = SkipsBelow(c, Target(c)')
  <1>1. Path(c)' = Path(c)
    BY DEF Path, Start
  <1>2. \A p : (RecordAt(c, p)' <=> RecordAt(c, p)) /\ (SkippedAt(c, p)' <=> SkippedAt(c, p))
    BY DEF RecordAt, SkippedAt
  <1>3. /\ RecordsBelow(c, Target(c))'
             = {p \in Path(c)' : p < Target(c)' /\ RecordAt(c, p)'}
        /\ SkipsBelow(c, Target(c))'
             = {p \in Path(c)' : p < Target(c)' /\ SkippedAt(c, p)'}
    BY DEF RecordsBelow, SkipsBelow
  <1>4. /\ RecordsBelow(c, Target(c)') = {p \in Path(c) : p < Target(c)' /\ RecordAt(c, p)}
        /\ SkipsBelow(c, Target(c)') = {p \in Path(c) : p < Target(c)' /\ SkippedAt(c, p)}
    BY DEF RecordsBelow, SkipsBelow
  <1> QED BY <1>1, <1>2, <1>3, <1>4

\* What Append does to the records returned.
LEMMA OneMore ==
  ASSUME out \in Seq(Record), NEW rec \in Record, out' = Append(out, rec)
  PROVE  /\ Len(out) \in Nat /\ Len(out') = Len(out) + 1 /\ out' \in Seq(Record)
         /\ \A i \in 1..Len(out) : out'[i] = out[i]
         /\ out'[Len(out) + 1] = rec
         /\ \A i \in 1..Len(out') : i \in 1..Len(out) \/ i = Len(out) + 1
         /\ {out'[i].offset : i \in 1..Len(out')}
              = {out[i].offset : i \in 1..Len(out)} \cup {rec.offset}
  <1>1. /\ Len(out) \in Nat /\ Len(out') = Len(out) + 1 /\ out' \in Seq(Record)
        /\ \A i \in 1..Len(out) : out'[i] = out[i]
        /\ out'[Len(out) + 1] = rec
    BY AppendProperties, LenProperties
  <1>2. /\ \A i \in 1..Len(out') : i \in 1..Len(out) \/ i = Len(out) + 1
        /\ \A i \in 1..Len(out) : i \in 1..Len(out')
        /\ Len(out) + 1 \in 1..Len(out')
    BY <1>1
  <1>3. {out'[i].offset : i \in 1..Len(out')}
          = {out[i].offset : i \in 1..Len(out)} \cup {rec.offset}
    BY <1>1, <1>2
  <1> QED BY <1>1, <1>2, <1>3

\* The record that is cut, as the framing of every such input has it.
LEMMA CutOnPath ==
  ASSUME WalkInv, CutRecord, NEW c \in Possible
  PROVE  LET token == SubSeq(Window, 1, TheCut.token)
         IN /\ Walked(c) /\ Target(c) = consumed
            /\ NextPosition(format, c, consumed, emitTail) = consumed'
            /\ TokenAt(format, c, consumed, emitTail) = token
            /\ RecordAt(c, consumed) <=> token # <<>> /\ IsRecord(format, token)
            /\ ~SkippedAt(c, consumed)
            /\ consumed \in Path(c) /\ consumed < Len(c)
            /\ Target(c)' = consumed'
  <1> DEFINE token == SubSeq(Window, 1, TheCut.token)
  <1>0. BufInv /\ Setting /\ (Started => Walked(c))
    BY DEF WalkInv
  <1>1. /\ pc = "read" /\ bomChecked /\ ~skipping /\ skipping' = skipping
        /\ TheCut.advance > 0 /\ consumed' = consumed + TheCut.advance
    BY DEF CutRecord, Reading, Advance
  <1>2. Walked(c) /\ Target(c) = consumed /\ Target(c)' = consumed'
    BY <1>0, <1>1 DEF Setting, Started, Target
  <1>3. TheCut # NeedMore /\ TheCut.advance \in 0..Have
    BY <1>0, <1>1, TheCutIsCut
  <1>4. consumed < Len(c)
    <2>1. /\ Len(c) \in Nat /\ pos <= Len(c) /\ Have \in Nat /\ consumed \in Nat
          /\ pos \in Nat /\ consumed + Have = pos
      BY <1>0, PossibleIs
    <2> QED BY <1>1, <1>3, <2>1
  <1>5. CutAt(format, c, consumed, emitTail) = TheCut
    BY <1>0, <1>3, CutAgrees
  <1>6. NextPosition(format, c, consumed, emitTail) = consumed'
    BY <1>1, <1>5 DEF NextPosition
  <1>7. TokenAt(format, c, consumed, emitTail) = token
    BY <1>0, <1>3, TokenAgrees
  <1>8. ~SkippedAt(c, consumed)
    BY <1>3, <1>5 DEF SkippedAt
  <1>9. RecordAt(c, consumed) <=> token # <<>> /\ IsRecord(format, token)
    BY <1>4, <1>7 DEF RecordAt
  <1>10. consumed \in Path(c)
    BY <1>2 DEF Walked
  <1> QED BY <1>2, <1>4, <1>6, <1>7, <1>8, <1>9, <1>10

\* What CutRecord does to the records.
LEMMA CutReturns ==
  ASSUME WalkInv, CutRecord
  PROVE  LET token == SubSeq(Window, 1, TheCut.token)
         IN /\ token \in Seq(Byte) /\ consumed \in Nat
            /\ \/ /\ token # <<>> /\ IsRecord(format, token)
                  /\ \E rec \in Record :
                       /\ rec.offset = consumed /\ rec.raw = token
                       /\ out' = Append(out, rec)
               \/ ~(token # <<>> /\ IsRecord(format, token)) /\ out' = out
  <1> DEFINE token == SubSeq(Window, 1, TheCut.token)
             rec == [offset |-> RecordOffset(TheCut), raw |-> token,
                     cut |-> RunsIntoEnd(Window, TheCut, atEOF)]
  <1>0. BufInv
    BY DEF WalkInv
  <1>1. /\ Window \in Seq(Byte) /\ Len(Window) = Have /\ Have \in Nat
        /\ TheCut.token \in Nat /\ TheCut.token <= Have
    <2>1. Window \in Seq(Byte) /\ Len(Window) = Have /\ Have \in Nat
      BY <1>0, WindowIs
    <2> QED BY <1>0, <2>1, TheCutIsCut
  <1>2. token \in Seq(Byte)
    <2> DEFINE n == TheCut.token
    <2>1. 0 \in Nat /\ 0 + n <= Len(Window) /\ 0 + 1 = 1 /\ 0 + n = n /\ n \in Nat
      BY <1>1
    <2> HIDE DEF n
    <2>2. SubSeq(Window, 0 + 1, 0 + n) \in Seq(Byte)
      BY <1>1, <2>1, Slice
    <2> QED BY <2>1, <2>2 DEF n
  <1>3. consumed \in Nat
    BY <1>0 DEF BufInv, SourceShape
  <1>4. rec \in Record /\ rec.offset = consumed /\ rec.raw = token
    <2>1. RunsIntoEnd(Window, TheCut, atEOF) \in BOOLEAN
      BY DEF RunsIntoEnd
    <2> QED BY <1>2, <1>3, <2>1 DEF Record, RecordOffset
  <1>5. IF token = <<>> THEN out' = out
        ELSE IF IsRecord(format, token) THEN out' = Append(out, rec) ELSE out' = out
    BY DEF CutRecord
  <1> HIDE DEF token, rec
  <1>6. \/ /\ token # <<>> /\ IsRecord(format, token)
           /\ \E x \in Record :
                x.offset = consumed /\ x.raw = token /\ out' = Append(out, x)
        \/ ~(token # <<>> /\ IsRecord(format, token)) /\ out' = out
    BY <1>4, <1>5
  <1> QED BY <1>2, <1>3, <1>6 DEF token

\* Cutting a record moves one position along the path of every input.
LEMMA CutWalks ==
  ASSUME WalkInv, CutRecord, NEW c \in Possible
  PROVE  Walked(c)'
  <1> DEFINE token == SubSeq(Window, 1, TheCut.token)
             N == NextPosition(format, c, consumed, emitTail)
  <1>0. /\ BufInv /\ origin <= consumed /\ out \in Seq(Record)
        /\ UNCHANGED <<format, origin, emitTail, truncated>>
    BY DEF WalkInv, Setting, CutRecord, source
  <1>1. /\ Walked(c) /\ Target(c) = consumed /\ N = consumed'
        /\ TokenAt(format, c, consumed, emitTail) = token
        /\ RecordAt(c, consumed) <=> token # <<>> /\ IsRecord(format, token)
        /\ ~SkippedAt(c, consumed)
        /\ consumed \in Path(c) /\ consumed < Len(c)
        /\ Target(c)' = consumed'
    BY CutOnPath
  <1>2. /\ consumed' \in Path(c) /\ consumed' > consumed /\ consumed' \in Nat
        /\ \A p \in Path(c) : p < consumed' => p <= consumed
        /\ RecordsBelow(c, consumed')
             = RecordsBelow(c, consumed)
                 \cup (IF RecordAt(c, consumed) THEN {consumed} ELSE {})
        /\ SkipsBelow(c, consumed') = SkipsBelow(c, consumed)
    <2>1. /\ N \in Path(c) /\ N > consumed /\ N \in Nat
          /\ \A p \in Path(c) : p < N => p <= consumed
          /\ RecordsBelow(c, N)
               = RecordsBelow(c, consumed)
                   \cup (IF RecordAt(c, consumed) THEN {consumed} ELSE {})
          /\ SkipsBelow(c, N)
               = SkipsBelow(c, consumed)
                   \cup (IF SkippedAt(c, consumed) THEN {consumed} ELSE {})
      BY <1>0, <1>1, PathStep
    <2>2. SkipsBelow(c, N) = SkipsBelow(c, consumed)
      BY <1>1, <2>1
    <2> HIDE DEF N
    <2> QED BY <1>1, <2>1, <2>2
  <1>3. /\ Path(c)' = Path(c)
        /\ RecordsBelow(c, Target(c))' = RecordsBelow(c, consumed')
        /\ SkipsBelow(c, Target(c))' = SkipsBelow(c, consumed')
    BY <1>0, <1>1, SamePath
  <1>4. /\ {out[i].offset : i \in 1..Len(out)} = RecordsBelow(c, consumed)
        /\ \A i \in 1..Len(out) : out[i].raw = TokenAt(format, c, out[i].offset, emitTail)
        /\ truncated = Cardinality(SkipsBelow(c, consumed))
    BY <1>1 DEF Walked
  <1> HIDE DEF token, N
  <1>5. \/ /\ RecordAt(c, consumed)
           /\ \E rec \in Record :
                rec.offset = consumed /\ rec.raw = token /\ out' = Append(out, rec)
        \/ ~RecordAt(c, consumed) /\ out' = out
    BY <1>1, CutReturns DEF token
  <1>6. /\ {out'[i].offset : i \in 1..Len(out')} = RecordsBelow(c, consumed')
        /\ \A i \in 1..Len(out') :
             out'[i].raw = TokenAt(format, c, out'[i].offset, emitTail)
    <2>1. CASE /\ RecordAt(c, consumed)
               /\ \E rec \in Record :
                    rec.offset = consumed /\ rec.raw = token /\ out' = Append(out, rec)
      <3>1. PICK rec \in Record :
              rec.offset = consumed /\ rec.raw = token /\ out' = Append(out, rec)
        BY <2>1
      <3>2. /\ \A i \in 1..Len(out) : out'[i] = out[i]
            /\ out'[Len(out) + 1] = rec
            /\ \A i \in 1..Len(out') : i \in 1..Len(out) \/ i = Len(out) + 1
            /\ {out'[i].offset : i \in 1..Len(out')}
                 = {out[i].offset : i \in 1..Len(out)} \cup {rec.offset}
        BY <1>0, <3>1, OneMore
      <3>3. {out'[i].offset : i \in 1..Len(out')} = RecordsBelow(c, consumed')
        BY <1>2, <1>4, <2>1, <3>1, <3>2
      <3>4. ASSUME NEW i \in 1..Len(out')
            PROVE  out'[i].raw = TokenAt(format, c, out'[i].offset, emitTail)
        BY <1>1, <1>4, <3>1, <3>2
      <3> QED BY <3>3, <3>4
    <2>2. CASE ~RecordAt(c, consumed) /\ out' = out
      BY <1>2, <1>4, <2>2
    <2> QED BY <1>5, <2>1, <2>2
  <1>7. truncated' = Cardinality(SkipsBelow(c, consumed'))
    BY <1>0, <1>2, <1>4
  <1>8. \A i \in 1..Len(out') :
          out'[i].raw = TokenAt(format', c, out'[i].offset, emitTail')
    BY <1>0, <1>6
  <1>9. consumed' <= Target(c)' /\ Target(c)' \in Path(c)'
    BY <1>1, <1>2, <1>3
  <1>10. \A p \in Path(c)' : p < Target(c)' => p < consumed'
    BY <1>1
  <1> QED BY <1>1, <1>3, <1>6, <1>7, <1>8, <1>9, <1>10 DEF Walked

\* A record that is skipped: the framer will be at the newline that ends it.
LEMMA SkipWalks ==
  ASSUME WalkInv, Skip, NEW c \in Possible
  PROVE  Walked(c)'
  <1> DEFINE N == NextPosition(format, c, consumed, emitTail)
  <1>0. /\ BufInv /\ origin <= consumed /\ (Started => Walked(c))
        /\ UNCHANGED <<format, origin, emitTail, out>>
        /\ pc = "read" /\ bomChecked /\ ~skipping /\ skipping' /\ format # "auto"
        /\ ~atEOF /\ TheCut = NeedMore /\ TooLong
        /\ consumed' = consumed + Have /\ truncated' = truncated + 1
    BY DEF WalkInv, Setting, Skip, Reading, Advance, source
  <1>1. /\ c \in Seq(Byte) /\ Len(c) \in Nat /\ pos <= Len(c) /\ pos \in Nat
        /\ consumed \in Nat /\ consumed + Have = pos /\ MaxRecord \in Nat \ {0}
    BY <1>0, PossibleIs
  <1>2. /\ CutAt(format, c, consumed, emitTail) = NeedMore
        /\ ~WindowAtEOF(c, consumed)
        /\ TokenAt(format, c, consumed, emitTail) = <<>>
        /\ Have = MaxRecord
    BY <1>0, SkipAgrees
  <1>3. Walked(c) /\ Target(c) = consumed
    BY <1>0 DEF Started, Target
  <1>4. ~RecordAt(c, consumed) /\ SkippedAt(c, consumed)
    BY <1>2 DEF RecordAt, SkippedAt
  <1>5. consumed < Len(c) /\ consumed \in Path(c)
    BY <1>0, <1>1, <1>2, <1>3 DEF Walked
  <1>6. N = PastNewline(c, consumed') /\ Target(c)' = N
    <2>1. NeedMore.advance = 0
      BY DEF NeedMore
    <2>2. N = PastNewline(c, consumed + MaxRecord)
      BY <1>2, <2>1 DEF NextPosition
    <2>3. Target(c)' = PastNewline(c, consumed')
      BY <1>0 DEF Target
    <2> QED BY <1>0, <1>2, <2>2, <2>3
  <1>7. /\ N \in Path(c) /\ N \in Nat
        /\ \A p \in Path(c) : p < N => p <= consumed
        /\ RecordsBelow(c, N) = RecordsBelow(c, consumed)
        /\ SkipsBelow(c, N) = SkipsBelow(c, consumed) \cup {consumed}
        /\ IsFiniteSet(SkipsBelow(c, consumed))
        /\ consumed \notin SkipsBelow(c, consumed)
    BY <1>0, <1>4, <1>5, PathStep
  <1> HIDE DEF N
  <1>8. consumed' \in 0..Len(c) /\ consumed' <= N
    <2>1. consumed' \in 0..Len(c)
      BY <1>0, <1>1
    <2>2. N \in consumed'..Len(c)
      BY <1>1, <1>6, <2>1, PastNewlineIs
    <2> QED BY <2>1, <2>2
  <1>9. /\ Path(c)' = Path(c)
        /\ RecordsBelow(c, Target(c))' = RecordsBelow(c, N)
        /\ SkipsBelow(c, Target(c))' = SkipsBelow(c, N)
    BY <1>0, <1>6, SamePath
  <1>10. /\ {out[i].offset : i \in 1..Len(out)} = RecordsBelow(c, consumed)
         /\ \A i \in 1..Len(out) : out[i].raw = TokenAt(format, c, out[i].offset, emitTail)
         /\ truncated = Cardinality(SkipsBelow(c, consumed))
    BY <1>3 DEF Walked
  <1>11. truncated' = Cardinality(SkipsBelow(c, N))
    <2>1. Cardinality(SkipsBelow(c, consumed) \cup {consumed})
            = Cardinality(SkipsBelow(c, consumed)) + 1
      BY <1>7, FS_AddElement
    <2> QED BY <1>0, <1>7, <1>10, <2>1
  <1>12. \A p \in Path(c)' : p < Target(c)' => p < consumed'
    <2>1. ASSUME NEW p \in Path(c), p < N PROVE p < consumed'
      <3>1. p <= consumed /\ p \in Nat
        BY <1>0, <1>7, <2>1, PathIs
      <3> QED BY <1>0, <1>1, <1>2, <3>1
    <2> QED BY <1>6, <1>9, <2>1
  <1>13. /\ {out'[i].offset : i \in 1..Len(out')} = RecordsBelow(c, Target(c))'
         /\ \A i \in 1..Len(out') :
              out'[i].raw = TokenAt(format', c, out'[i].offset, emitTail')
    BY <1>0, <1>7, <1>9, <1>10
  <1> QED BY <1>6, <1>7, <1>8, <1>9, <1>11, <1>12, <1>13 DEF Walked

\* discardToNewline goes to the newline of the whole input, in one step or many.
LEMMA DiscardGoesOn ==
  ASSUME BufInv, Discard \/ DiscardAll, NEW c \in Possible
  PROVE  /\ consumed' >= consumed /\ consumed' \in Nat
         /\ consumed' <= PastNewline(c, consumed)
         /\ Discard => consumed' = PastNewline(c, consumed)
         /\ DiscardAll => PastNewline(c, consumed') = PastNewline(c, consumed)
  <1>1. /\ c \in Seq(Byte) /\ Len(c) \in Nat /\ pos <= Len(c) /\ pos \in Nat
        /\ consumed \in Nat /\ Have \in Nat /\ consumed + Have = pos
        /\ Window \in Seq(Byte) /\ Len(Window) = Have
        /\ consumed \in 0..Len(c)
        /\ \A i \in 1..Have : Window[i] = c[consumed + i]
    BY PossibleIs
  <1>2. ASSUME Discard
        PROVE  /\ consumed' = PastNewline(c, consumed)
               /\ consumed' >= consumed /\ consumed' \in Nat
    <2> DEFINE n == PastLine(Window)
    <2>1. NewlinesIn(Window) # {} /\ consumed' = consumed + n
      BY <1>2 DEF Discard, Advance
    <2>2. n \in 1..Have
      BY <2>1, PastLineInWindow
    <2>3. n \in NewlinesIn(Window) /\ \A y \in NewlinesIn(Window) : n <= y
      <3>1. NewlinesIn(Window) \subseteq Nat
        BY DEF NewlinesIn
      <3> QED BY <2>1, <3>1, MinIsLeast DEF PastLine
    <2> HIDE DEF n
    <2>4. c[consumed + n] = "n" /\ consumed + n \in (consumed + 1)..Len(c)
      <3>1. Window[n] = "n"
        BY <2>3 DEF NewlinesIn
      <3>2. consumed + n \in (consumed + 1)..Len(c)
        BY <1>1, <2>2
      <3> QED BY <1>1, <2>2, <3>1, <3>2
    <2>5. ASSUME NEW k \in (consumed + 1)..((consumed + n) - 1) PROVE c[k] # "n"
      <3>1. k - consumed \in 1..Have /\ k - consumed < n /\ consumed + (k - consumed) = k
        BY <1>1, <2>2
      <3>2. k - consumed \notin NewlinesIn(Window)
        BY <2>2, <2>3, <3>1
      <3>3. Window[k - consumed] # "n"
        BY <1>1, <3>1, <3>2 DEF NewlinesIn
      <3> QED BY <1>1, <3>1, <3>3
    <2>6. PastNewline(c, consumed) = consumed + n
      BY <1>1, <2>4, <2>5, PastNewlineIs
    <2> QED BY <1>1, <2>1, <2>2, <2>6
  <1>3. ASSUME DiscardAll
        PROVE  /\ PastNewline(c, consumed') = PastNewline(c, consumed)
               /\ consumed' >= consumed /\ consumed' \in Nat
               /\ consumed' <= PastNewline(c, consumed)
    <2>1. NewlinesIn(Window) = {} /\ consumed' = consumed + Have
      BY <1>3 DEF DiscardAll, Advance
    <2>2. ASSUME NEW k \in (consumed + 1)..(consumed + Have) PROVE c[k] # "n"
      <3>1. k - consumed \in 1..Have /\ consumed + (k - consumed) = k
        BY <1>1
      <3>2. Window[k - consumed] # "n"
        BY <1>1, <2>1, <3>1 DEF NewlinesIn
      <3> QED BY <1>1, <3>1, <3>2
    <2>3. consumed + Have \in consumed..Len(c) /\ consumed + Have \in 0..Len(c)
      BY <1>1
    <2>4. PastNewline(c, consumed) = PastNewline(c, consumed + Have)
      BY <1>1, <2>2, <2>3, PastNewlineIs
    <2>5. PastNewline(c, consumed + Have) \in (consumed + Have)..Len(c)
      BY <1>1, <2>3, PastNewlineIs
    <2> QED BY <1>1, <2>1, <2>3, <2>4, <2>5
  <1>4. CASE Discard
    <2>1. ~DiscardAll
      BY <1>4 DEF Discard, DiscardAll
    <2> QED BY <1>2, <1>4, <2>1
  <1>5. CASE DiscardAll
    <2>1. ~Discard
      BY <1>5 DEF Discard, DiscardAll
    <2> QED BY <1>3, <1>5, <2>1
  <1> QED BY <1>4, <1>5

\* Inside a skipped record, up to its newline.
LEMMA DiscardWalks ==
  ASSUME WalkInv, Started, pc = "read", skipping, bomChecked,
         Discard \/ DiscardAll, NEW c \in Possible
  PROVE  Walked(c)'
  <1>0. /\ BufInv /\ origin <= consumed /\ Walked(c)
        /\ UNCHANGED <<format, origin, emitTail, out, truncated>>
    BY DEF WalkInv, Setting, Discard, DiscardAll, source, stats
  <1>1. consumed \in Nat /\ Target(c) = PastNewline(c, consumed)
    BY <1>0 DEF Target, BufInv, SourceShape
  <1>2. /\ consumed' >= consumed /\ consumed' \in Nat
        /\ consumed' <= PastNewline(c, consumed)
        /\ Discard => consumed' = PastNewline(c, consumed)
        /\ DiscardAll => PastNewline(c, consumed') = PastNewline(c, consumed)
    BY <1>0, DiscardGoesOn
  <1>3. Target(c)' = Target(c) /\ consumed' <= Target(c)
    <2>1. CASE Discard
      <3>1. skipping' = FALSE
        BY <2>1 DEF Discard
      <3>2. Target(c)' = consumed'
        BY <3>1 DEF Target
      <3> QED BY <1>1, <1>2, <2>1, <3>2
    <2>2. CASE DiscardAll
      <3>1. skipping' = skipping
        BY <2>2 DEF DiscardAll
      <3>2. Target(c)' = PastNewline(c, consumed')
        BY <3>1 DEF Target
      <3> QED BY <1>1, <1>2, <2>2, <3>2
    <2> QED BY <2>1, <2>2
  <1>4. /\ Path(c)' = Path(c)
        /\ RecordsBelow(c, Target(c))' = RecordsBelow(c, Target(c))
        /\ SkipsBelow(c, Target(c))' = SkipsBelow(c, Target(c))
    BY <1>0, <1>3, SamePath
  <1>5. \A p \in Path(c) : p < Target(c) => p < consumed'
    <2>1. ASSUME NEW p \in Path(c), p < Target(c) PROVE p < consumed'
      <3>1. p < consumed /\ p \in Nat
        BY <1>0, <2>1, PathIs DEF Walked
      <3> QED BY <1>1, <1>2, <3>1
    <2> QED BY <2>1
  <1>6. \A i \in 1..Len(out') :
          out'[i].raw = TokenAt(format', c, out'[i].offset, emitTail')
    BY <1>0 DEF Walked
  <1> QED BY <1>0, <1>3, <1>4, <1>5, <1>6 DEF Walked

\* Steps that move nothing keep it, for the inputs that are still possible.
LEMMA StillWalked ==
  ASSUME NEW c, Walked(c),
         UNCHANGED <<format, origin, emitTail, consumed, skipping, out, truncated>>
  PROVE  Walked(c)'
  <1>1. Target(c)' = Target(c)
    BY DEF Target
  <1>2. /\ Path(c)' = Path(c)
        /\ RecordsBelow(c, Target(c))' = RecordsBelow(c, Target(c))
        /\ SkipsBelow(c, Target(c))' = SkipsBelow(c, Target(c))
    BY <1>1, SamePath
  <1>3. \A i \in 1..Len(out') :
          out'[i].raw = TokenAt(format', c, out'[i].offset, emitTail')
    BY DEF Walked
  <1> QED BY <1>1, <1>2, <1>3 DEF Walked

-----------------------------------------------------------------------------
\* An input that is possible after a step was possible before it.
LEMMA PossibleShrinks ==
  ASSUME BufInv, BufInv', UNCHANGED content, pos <= pos',
         atEOF => atEOF' /\ pos' = pos
  PROVE  Possible' \subseteq Possible
  <1> SUFFICES ASSUME NEW c \in Possible' PROVE c \in Possible
    OBVIOUS
  <1>1. PICK k \in IF atEOF' THEN {pos'} ELSE pos'..Len(content) :
          c = SubSeq(content, 1, k)
    BY DEF Possible
  <1>2. /\ pos \in Nat /\ pos' \in Nat /\ pos' <= Len(content) /\ Len(content) \in Nat
    BY LenProperties DEF BufInv, TypeOK, SourceShape
  <1>3. k \in IF atEOF THEN {pos} ELSE pos..Len(content)
    <2>1. CASE atEOF
      BY <2>1, <1>1
    <2>2. CASE ~atEOF
      <3>1. k \in pos'..Len(content)
        BY <1>1, <1>2
      <3> QED BY <1>2, <2>2, <3>1
    <2> QED BY <2>1, <2>2
  <1> QED BY <1>1, <1>3 DEF Possible

\* Before anything is returned the records need no other care.
LEMMA NothingWalked ==
  BufInv /\ Setting /\ NothingYet /\ (AtStart \/ ~Started) => WalkInv
  <1> SUFFICES ASSUME BufInv, Setting, NothingYet, AtStart \/ ~Started PROVE WalkInv
    OBVIOUS
  <1>1. origin <= consumed
    BY DEF Setting
  <1>2. Started => \A c \in Possible : Walked(c)
    BY <1>1, StartIsWalked
  <1>3. InOrder
    BY EmptySeq DEF InOrder, NothingYet
  <1> QED BY <1>2, <1>3 DEF WalkInv

\* Nothing has been walked when the parser is made.
LEMMA WalkInit == Init => WalkInv
  <1> SUFFICES ASSUME Init PROVE WalkInv
    OBVIOUS
  <1>1. BufInv
    BY BufInit
  <1>2. NothingYet /\ ~Started
    BY DEF Init, NothingYet, Started
  <1>3. Setting
    BY <1>2 DEF Init, Setting
  <1> QED BY <1>1, <1>2, <1>3, NothingWalked

\* Reading from the source, and the calls that begin or end a record.
LEMMA QuietWalks ==
  ASSUME WalkInv, BufInv',
         FillRead \/ FillEnded \/ NextCall \/ EndOfInput \/ UNCHANGED vars
  PROVE  WalkInv'
  <1>0. BufInv /\ Setting /\ InOrder /\ (Started => \A c \in Possible : Walked(c))
    BY DEF WalkInv
  <1>1. UNCHANGED <<content, format, origin, emitTail, consumed, skipping, out, truncated,
                    bomChecked>>
    BY DEF FillRead, FillEnded, NextCall, EndOfInput, vars, source, buf, stats
  <1>2. /\ atEOF => atEOF' /\ pos' = pos
        /\ pos <= pos'
    <2>1. pos \in Nat /\ \A n \in ReadSizes : n \in Nat
      <3>1. Len(content) \in Nat
        BY <1>0, LenProperties DEF BufInv, SourceShape
      <3>2. pos \in Nat
        BY <1>0, <3>1 DEF BufInv, TypeOK
      <3>3. \A n \in ReadSizes : n \in Nat
        BY ParserAssumption
      <3> QED BY <3>2, <3>3
    <2>2. CASE FillRead
      <3>1. ~atEOF /\ (pos' = pos \/ \E n \in ReadSizes : pos' = pos + n)
        BY <2>2 DEF FillRead, NeedsData
      <3> QED BY <2>1, <3>1
    <2>3. CASE FillEnded \/ NextCall \/ EndOfInput \/ UNCHANGED vars
      <3>1. pos' = pos /\ (atEOF => atEOF')
        BY <2>3 DEF FillEnded, NextCall, EndOfInput, vars, buf
      <3> QED BY <2>1, <3>1
    <2> QED BY <2>2, <2>3
  <1>3. Possible' \subseteq Possible
    BY <1>0, <1>1, <1>2, PossibleShrinks
  <1>4. \/ pc' = pc
        \/ pc = "idle" /\ pc' = IF format = "auto" THEN "format" ELSE "read"
        \/ pc = "read" /\ pc' = "ended"
    BY DEF FillRead, FillEnded, NextCall, EndOfInput, vars
  <1>5. Started' <=> Started
    BY <1>1, <1>4 DEF Started
  <1>6. NothingYet' <=> NothingYet
    BY <1>1 DEF NothingYet
  <1>7. AtStart => AtStart'
    BY <1>1, <1>3 DEF AtStart, Start
  <1>8. Setting'
    <2>1. /\ pc' \in {"format", "seekformat"} => format' = "auto"
          /\ pc' \in {"read", "resync", "drop"} => format' # "auto"
          /\ pc' \in {"seekformat", "resync", "drop"} => consumed' > 0
      BY <1>0, <1>1, <1>4 DEF Setting
    <2>2. /\ out' \in Seq(Record) /\ origin' <= consumed'
          /\ ~bomChecked' => consumed' = origin'
      BY <1>0, <1>1 DEF Setting
    <2>3. /\ ~Started' => NothingYet'
          /\ bomChecked' /\ format' = "auto" => AtStart'
      BY <1>0, <1>1, <1>5, <1>6, <1>7 DEF Setting
    <2> QED BY <2>1, <2>2, <2>3 DEF Setting
  <1>9. InOrder'
    BY <1>0, <1>1 DEF InOrder
  <1>10. ASSUME Started', NEW c \in Possible' PROVE Walked(c)'
    <2>1. Walked(c)
      BY <1>0, <1>3, <1>5, <1>10
    <2> QED BY <1>1, <2>1, StillWalked
  <1> QED BY <1>8, <1>9, <1>10 DEF WalkInv

\* The byte order mark is all that can lie before the first record.
LEMMA MarkWalks ==
  ASSUME WalkInv, BufInv', CheckBOM
  PROVE  WalkInv'
  <1>0. /\ BufInv /\ Setting /\ UNCHANGED <<content, pos, atEOF, origin, out, truncated,
                                           skipping, pc, format>>
        /\ ~bomChecked /\ bomChecked' /\ (consumed # 0 \/ Have > 0 \/ atEOF)
        /\ IF consumed = 0 /\ Have > 0 /\ Window[1] = "b"
           THEN consumed' = consumed + 1 ELSE consumed' = consumed
    BY DEF WalkInv, CheckBOM, Advance, source, stats
  <1>1. NothingYet /\ consumed = origin /\ origin <= consumed
    BY <1>0 DEF Setting, Started
  <1>2. consumed \in Nat
    BY <1>0 DEF BufInv, SourceShape
  <1>3. Possible' = Possible
    BY <1>0 DEF Possible
  <1>4. ASSUME NEW c \in Possible PROVE consumed' = Start(c)
    <2>1. /\ c \in Seq(Byte) /\ Len(c) \in Nat /\ pos <= Len(c)
          /\ atEOF => Len(c) = pos
          /\ Have \in Nat /\ consumed + Have = pos
          /\ \A i \in 1..Have : Window[i] = c[consumed + i]
      BY <1>0, PossibleIs
    <2>2. CASE consumed # 0
      BY <1>0, <1>1, <2>2 DEF Start
    <2>3. CASE consumed = 0 /\ Have > 0
      <3>1. c # <<>>
        BY <2>1, <2>3, EmptySeq
      <3>2. Window[1] = c[1]
        BY <2>1, <2>3
      <3>3. consumed' = IF c[1] = "b" THEN 1 ELSE 0
        BY <1>0, <2>3, <3>2
      <3> QED BY <1>1, <2>3, <3>1, <3>3 DEF Start, StartOf
    <2>4. CASE consumed = 0 /\ ~(Have > 0)
      <3>1. Len(c) = 0
        BY <1>0, <2>1, <2>4
      <3>2. c = <<>>
        BY <2>1, <3>1, EmptySeq
      <3> QED BY <1>0, <1>1, <2>4, <3>2 DEF Start, StartOf
    <2> QED BY <1>2, <2>2, <2>3, <2>4
  <1>5. AtStart'
    BY <1>0, <1>3, <1>4 DEF AtStart, Start
  <1>6. NothingYet'
    BY <1>0, <1>1 DEF NothingYet
  <1>7. Setting'
    <2>1. consumed' \in Nat /\ consumed <= consumed' /\ origin' <= consumed'
      BY <1>0, <1>1, <1>2
    <2>2. /\ pc' \in {"format", "seekformat"} => format' = "auto"
          /\ pc' \in {"read", "resync", "drop"} => format' # "auto"
          /\ pc' \in {"seekformat", "resync", "drop"} => consumed' > 0
      BY <1>0, <1>2, <2>1 DEF Setting
    <2>3. out' \in Seq(Record)
      BY <1>0 DEF Setting
    <2> QED BY <1>0, <1>5, <1>6, <2>1, <2>2, <2>3 DEF Setting
  <1> QED BY <1>5, <1>6, <1>7, NothingWalked, PTL

\* Detection moves nothing.
LEMMA FormatWalks ==
  ASSUME WalkInv, BufInv', EnsureFormat
  PROVE  WalkInv'
  <1>0. /\ BufInv /\ Setting
        /\ UNCHANGED <<content, pos, atEOF, consumed, out, truncated, skipping, bomChecked>>
        /\ pc \in {"format", "seekformat"} /\ bomChecked /\ format = "auto"
    BY DEF WalkInv, EnsureFormat, source, buf, stats
  <1>1. \/ /\ format' \in Formats
           /\ pc' = IF pc = "format" THEN "read" ELSE "resync"
           /\ origin' = origin
        \/ /\ pc' = IF pc = "format" THEN "ended" ELSE "idle"
           /\ origin' = IF pc = "format" THEN origin ELSE consumed
           /\ format' = "auto"
    <2>1. \A line : ClassifyLine(actual, line) \in Formats
      BY <1>0 DEF ClassifyLine, Formats, BufInv, SourceShape
    <2> QED BY <1>0, <2>1 DEF EnsureFormat
  <1>2. /\ NothingYet /\ AtStart /\ origin <= consumed /\ out \in Seq(Record)
        /\ pc = "seekformat" => consumed > 0
    BY <1>0 DEF Setting, Started
  <1>3. Possible' = Possible /\ consumed \in Nat
    BY <1>0 DEF Possible, BufInv, SourceShape
  <1>4. AtStart'
    <2>1. CASE origin' = origin
      BY <1>0, <1>2, <1>3, <2>1 DEF AtStart, Start
    <2>2. CASE origin' = consumed /\ pc = "seekformat"
      BY <1>0, <1>2, <1>3, <2>2 DEF AtStart, Start
    <2> QED BY <1>0, <1>1, <2>1, <2>2
  <1>5. NothingYet'
    BY <1>0, <1>2 DEF NothingYet
  <1>6. Setting'
    <2>1. /\ pc' \in {"format", "seekformat"} => format' = "auto"
          /\ pc' \in {"read", "resync", "drop"} => format' # "auto"
          /\ pc' \in {"seekformat", "resync", "drop"} => consumed' > 0
      BY <1>0, <1>1, <1>2 DEF Formats
    <2>2. origin' <= consumed'
      BY <1>0, <1>1, <1>2, <1>3
    <2> QED BY <1>0, <1>2, <1>4, <1>5, <2>1, <2>2 DEF Setting
  <1> QED BY <1>4, <1>5, <1>6, NothingWalked, PTL

\* A Seek and the search for a record start return nothing.
LEMMA SeekWalks ==
  ASSUME WalkInv, BufInv', \E offset \in 0..Len(content) : Seek(offset)
  PROVE  WalkInv'
  <1>1. PICK offset \in 0..Len(content) : Seek(offset)
    OBVIOUS
  <1>2. offset \in Nat
    <2>1. Len(content) \in Nat
      BY LenProperties DEF WalkInv, BufInv, SourceShape
    <2> QED BY <2>1
  <1>3. NothingYet' /\ ~Started'
    BY <1>1 DEF Seek, NothingYet, Started
  <1>4. Setting'
    <2>1. /\ out' = <<>> /\ consumed' = offset /\ origin' = offset
          /\ format' = format /\ ~bomChecked'
          /\ pc' = IF offset = 0 THEN "idle"
                   ELSE IF format = "auto" THEN "seekformat" ELSE "resync"
      BY <1>1 DEF Seek
    <2>2. out' \in Seq(Record) /\ origin' <= consumed'
      BY <1>2, <2>1
    <2>3. /\ pc' \in {"format", "seekformat"} => format' = "auto"
          /\ pc' \in {"read", "resync", "drop"} => format' # "auto"
          /\ pc' \in {"seekformat", "resync", "drop"} => consumed' > 0
      BY <1>2, <2>1
    <2> QED BY <1>3, <2>1, <2>2, <2>3 DEF Setting
  <1> QED BY <1>3, <1>4, NothingWalked, PTL

\* The steps of a seek deliver nothing and walk no position.
LEMMA ResyncWalks ==
  ASSUME WalkInv, BufInv',
         \/ Resynced \/ ResyncLine \/ ResyncEnds
         \/ pc = "drop" /\ (Discard \/ DiscardAll)
  PROVE  WalkInv'
  <1>0. BufInv /\ Setting
    BY DEF WalkInv
  <1>1. /\ pc \in {"resync", "drop"}
        /\ UNCHANGED <<content, pos, atEOF, out, truncated, bomChecked, format>>
        /\ skipping' \in {skipping, FALSE}
        /\ \/ pc' \in {"resync", "drop"} /\ origin' = origin
           \/ pc' = "idle" /\ origin' = consumed /\ consumed' = consumed
    BY DEF Resynced, ResyncLine, ResyncEnds, Discard, DiscardAll, source, buf, stats
  <1>2. /\ NothingYet /\ format # "auto" /\ consumed > 0 /\ origin <= consumed
        /\ out \in Seq(Record) /\ (~bomChecked => consumed = origin)
    BY <1>0, <1>1 DEF Setting, Started
  <1>3. consumed \in Nat /\ consumed' \in Nat /\ origin \in Nat /\ Possible' = Possible
    BY <1>0, <1>1 DEF Possible, BufInv, SourceShape
  <1>4. consumed' >= consumed /\ (~bomChecked => consumed' = consumed)
    <2>1. CASE Resynced \/ ResyncLine \/ ResyncEnds
      <3>1. consumed' = consumed
        BY <2>1 DEF Resynced, ResyncLine, ResyncEnds, buf
      <3> QED BY <1>3, <3>1
    <2>2. CASE Discard
      <3>1. /\ consumed' = consumed + PastLine(Window) /\ bomChecked
            /\ NewlinesIn(Window) # {}
        BY <2>2 DEF Discard, Advance
      <3>2. PastLine(Window) \in 1..Have /\ Have \in Nat
        BY <1>0, <3>1, PastLineInWindow, WindowIs
      <3> QED BY <1>3, <3>1, <3>2
    <2>3. CASE DiscardAll
      <3>1. consumed' = consumed + Have /\ bomChecked
        BY <2>3 DEF DiscardAll, Advance
      <3>2. Have \in Nat
        BY <1>0, WindowIs
      <3> QED BY <1>3, <3>1, <3>2
    <2> QED BY <2>1, <2>2, <2>3
  <1>5. NothingYet'
    <2>1. ~skipping /\ out = <<>> /\ truncated = 0
      BY <1>2 DEF NothingYet
    <2>2. ~skipping'
      BY <1>1, <2>1
    <2>3. out' = <<>> /\ truncated' = 0
      BY <1>1, <2>1
    <2> QED BY <2>2, <2>3 DEF NothingYet
  <1>6. AtStart' \/ ~Started'
    <2>1. CASE pc' \in {"resync", "drop"}
      BY <2>1 DEF Started
    <2>2. CASE pc' = "idle" /\ origin' = consumed /\ consumed' = consumed
      BY <1>2, <1>3, <2>2 DEF AtStart, Start
    <2> QED BY <1>1, <2>1, <2>2
  <1>7. Setting'
    <2>1. /\ pc' \in {"format", "seekformat"} => format' = "auto"
          /\ pc' \in {"read", "resync", "drop"} => format' # "auto"
          /\ pc' \in {"seekformat", "resync", "drop"} => consumed' > 0
      BY <1>1, <1>2, <1>3, <1>4
    <2>2. origin' <= consumed' /\ (~bomChecked' => consumed' = origin')
      BY <1>1, <1>2, <1>3, <1>4
    <2> QED BY <1>1, <1>2, <1>5, <2>1, <2>2 DEF Setting
  <1> QED BY <1>5, <1>6, <1>7, NothingWalked, PTL

\* The steps inside the framing: a skip, a record, the rest of a skipped one.
LEMMA ReadWalks ==
  ASSUME WalkInv, BufInv',
         Skip \/ CutRecord \/ (pc = "read" /\ (Discard \/ DiscardAll))
  PROVE  WalkInv'
  <1>0. /\ BufInv /\ Setting /\ InOrder /\ (Started => \A c \in Possible : Walked(c))
    BY DEF WalkInv
  <1>1. /\ UNCHANGED <<content, pos, atEOF, bomChecked, format, origin, emitTail>>
        /\ pc = "read" /\ bomChecked /\ pc' \in {"read", "idle"}
    BY DEF Skip, CutRecord, Discard, DiscardAll, Reading, source, buf
  <1>2. /\ format # "auto" /\ origin <= consumed /\ out \in Seq(Record)
        /\ Started /\ Started' /\ Possible' = Possible
    BY <1>0, <1>1 DEF Setting, Started, Possible
  <1>3. consumed \in Nat /\ consumed' \in Nat /\ origin \in Nat
    BY <1>0, <1>1 DEF BufInv, SourceShape
  <1>4. consumed' >= consumed
    <2>1. Have \in Nat /\ TheCut.advance \in Nat
      <3>1. Have \in Nat /\ TheCut.advance \in 0..Have
        BY <1>0, WindowIs, TheCutIsCut
      <3> QED BY <3>1
    <2>2. CASE Skip \/ DiscardAll
      <3>1. consumed' = consumed + Have
        BY <2>2 DEF Skip, DiscardAll, Advance
      <3> QED BY <1>3, <2>1, <3>1
    <2>3. CASE CutRecord
      <3>1. consumed' = consumed + TheCut.advance
        BY <2>3 DEF CutRecord, Advance
      <3> QED BY <1>3, <2>1, <3>1
    <2>4. CASE Discard
      <3>1. consumed' = consumed + PastLine(Window) /\ NewlinesIn(Window) # {}
        BY <2>4 DEF Discard, Advance
      <3>2. PastLine(Window) \in 1..Have
        BY <1>0, <3>1, PastLineInWindow
      <3> QED BY <1>3, <2>1, <3>1, <3>2
    <2> QED BY <2>2, <2>3, <2>4
  <1>5. ASSUME NEW c \in Possible PROVE Walked(c)'
    <2>1. CASE Skip
      BY <2>1, SkipWalks
    <2>2. CASE CutRecord
      BY <2>2, CutWalks
    <2>3. CASE Discard \/ DiscardAll
      <3>1. skipping
        BY <1>1, <2>3 DEF Discard, DiscardAll, Dropping
      <3> QED BY <1>1, <1>2, <2>3, <3>1, DiscardWalks
    <2> QED BY <2>1, <2>2, <2>3
  <1>6. out' \in Seq(Record) /\ InOrder'
    <2>1. CASE out' = out
      BY <1>0, <1>2, <2>1 DEF InOrder
    <2>2. CASE CutRecord /\ out' # out
      <3>1. PICK rec \in Record : rec.offset = consumed /\ out' = Append(out, rec)
        BY <2>2, CutReturns
      <3>2. /\ Len(out) \in Nat /\ Len(out') = Len(out) + 1 /\ out' \in Seq(Record)
            /\ \A i \in 1..Len(out) : out'[i] = out[i]
            /\ out'[Len(out) + 1] = rec
            /\ \A i \in 1..Len(out') : i \in 1..Len(out) \/ i = Len(out) + 1
        BY <1>2, <3>1, OneMore
      <3>3. ASSUME NEW i \in 1..Len(out) PROVE out[i].offset < consumed
        <4>1. Input \in Possible
          BY <1>0, InputIsPossible
        <4>2. ~skipping
          BY <2>2 DEF CutRecord, Reading
        <4>3. /\ {out[k].offset : k \in 1..Len(out)} = RecordsBelow(Input, Target(Input))
              /\ Target(Input) = consumed
          BY <1>0, <1>2, <4>1, <4>2 DEF Walked, Target
        <4>4. out[i].offset \in RecordsBelow(Input, consumed)
          BY <4>3
        <4> QED BY <4>4 DEF RecordsBelow
      <3>4. ASSUME NEW i \in 1..Len(out'), NEW j \in 1..Len(out'), i < j
            PROVE  out'[i].offset < out'[j].offset
        <4>1. i \in 1..Len(out)
          BY <3>2, <3>4
        <4>2. CASE j \in 1..Len(out)
          BY <1>0, <3>2, <3>4, <4>1, <4>2 DEF InOrder
        <4>3. CASE j = Len(out) + 1
          BY <3>1, <3>2, <3>3, <4>1, <4>3
        <4> QED BY <3>2, <4>2, <4>3
      <3> QED BY <3>2, <3>4 DEF InOrder
    <2>3. Skip \/ Discard \/ DiscardAll => out' = out
      BY DEF Skip, Discard, DiscardAll
    <2> QED BY <2>1, <2>2, <2>3
  <1>7. Setting'
    <2>1. origin' <= consumed'
      BY <1>1, <1>2, <1>3, <1>4
    <2> QED BY <1>1, <1>2, <1>6, <2>1 DEF Setting
  <1> QED BY <1>2, <1>5, <1>6, <1>7 DEF WalkInv

\* Every step of a call walks the path of every input it may be reading.
LEMMA WalkStep == WalkInv /\ [Next]_vars => WalkInv'
  <1> SUFFICES ASSUME WalkInv, [Next]_vars PROVE WalkInv'
    OBVIOUS
  <1>1. BufInv'
    BY BufStep DEF WalkInv
  <1>2. CASE FillRead \/ FillEnded \/ NextCall \/ EndOfInput \/ UNCHANGED vars
    BY <1>1, <1>2, QuietWalks
  <1>3. CASE CheckBOM
    BY <1>1, <1>3, MarkWalks
  <1>4. CASE EnsureFormat
    BY <1>1, <1>4, FormatWalks
  <1>5. CASE \E offset \in 0..Len(content) : Seek(offset)
    BY <1>1, <1>5, SeekWalks
  <1>6. CASE Resynced \/ ResyncLine \/ ResyncEnds
    BY <1>1, <1>6, ResyncWalks
  <1>7. CASE Skip \/ CutRecord
    BY <1>1, <1>7, ReadWalks
  <1>8. CASE Discard \/ DiscardAll
    <2>1. pc = "read" \/ pc = "drop"
      BY <1>8 DEF Discard, DiscardAll, Dropping
    <2>2. CASE pc = "read"
      BY <1>1, <1>8, <2>2, ReadWalks
    <2>3. CASE pc = "drop"
      BY <1>1, <1>8, <2>3, ResyncWalks
    <2> QED BY <2>1, <2>2, <2>3
  <1> QED BY <1>2, <1>3, <1>4, <1>5, <1>6, <1>7, <1>8 DEF Next, Step

(***************************************************************************)
(* What the parser has returned are the records of the input before the    *)
(* point it has come to: each once, in order, at its offset, with its      *)
(* bytes, whatever sizes the source's answers have, whatever the buffer's  *)
(* size and wherever the last Seek landed.  When the stream has ended the  *)
(* input was used up and the records counted as truncated are those that   *)
(* no window of MaxRecord bytes holds.                                     *)
(***************************************************************************)
THEOREM RecordsAreThoseOfInput == Spec => []RecordsAreThoseOfTheInput
  <1>1. WalkInv /\ EndInv => RecordsAreThoseOfTheInput
    <2> SUFFICES ASSUME WalkInv, EndInv,
                        format # "auto", pc \notin {"seekformat", "resync", "drop"}
                 PROVE  RecordsAreThoseOfTheInput
      BY DEF RecordsAreThoseOfTheInput
    <2> DEFINE c == Input
    <2>0. BufInv /\ Setting /\ InOrder /\ origin <= consumed
      BY DEF WalkInv, Setting
    <2>1. c \in Possible /\ (atEOF => Len(c) = pos)
      BY <2>0, InputIsPossible
    <2>2. FirstRecordAt = Start(c)
      BY DEF FirstRecordAt, Start
    <2> HIDE DEF c
    <2>3. /\ Path(c) \subseteq Start(c)..Len(c) /\ Path(c) \subseteq Nat
          /\ Start(c) \in Nat /\ Len(c) \in Nat /\ consumed \in 0..Len(c)
      BY <2>0, <2>1, PathIs, PossibleIs
    <2>4. RecordOffsets(format, c, Start(c), emitTail) = {p \in Path(c) : RecordAt(c, p)}
      BY DEF RecordOffsets, Path, RecordAt
    <2>5. Skipped(format, c, Start(c), emitTail)
            = Cardinality({p \in Path(c) : SkippedAt(c, p)})
      BY DEF Skipped, Path, SkippedAt
    <2>6. {o \in RecordOffsets(format, c, Start(c), emitTail) : o < consumed}
            = RecordsBelow(c, consumed)
      BY <2>4 DEF RecordsBelow
    <2>7. /\ {out[i].offset : i \in 1..Len(out)} = RecordsBelow(c, consumed)
          /\ \A i \in 1..Len(out) :
               out[i].raw = TokenAt(format, c, out[i].offset, emitTail)
      <3>1. CASE Started
        <4>1. Walked(c)
          BY <2>1, <3>1 DEF WalkInv
        <4>2. \A p \in Path(c) : p < Target(c) <=> p < consumed
          <5>1. /\ Target(c) \in Nat /\ consumed \in Nat /\ consumed <= Target(c)
                /\ \A p \in Path(c) : p < Target(c) => p < consumed
            BY <2>3, <4>1 DEF Walked
          <5> QED BY <2>3, <5>1
        <4>3. RecordsBelow(c, Target(c)) = RecordsBelow(c, consumed)
          BY <4>2 DEF RecordsBelow
        <4> QED BY <4>1, <4>3 DEF Walked
      <3>2. CASE ~Started
        <4>1. out = <<>> /\ ~bomChecked /\ consumed = origin
          BY <2>0, <3>2 DEF Setting, Started, NothingYet
        <4>2. consumed <= Start(c)
          BY <2>3, <4>1 DEF Start
        <4>3. RecordsBelow(c, consumed) = {}
          <5>1. ASSUME NEW p \in Path(c) PROVE ~(p < consumed)
            BY <2>3, <4>2
          <5> QED BY <5>1 DEF RecordsBelow
        <4>4. Len(out) = 0
          BY <4>1, EmptySeq
        <4> QED BY <4>3, <4>4
      <3> QED BY <3>1, <3>2
    <2>8. ASSUME pc = "ended"
          PROVE  consumed = Len(c) /\ truncated = Skipped(format, c, Start(c), emitTail)
      <3>1. consumed = pos /\ atEOF /\ bomChecked
        BY <2>0, <2>8 DEF EndInv, EndShape, BufInv, SourceShape
      <3>2. consumed = Len(c)
        BY <2>1, <3>1
      <3>3. Walked(c)
        BY <2>1, <2>8, <3>1 DEF WalkInv, Started
      <3>4. Target(c) = Len(c)
        <4>1. Target(c) \in Start(c)..Len(c) /\ consumed <= Target(c)
          BY <2>3, <3>3 DEF Walked
        <4> QED BY <2>3, <3>2, <4>1
      <3>5. MaxRecord \in Nat \ {0}
        BY FramingAssumption
      <3>6. ASSUME NEW p \in Path(c), SkippedAt(c, p) PROVE p < Len(c)
        <4>1. p \in Nat /\ p <= Len(c) /\ ~(Len(c) - p < MaxRecord)
          BY <2>3, <3>6 DEF SkippedAt, WindowAtEOF
        <4> QED BY <2>3, <3>5, <4>1
      <3>7. SkipsBelow(c, Len(c)) = {p \in Path(c) : SkippedAt(c, p)}
        BY <3>6 DEF SkipsBelow
      <3> QED BY <2>5, <3>2, <3>3, <3>4, <3>7 DEF Walked
    <2> QED BY <2>0, <2>2, <2>6, <2>7, <2>8 DEF RecordsAreThoseOfTheInput, InOrder, c
  <1> QED BY <1>1, WalkInit, WalkStep, EndInit, EndStep, PTL DEF Spec

(***************************************************************************)
(* resync decides from its window as it would from the whole input, unless *)
(* blank lines fill all that it looks at.                                  *)
(***************************************************************************)
LEMMA ResyncSees ==
  ASSUME BufInv, ~BlankRun(content), Peeked(ResyncPeek), NEW c \in Possible
  PROVE  FirstNonEmptyLine(Window) = 0 \/ OnBoundary(Window) <=> Stops(c, consumed)
  <1> DEFINE S == Sample(c, consumed)
             n == Len(S)
             f == FirstNonEmptyLine(Window)
             most == Shorter(ResyncPeek, MaxRecord)
  <1>1. /\ c \in Seq(Byte) /\ Len(c) \in Nat /\ pos <= Len(c) /\ pos \in Nat
        /\ atEOF => Len(c) = pos
        /\ Have \in Nat /\ consumed \in Nat /\ consumed + Have = pos /\ Have <= MaxRecord
        /\ Window \in Seq(Byte) /\ Len(Window) = Have
        /\ consumed \in 0..Len(c)
        /\ \A i \in 1..Have : Window[i] = c[consumed + i]
    BY PossibleIs
  <1>2. /\ S \in Seq(Byte) /\ n = Shorter(most, Len(c) - consumed)
        /\ \A i \in 1..n : S[i] = c[consumed + i]
    BY <1>1, SampleIs
  <1>3. Have >= most \/ atEOF
    BY DEF Peeked
  <1>4. most \in Nat /\ ResyncPeek \in Nat /\ MaxRecord \in Nat /\ most \in {ResyncPeek, MaxRecord}
    BY FramingAssumption DEF Shorter
  <1> HIDE DEF most, S
  <1>5. n \in Nat /\ n <= Have /\ n <= most /\ (n < Have => n = most)
    BY <1>1, <1>2, <1>3, <1>4 DEF Shorter
  <1> HIDE DEF n
  <1>6. \A i \in 1..n : S[i] = Window[i] /\ i \in 1..Have
    <2>1. \A i \in 1..n : i \in 1..Have
      BY <1>1, <1>5
    <2> QED BY <1>1, <1>2, <2>1
  <1>7. Stops(c, consumed) <=> FirstNonEmptyLine(S) = 0
                                 \/ (FirstNonEmptyLine(S) > 0 /\ S[FirstNonEmptyLine(S)] = "s")
    BY DEF Stops, IsRecordStart, S
  <1>8. Len(S) = n
    BY DEF n
  <1>9. CASE f = 0
    <2>1. \A i \in 1..Have : Window[i] = "n"
      BY <1>1, <1>9, FirstLineIs
    <2>2. FirstNonEmptyLine(S) = 0
      BY <1>2, <1>6, <1>8, <2>1, FirstLineIs
    <2> QED BY <1>7, <1>9, <2>2
  <1>10. CASE f # 0
    <2>1. /\ f \in 1..Have /\ Window[f] # "n"
          /\ \A k \in 1..Have : Window[k] # "n" => f <= k
      BY <1>1, <1>10, FirstLineIs
    <2>2. OnBoundary(Window) <=> Window[f] = "s"
      <3>1. f > 0
        BY <1>1, <2>1
      <3> QED BY <3>1 DEF OnBoundary, IsRecordStart
    <2> HIDE DEF f
    <2>3. CASE f <= n
      <3>1. f \in 1..n /\ S[f] = Window[f]
        BY <1>1, <1>5, <1>6, <2>1, <2>3
      <3>2. FirstNonEmptyLine(S) # 0
        BY <1>2, <1>8, <2>1, <3>1, FirstLineIs
      <3>3. /\ FirstNonEmptyLine(S) \in 1..n /\ S[FirstNonEmptyLine(S)] # "n"
            /\ FirstNonEmptyLine(S) <= f
        BY <1>2, <1>8, <2>1, <3>1, <3>2, FirstLineIs
      <3>4. FirstNonEmptyLine(S) = f
        <4>1. f <= FirstNonEmptyLine(S)
          BY <1>6, <2>1, <3>3
        <4> QED BY <1>1, <1>5, <2>1, <3>3, <4>1
      <3> QED BY <1>5, <1>7, <1>10, <2>2, <3>1, <3>4 DEF f
    <2>4. CASE ~(f <= n)
      <3>1. n < Have /\ n = most
        BY <1>1, <1>5, <2>1, <2>4
      <3>2. n = ResyncPeek
        BY <1>1, <1>4, <3>1
      <3>3. \A i \in 1..n : Window[i] = "n"
        <4>1. ASSUME NEW i \in 1..n PROVE Window[i] = "n"
          BY <1>1, <1>5, <1>6, <2>1, <2>4
        <4> QED BY <4>1
      <3>4. \A i \in 1..n : content[consumed + i] = "n"
        BY <1>6, <3>3, WindowIs
      <3>5. /\ ResyncPeek >= 1 /\ Len(content) \in Nat /\ pos <= Len(content)
        BY FramingAssumption, LenProperties DEF BufInv, TypeOK, SourceShape
      <3>6. /\ consumed + 1 \in 1..Len(content)
            /\ (consumed + 1) + ResyncPeek - 1 <= Len(content)
        <4>1. /\ consumed \in Nat /\ Have \in Nat /\ consumed + Have = pos /\ pos \in Nat
              /\ ResyncPeek \in Nat /\ ResyncPeek >= 1 /\ ResyncPeek <= Have
              /\ pos <= Len(content) /\ Len(content) \in Nat
          BY <1>1, <1>4, <3>1, <3>2, <3>5
        <4> QED BY <4>1
      <3>7. ASSUME NEW k \in (consumed + 1)..((consumed + 1) + ResyncPeek - 1)
            PROVE  content[k] = "n"
        <4>1. k - consumed \in 1..n /\ consumed + (k - consumed) = k
          BY <1>1, <1>4, <3>2
        <4>2. content[consumed + (k - consumed)] = "n"
          BY <3>4, <4>1
        <4> QED BY <4>1, <4>2
      <3>8. BlankRun(content)
        BY <3>6, <3>7 DEF BlankRun
      <3> QED BY <3>8
    <2> QED BY <1>5, <2>1, <2>3, <2>4
  <1> QED BY <1>9, <1>10

(***************************************************************************)
(* The inductive invariant of Seek.  While it looks for a record start,    *)
(* the landing place from where the parser stands, with the lines it has   *)
(* left, is the landing place from the offset asked for; and detection     *)
(* that met only blank lines meets them again.                             *)
(***************************************************************************)
Seeking == pc \in {"seekformat", "resync", "drop"}

SeekShape ==
  /\ Seeking => sought > 0 /\ sought <= consumed /\ lines <= MaxResyncLines
  /\ sought <= Len(content)
  /\ format = "auto" /\ sought > 0 /\ pc \in {"idle", "format", "ended"} =>
       bomChecked /\ Peeked(FormatPeek) /\ FirstNonEmptyLine(Window) = 0

Goal(h) == h[MaxResyncLines][sought]

Heading(c, h) ==
  /\ pc = "seekformat" => consumed = sought /\ lines = 0
  /\ pc = "resync" => h[MaxResyncLines - lines][consumed] = Goal(h)
  /\ pc = "drop" => h[MaxResyncLines - lines][PastNewline(c, consumed)] = Goal(h)
  /\ pc \in {"idle", "read", "ended"} /\ format # "auto" => origin = Goal(h)

Headed ==
  sought > 0 /\ ~BlankRun(content) =>
    \A c \in Possible : \A h : Solves(h, c, sought, MaxResyncLines) => Heading(c, h)

SeekInv == WalkInv /\ SeekShape /\ Headed

\* No seek is under way when the parser is made.
LEMMA SeekInit == Init => SeekInv
  <1> SUFFICES ASSUME Init PROVE SeekInv
    OBVIOUS
  <1>1. WalkInv
    BY WalkInit
  <1>2. sought = 0 /\ pc = "idle" /\ Len(content) \in Nat
    BY <1>1, LenProperties DEF Init, WalkInv, BufInv, SourceShape
  <1> QED BY <1>1, <1>2 DEF SeekInv, SeekShape, Seeking, Headed

\* Only blank lines in sight: nothing is read and nothing moves until a Seek.
LEMMA BlankStays ==
  ASSUME SeekInv, [Next]_vars, ~\E offset \in 0..Len(content) : Seek(offset),
         format = "auto", sought > 0, pc \in {"idle", "format", "ended"}
  PROVE  /\ UNCHANGED <<format, data, r, consumed, atEOF, bomChecked>>
         /\ pc' \in {"format", "ended", pc}
  <1>1. bomChecked /\ Peeked(FormatPeek) /\ FirstNonEmptyLine(Window) = 0
    BY DEF SeekInv, SeekShape
  <1>2. ~NeedsData
    BY <1>1 DEF NeedsData, Reading, Busy
  <1>3. CASE NextCall
    BY <1>3 DEF NextCall, buf
  <1>4. CASE EnsureFormat
    BY <1>1, <1>4 DEF EnsureFormat, buf
  <1>5. CASE UNCHANGED vars
    BY <1>5 DEF vars, buf
  <1>6. ~(\/ CheckBOM \/ FillRead \/ FillEnded \/ Skip \/ Discard \/ DiscardAll \/ CutRecord
          \/ EndOfInput \/ Resynced \/ ResyncLine \/ ResyncEnds)
    BY <1>1, <1>2 DEF CheckBOM, FillRead, FillEnded, Skip, Discard, DiscardAll, CutRecord,
      EndOfInput, Resynced, ResyncLine, ResyncEnds, Reading, Dropping
  <1> QED BY <1>3, <1>4, <1>5, <1>6 DEF Next, Step

\* What a step that is no Seek does to the place and the lines.
LEMMA SeekPlaces ==
  ASSUME SeekInv, [Next]_vars, ~\E offset \in 0..Len(content) : Seek(offset)
  PROVE  /\ UNCHANGED <<content, sought>>
         /\ consumed' >= consumed /\ consumed' \in Nat /\ consumed \in Nat
         /\ Seeking' => Seeking
         /\ \/ lines' = lines
            \/ ResyncLine /\ lines' = lines + 1
         /\ lines \in Nat
  <1>0. BufInv
    BY DEF SeekInv, WalkInv
  <1>1. UNCHANGED <<content, sought>> /\ (lines' = lines \/ (ResyncLine /\ lines' = lines + 1))
    <2>1. CASE ResyncLine
      BY <2>1 DEF ResyncLine, source
    <2>2. CASE NextCall \/ CheckBOM \/ FillRead \/ FillEnded \/ Skip
      BY <2>2 DEF NextCall, CheckBOM, FillRead, FillEnded, Skip, source
    <2>3. CASE Discard \/ DiscardAll \/ EnsureFormat \/ CutRecord \/ EndOfInput
      BY <2>3 DEF Discard, DiscardAll, EnsureFormat, CutRecord, EndOfInput, source
    <2>4. CASE Resynced \/ ResyncEnds \/ UNCHANGED vars
      BY <2>4 DEF Resynced, ResyncEnds, vars, source
    <2> QED BY <2>1, <2>2, <2>3, <2>4 DEF Next, Step
  <1>2. Seeking' => Seeking
    BY DEF Next, Step, NextCall, CheckBOM, FillRead, FillEnded, Skip, Discard, DiscardAll,
      EnsureFormat, CutRecord, EndOfInput, Resynced, ResyncLine, ResyncEnds, vars, Seeking,
      Reading, Dropping
  <1>3. consumed \in Nat /\ lines \in Nat
    BY <1>0 DEF BufInv, SourceShape
  <1>4. /\ Have \in Nat /\ TheCut.advance \in Nat
        /\ NewlinesIn(Window) # {} => PastLine(Window) \in Nat
    <2>1. /\ Have \in Nat /\ TheCut.advance \in 0..Have
          /\ NewlinesIn(Window) # {} => PastLine(Window) \in 1..Have
      BY <1>0, WindowIs, TheCutIsCut, PastLineInWindow
    <2> QED BY <2>1
  <1>5. \E n \in Nat : consumed' = consumed + n
    <2>1. CASE CheckBOM
      <3>1. consumed' = consumed + 1 \/ consumed' = consumed
        BY <2>1 DEF CheckBOM, Advance
      <3> QED BY <1>3, <3>1
    <2>2. CASE Skip \/ DiscardAll
      <3>1. consumed' = consumed + Have
        BY <2>2 DEF Skip, DiscardAll, Advance
      <3> QED BY <1>4, <3>1
    <2>3. CASE Discard
      <3>1. consumed' = consumed + PastLine(Window) /\ NewlinesIn(Window) # {}
        BY <2>3 DEF Discard, Advance
      <3> QED BY <1>4, <3>1
    <2>4. CASE CutRecord
      <3>1. consumed' = consumed + TheCut.advance
        BY <2>4 DEF CutRecord, Advance
      <3> QED BY <1>4, <3>1
    <2>5. CASE \/ NextCall \/ FillRead \/ FillEnded \/ EnsureFormat \/ EndOfInput
               \/ Resynced \/ ResyncLine \/ ResyncEnds \/ UNCHANGED vars
      <3>1. consumed' = consumed
        BY <2>5 DEF NextCall, FillRead, FillEnded, EnsureFormat, EndOfInput,
          Resynced, ResyncLine, ResyncEnds, vars, buf
      <3>2. consumed' = consumed + 0
        BY <1>3, <3>1
      <3> QED BY <3>2
    <2> QED BY <2>1, <2>2, <2>3, <2>4, <2>5 DEF Next, Step
  <1>6. consumed' >= consumed /\ consumed' \in Nat
    BY <1>3, <1>5
  <1> QED BY <1>1, <1>2, <1>3, <1>6

\* The search keeps its shape.
LEMMA SeekShapeStep == SeekInv /\ [Next]_vars => SeekShape'
  <1> SUFFICES ASSUME SeekInv, [Next]_vars PROVE SeekShape'
    OBVIOUS
  <1>0. BufInv /\ Setting /\ SeekShape /\ BufInv'
    BY BufStep DEF SeekInv, WalkInv
  <1>1. MaxResyncLines \in Nat
    BY FramingAssumption
  <1>2. CASE \E offset \in 0..Len(content) : Seek(offset)
    <2>1. PICK offset \in 0..Len(content) : Seek(offset)
      BY <1>2
    <2>2. Len(content) \in Nat
      BY <1>0, LenProperties DEF BufInv, SourceShape
    <2>3. /\ lines' = 0 /\ sought' = offset /\ consumed' = offset /\ content' = content
          /\ pc' = IF offset = 0 THEN "idle"
                   ELSE IF format = "auto" THEN "seekformat" ELSE "resync"
      BY <2>1 DEF Seek, source
    <2>4. /\ Seeking' => sought' > 0 /\ sought' <= consumed' /\ lines' <= MaxResyncLines
          /\ sought' <= Len(content')
      BY <1>1, <2>2, <2>3 DEF Seeking
    <2>5. ~(sought' > 0 /\ pc' \in {"idle", "format", "ended"})
      BY <2>2, <2>3
    <2> QED BY <2>4, <2>5 DEF SeekShape
  <1>3. CASE ~\E offset \in 0..Len(content) : Seek(offset)
    <2>1. /\ UNCHANGED <<content, sought>>
          /\ consumed' >= consumed /\ consumed' \in Nat /\ consumed \in Nat
          /\ Seeking' => Seeking
          /\ \/ lines' = lines
             \/ ResyncLine /\ lines' = lines + 1
          /\ lines \in Nat
      BY <1>3, SeekPlaces
    <2>2. lines <= MaxResyncLines => lines' <= MaxResyncLines
      <3>1. ResyncLine => lines < MaxResyncLines
        BY DEF ResyncLine
      <3> QED BY <1>1, <2>1, <3>1
    <2>3. sought \in Nat
      BY <1>0 DEF BufInv, SourceShape
    <2>4. /\ Seeking' => sought' > 0 /\ sought' <= consumed' /\ lines' <= MaxResyncLines
          /\ sought' <= Len(content')
      BY <1>0, <2>1, <2>2, <2>3 DEF SeekShape
    <2>5. ASSUME format' = "auto", sought' > 0, pc' \in {"idle", "format", "ended"}
          PROVE  bomChecked' /\ Peeked(FormatPeek)' /\ FirstNonEmptyLine(Window)' = 0
      <3>1. format = "auto"
        BY <2>5 DEF Next, Step, NextCall, CheckBOM, FillRead, FillEnded, Skip, Discard,
          DiscardAll, EnsureFormat, CutRecord, EndOfInput, Resynced, ResyncLine, ResyncEnds,
          vars, Seek
      <3>2. pc \in {"idle", "format", "ended", "seekformat"}
        <4>1. pc \in Busy \cup {"idle", "ended"}
          BY <1>0 DEF BufInv, TypeOK
        <4>2. pc \notin {"read", "resync", "drop"}
          BY <1>0, <3>1 DEF Setting
        <4> QED BY <4>1, <4>2 DEF Busy
      <3>3. CASE pc = "seekformat"
        <4>1. EnsureFormat
          BY <2>5, <3>3, <1>3 DEF Next, Step, NextCall, CheckBOM, FillRead, FillEnded, Skip,
            Discard, DiscardAll, CutRecord, EndOfInput, Resynced, ResyncLine,
            ResyncEnds, vars, Reading, Dropping
        <4>2. /\ bomChecked /\ Peeked(FormatPeek) /\ UNCHANGED buf
              /\ FirstNonEmptyLine(Window) = 0
          BY <2>5, <3>3, <4>1 DEF EnsureFormat
        <4> QED BY <4>2 DEF buf, Peeked, Window, Have
      <3>4. CASE pc \in {"idle", "format", "ended"}
        <4>1. bomChecked /\ Peeked(FormatPeek) /\ FirstNonEmptyLine(Window) = 0
          BY <1>0, <2>1, <2>5, <3>1, <3>4 DEF SeekShape
        <4>2. UNCHANGED <<data, r, atEOF, bomChecked>>
          BY <1>3, <2>1, <2>5, <3>1, <3>4, BlankStays
        <4> QED BY <4>1, <4>2 DEF Peeked, Window, Have
      <3> QED BY <3>2, <3>3, <3>4
    <2> QED BY <2>4, <2>5 DEF SeekShape
  <1> QED BY <1>2, <1>3

\* Where resync stops, or gives up, is where it was to land.
LEMMA LandsHere ==
  ASSUME SeekInv, ~BlankRun(content), NEW c \in Possible,
         NEW h, Solves(h, c, sought, MaxResyncLines), Heading(c, h), Resynced \/ ResyncEnds
  PROVE  consumed = Goal(h)
  <1>0. BufInv /\ SeekShape
    BY DEF SeekInv, WalkInv
  <1>1. /\ c \in Seq(Byte) /\ Len(c) \in Nat /\ pos <= Len(c) /\ pos \in Nat
        /\ atEOF => Len(c) = pos
        /\ consumed \in 0..Len(c) /\ consumed \in Nat /\ consumed + Have = pos
    BY <1>0, PossibleIs
  <1>2. /\ MaxResyncLines \in Nat /\ lines \in Nat /\ lines <= MaxResyncLines
        /\ sought \in Nat /\ sought <= consumed
    BY <1>0, FramingAssumption
    DEF BufInv, SourceShape, SeekShape, Seeking, Resynced, ResyncEnds
  <1> DEFINE k == MaxResyncLines - lines
  <1>3. k \in 0..MaxResyncLines /\ consumed \in sought..Len(c) /\ (lines = MaxResyncLines => k = 0)
    BY <1>1, <1>2
  <1>4. h[k][consumed] = IF k = 0 \/ Stops(c, consumed) THEN consumed
                         ELSE h[k - 1][PastNewline(c, consumed)]
    BY <1>3 DEF Solves
  <1>5. CASE Resynced
    <2>1. h[k][consumed] = Goal(h)
      BY <1>5 DEF Resynced, Heading
    <2>2. k = 0 \/ Stops(c, consumed)
      <3>1. \/ lines = MaxResyncLines
            \/ /\ Peeked(ResyncPeek)
               /\ FirstNonEmptyLine(Window) = 0 \/ OnBoundary(Window)
        BY <1>5 DEF Resynced
      <3> QED BY <1>0, <1>3, <3>1, ResyncSees
    <2> QED BY <1>4, <2>1, <2>2
  <1>6. CASE ResyncEnds
    <2>1. h[k][PastNewline(c, consumed)] = Goal(h)
      BY <1>6 DEF ResyncEnds, Heading
    <2>2. consumed = Len(c)
      BY <1>1, <1>6 DEF ResyncEnds
    <2>3. PastNewline(c, consumed) = consumed
      <3>1. PastNewline(c, consumed) \in consumed..Len(c)
        BY <1>1, PastNewlineIs
      <3> QED BY <1>1, <2>2, <3>1
    <2>4. Stops(c, consumed)
      <3>1. /\ Sample(c, consumed) \in Seq(Byte)
            /\ Len(Sample(c, consumed))
                 = Shorter(Shorter(ResyncPeek, MaxRecord), Len(c) - consumed)
        BY <1>1, SampleIs
      <3>2. Shorter(ResyncPeek, MaxRecord) \in Nat /\ Len(c) - consumed = 0
        BY <1>1, <2>2, FramingAssumption DEF Shorter
      <3>3. Len(Sample(c, consumed)) = 0
        BY <3>1, <3>2 DEF Shorter
      <3>4. \A i \in 1..Len(Sample(c, consumed)) : FALSE
        BY <3>3
      <3>5. FirstNonEmptyLine(Sample(c, consumed)) = 0
        BY <3>1, <3>4, FirstLineIs
      <3> QED BY <3>5 DEF Stops
    <2> QED BY <1>4, <2>1, <2>3, <2>4
  <1> QED BY <1>5, <1>6

\* A line that begins no record is passed over.
LEMMA PassesOver ==
  ASSUME SeekInv, ~BlankRun(content), NEW c \in Possible,
         NEW h, Solves(h, c, sought, MaxResyncLines), Heading(c, h), ResyncLine
  PROVE  h[MaxResyncLines - lines'][PastNewline(c, consumed)] = Goal(h)
  <1>0. BufInv /\ SeekShape
    BY DEF SeekInv, WalkInv
  <1>1. /\ Len(c) \in Nat /\ consumed \in 0..Len(c) /\ consumed \in Nat
    BY <1>0, PossibleIs
  <1>2. /\ MaxResyncLines \in Nat /\ lines \in Nat /\ lines < MaxResyncLines
        /\ sought \in Nat /\ sought <= consumed /\ lines' = lines + 1
    BY <1>0, FramingAssumption DEF BufInv, SourceShape, SeekShape, Seeking, ResyncLine
  <1> DEFINE k == MaxResyncLines - lines
  <1>3. /\ k \in 0..MaxResyncLines /\ consumed \in sought..Len(c) /\ k # 0
        /\ MaxResyncLines - lines' = k - 1
    BY <1>1, <1>2
  <1>4. h[k][consumed] = IF k = 0 \/ Stops(c, consumed) THEN consumed
                         ELSE h[k - 1][PastNewline(c, consumed)]
    BY <1>3 DEF Solves
  <1>5. h[k][consumed] = Goal(h)
    BY DEF Heading, ResyncLine
  <1>6. ~Stops(c, consumed)
    BY <1>0, ResyncSees DEF ResyncLine
  <1> QED BY <1>3, <1>4, <1>5, <1>6

\* Every step keeps what is possible, or begins a seek.
LEMMA StillPossible ==
  ASSUME BufInv, BufInv', [Next]_vars, ~\E offset \in 0..Len(content) : Seek(offset),
         UNCHANGED content
  PROVE  Possible' \subseteq Possible
  <1>1. pos \in Nat /\ \A n \in ReadSizes : n \in Nat
    BY ParserAssumption, LenProperties DEF BufInv, TypeOK, SourceShape
  <1>2. pos <= pos' /\ (atEOF => atEOF' /\ pos' = pos)
    <2>1. CASE FillRead
      <3>1. ~atEOF /\ (pos' = pos \/ \E n \in ReadSizes : pos' = pos + n)
        BY <2>1 DEF FillRead, NeedsData
      <3> QED BY <1>1, <3>1
    <2>2. CASE ~FillRead
      <3>1. pos' = pos /\ (atEOF => atEOF')
        BY <2>2 DEF Next, Step, NextCall, CheckBOM, FillEnded, Skip, Discard,
          DiscardAll, EnsureFormat, CutRecord, EndOfInput, Resynced, ResyncLine,
          ResyncEnds, vars, buf
      <3> QED BY <1>1, <3>1
    <2> QED BY <2>1, <2>2
  <1> QED BY <1>2, PossibleShrinks

\* A step of a seek keeps heading for the place it would land at.
LEMMA HeadedStep == SeekInv /\ [Next]_vars => Headed'
  <1> SUFFICES ASSUME SeekInv, [Next]_vars, sought' > 0, ~BlankRun(content)',
                      NEW c \in Possible', NEW h, Solves(h, c, sought, MaxResyncLines)'
               PROVE  Heading(c, h)'
    BY DEF Headed
  <1>0. BufInv /\ Setting /\ SeekShape /\ Headed /\ BufInv'
    BY BufStep DEF SeekInv, WalkInv
  <1>1. MaxResyncLines \in Nat
    BY FramingAssumption
  <1>2. CASE \E offset \in 0..Len(content) : Seek(offset)
    <2>1. PICK offset \in 0..Len(content) : Seek(offset)
      BY <1>2
    <2>2. /\ lines' = 0 /\ sought' = offset /\ consumed' = offset /\ origin' = offset
          /\ pc' = IF offset = 0 THEN "idle"
                   ELSE IF format = "auto" THEN "seekformat" ELSE "resync"
      BY <2>1 DEF Seek
    <2>3. offset # 0 /\ MaxResyncLines - 0 = MaxResyncLines
      BY <1>1, <2>2
    <2> QED BY <2>2, <2>3 DEF Heading, Goal
  <1>3. CASE ~\E offset \in 0..Len(content) : Seek(offset)
    <2>1. /\ UNCHANGED <<content, sought>>
          /\ consumed' >= consumed /\ consumed' \in Nat /\ consumed \in Nat
          /\ Seeking' => Seeking
          /\ lines \in Nat
      BY <1>3, SeekPlaces
    <2>2. c \in Possible
      BY <1>0, <1>3, <2>1, StillPossible
    <2>3. ~BlankRun(content) /\ Solves(h, c, sought, MaxResyncLines) /\ sought > 0
      BY <2>1
    <2>4. Heading(c, h)
      BY <1>0, <2>2, <2>3 DEF Headed
    <2>5. CASE Resynced \/ ResyncEnds
      <3>1. consumed = Goal(h)
        BY <2>2, <2>3, <2>4, <2>5, LandsHere
      <3>2. pc' = "idle" /\ origin' = consumed
        BY <2>5 DEF Resynced, ResyncEnds
      <3> QED BY <2>1, <3>1, <3>2 DEF Heading, Goal
    <2>6. CASE ResyncLine
      <3>1. h[MaxResyncLines - lines'][PastNewline(c, consumed)] = Goal(h)
        BY <2>2, <2>3, <2>4, <2>6, PassesOver
      <3>2. pc' = "drop" /\ consumed' = consumed
        BY <2>6 DEF ResyncLine, buf
      <3> QED BY <2>1, <3>1, <3>2 DEF Heading, Goal
    <2>7. CASE (Discard \/ DiscardAll) /\ pc = "drop"
      <3>1. /\ Discard => consumed' = PastNewline(c, consumed)
            /\ DiscardAll => PastNewline(c, consumed') = PastNewline(c, consumed)
        BY <1>0, <2>2, <2>7, DiscardGoesOn
      <3>2. h[MaxResyncLines - lines][PastNewline(c, consumed)] = Goal(h)
        BY <2>4, <2>7 DEF Heading
      <3>3. CASE Discard
        <4>1. pc' = "resync" /\ lines' = lines /\ consumed' = PastNewline(c, consumed)
          BY <2>7, <3>1, <3>3 DEF Discard
        <4> QED BY <2>1, <3>2, <4>1 DEF Heading, Goal
      <3>4. CASE DiscardAll
        <4>1. /\ pc' = "drop" /\ lines' = lines
              /\ PastNewline(c, consumed') = PastNewline(c, consumed)
          BY <2>7, <3>1, <3>4 DEF DiscardAll
        <4> QED BY <2>1, <3>2, <4>1 DEF Heading, Goal
      <3> QED BY <2>7, <3>3, <3>4
    <2>8. CASE EnsureFormat
      <3>1. UNCHANGED <<consumed, lines>> /\ pc \in {"format", "seekformat"} /\ bomChecked
            /\ format = "auto"
        BY <2>8 DEF EnsureFormat, buf
      <3>2. CASE pc = "seekformat"
        <4>1. pc' = "resync" \/ (pc' = "idle" /\ format' = "auto")
          BY <2>8, <3>1, <3>2 DEF EnsureFormat
        <4>2. consumed = sought /\ lines = 0 /\ MaxResyncLines - 0 = MaxResyncLines
          BY <1>1, <2>4, <3>2 DEF Heading
        <4> QED BY <2>1, <3>1, <4>1, <4>2 DEF Heading, Goal
      <3>3. CASE pc = "format"
        <4>1. UNCHANGED format /\ pc' = "ended"
          <5>1. FirstNonEmptyLine(Window) = 0
            BY <1>0, <2>3, <3>1, <3>3 DEF SeekShape
          <5> QED BY <2>8, <3>3, <5>1 DEF EnsureFormat
        <4> QED BY <3>1, <4>1 DEF Heading
      <3> QED BY <3>1, <3>2, <3>3
    <2>9. CASE CheckBOM
      <3>1. UNCHANGED <<pc, lines, origin, format>> /\ (consumed' = consumed \/ consumed = 0)
        BY <2>9 DEF CheckBOM, Advance
      <3>2. Seeking => consumed' = consumed
        <4>1. Seeking => consumed > 0
          BY <1>0 DEF Setting, Seeking
        <4> QED BY <3>1, <4>1
      <3> QED BY <2>1, <2>4, <3>1, <3>2 DEF Heading, Goal, Seeking
    <2>10. CASE \/ Skip \/ CutRecord \/ NextCall \/ EndOfInput \/ FillRead \/ FillEnded
                \/ UNCHANGED vars \/ ((Discard \/ DiscardAll) /\ pc # "drop")
      <3>1. /\ UNCHANGED <<lines, origin, format>>
            /\ \/ pc' = pc
               \/ /\ pc \in {"idle", "read"}
                  /\ \/ pc' \in {"idle", "read", "ended"}
                     \/ pc' = "format" /\ format = "auto"
        BY <2>10 DEF Skip, CutRecord, NextCall, EndOfInput, FillRead, FillEnded, vars, stats,
          Discard, DiscardAll, Reading
      <3>2. Seeking => consumed' = consumed
        BY <2>10 DEF Skip, CutRecord, NextCall, EndOfInput, FillRead, FillEnded, vars, buf,
          Discard, DiscardAll, Reading, Dropping, Seeking
      <3> QED BY <2>1, <2>4, <3>1, <3>2 DEF Heading, Goal, Seeking
    <2> QED BY <1>3, <2>5, <2>6, <2>7, <2>8, <2>9, <2>10 DEF Next, Step
  <1> QED BY <1>2, <1>3

(***************************************************************************)
(* Seek lands at the first record start from the offset asked for, or      *)
(* where maxResyncLines lines without one bring it, however the source     *)
(* cuts its answers and the buffer slides and grows meanwhile.             *)
(***************************************************************************)
THEOREM SeekLandsThere == Spec => []SeekLandsAtBoundary
  <1>1. SeekInv => SeekLandsAtBoundary
    <2> SUFFICES ASSUME SeekInv, pc \in {"idle", "read", "ended"}, sought > 0,
                        format # "auto", err # "noprogress", ~BlankRun(content)
                 PROVE  origin = Landing(content, sought)
      BY DEF SeekLandsAtBoundary
    <2>1. BufInv /\ SeekShape /\ Headed
      BY DEF SeekInv, WalkInv
    <2>2. content \in Possible
      BY <2>1, InputIsPossible DEF Input
    <2>3. sought \in 0..Len(content) /\ content \in Seq(Byte)
      BY <2>1, LenProperties DEF BufInv, SourceShape, SeekShape
    <2>4. PICK h : /\ Solves(h, content, sought, MaxResyncLines)
                   /\ Landing(content, sought) = h[MaxResyncLines][sought]
      BY <2>3, LandingIs
    <2>5. Heading(content, h)
      BY <2>1, <2>2, <2>4 DEF Headed
    <2> QED BY <2>4, <2>5 DEF Heading, Goal
  <1>2. SeekInv /\ [Next]_vars => SeekInv'
    BY SeekShapeStep, HeadedStep, WalkStep DEF SeekInv
  <1> QED BY <1>1, <1>2, SeekInit, PTL DEF Spec

(***************************************************************************)
(* The inductive invariant of a seek that does not give up: it has passed  *)
(* over no start of a record, and it ends where resync stops.              *)
(***************************************************************************)
PassesNone(c) ==
  /\ pc = "seekformat" => consumed = sought
  /\ pc = "resync" => NoStart(c, sought, consumed)
  /\ pc = "drop" => NoStart(c, sought, PastNewline(c, consumed))
  /\ pc \in {"idle", "read", "ended"} /\ format # "auto" /\ lines < MaxResyncLines =>
       Lands(c, sought, origin)

NoneMissed ==
  /\ StartsLines(content)
  /\ sought > 0 /\ ~BlankRun(content) => \A c \in Possible : PassesNone(c)

KeepInv == SeekInv /\ NoneMissed

\* An input the parser may be reading starts lines as the whole input does.
LEMMA PossibleStartsLines ==
  ASSUME BufInv, StartsLines(content), NEW c \in Possible
  PROVE  StartsLines(c)
  <1>1. PICK k \in IF atEOF THEN {pos} ELSE pos..Len(content) : c = SubSeq(content, 1, k)
    BY DEF Possible
  <1>2. /\ content \in Seq(Byte) /\ Len(content) \in Nat /\ pos \in 0..Len(content)
        /\ atEOF \in BOOLEAN
    BY LenProperties DEF BufInv, SourceShape, TypeOK
  <1>3. k \in Nat /\ 0 + k <= Len(content) /\ 0 + 1 = 1 /\ 0 + k = k
    BY <1>1, <1>2
  <1>4. Len(c) = k /\ \A i \in 1..k : c[i] = content[0 + i]
    BY <1>1, <1>2, <1>3, Slice
  <1>5. \A i \in 2..k : /\ i \in 2..Len(content) /\ c[i] = content[i]
                        /\ c[i - 1] = content[i - 1] /\ c[1] = content[1]
    <2>1. \A i \in 2..k : i \in 1..k /\ i - 1 \in 1..k /\ 1 \in 1..k /\ i \in 2..Len(content)
      BY <1>2, <1>3
    <2>2. \A i \in 1..k : c[i] = content[i]
      <3>1. \A i \in 1..k : 0 + i = i
        BY <1>3
      <3> QED BY <1>4, <3>1
    <2> QED BY <2>1, <2>2
  <1> QED BY <1>4, <1>5 DEF StartsLines

\* Where resync stops it has passed over none.
LEMMA StopsWithNone ==
  ASSUME SeekInv, ~BlankRun(content), NEW c \in Possible, PassesNone(c),
         Resynced \/ ResyncEnds, lines < MaxResyncLines
  PROVE  Lands(c, sought, consumed)
  <1>0. BufInv /\ SeekShape
    BY DEF SeekInv, WalkInv
  <1>1. /\ c \in Seq(Byte) /\ Len(c) \in Nat /\ pos <= Len(c) /\ pos \in Nat
        /\ atEOF => Len(c) = pos
        /\ consumed \in 0..Len(c) /\ consumed \in Nat /\ consumed + Have = pos
    BY <1>0, PossibleIs
  <1>2. lines \in Nat /\ MaxResyncLines \in Nat /\ sought \in Nat /\ sought <= consumed
    BY <1>0, FramingAssumption
    DEF BufInv, SourceShape, SeekShape, Seeking, Resynced, ResyncEnds
  <1>3. consumed \in sought..Len(c)
    BY <1>1, <1>2
  <1>4. CASE Resynced
    <2>1. NoStart(c, sought, consumed)
      BY <1>4 DEF Resynced, PassesNone
    <2>2. /\ Peeked(ResyncPeek)
          /\ FirstNonEmptyLine(Window) = 0 \/ OnBoundary(Window)
      BY <1>2, <1>4 DEF Resynced
    <2>3. Stops(c, consumed)
      BY <1>0, <2>2, ResyncSees
    <2> QED BY <1>3, <2>1, <2>3 DEF Lands
  <1>5. CASE ResyncEnds
    <2>1. NoStart(c, sought, PastNewline(c, consumed)) /\ consumed = Len(c)
      BY <1>1, <1>5 DEF ResyncEnds, PassesNone
    <2>2. PastNewline(c, consumed) = consumed
      <3>1. PastNewline(c, consumed) \in consumed..Len(c)
        BY <1>1, PastNewlineIs
      <3> QED BY <1>1, <2>1, <3>1
    <2>3. Stops(c, consumed)
      BY <1>1, <2>1, StopsAtEnd
    <2> QED BY <1>3, <2>1, <2>2, <2>3 DEF Lands
  <1> QED BY <1>4, <1>5

\* A line passed over holds none.
LEMMA LineWithNone ==
  ASSUME SeekInv, StartsLines(content), ~BlankRun(content), NEW c \in Possible,
         PassesNone(c), ResyncLine
  PROVE  NoStart(c, sought, PastNewline(c, consumed))
  <1>0. BufInv /\ SeekShape
    BY DEF SeekInv, WalkInv
  <1>1. /\ c \in Seq(Byte) /\ Len(c) \in Nat /\ consumed \in 0..Len(c) /\ consumed \in Nat
    BY <1>0, PossibleIs
  <1>2. sought \in Nat /\ sought > 0 /\ sought <= consumed
    BY <1>0 DEF BufInv, SourceShape, SeekShape, Seeking, ResyncLine
  <1>3. consumed \in 1..Len(c)
    BY <1>1, <1>2
  <1>4. ~Stops(c, consumed)
    BY <1>0, ResyncSees DEF ResyncLine
  <1>5. NoStart(c, consumed, PastNewline(c, consumed)) /\ NoStart(c, sought, consumed)
    <2>1. StartsLines(c)
      BY <1>0, PossibleStartsLines
    <2> QED BY <1>1, <1>3, <1>4, <2>1, NoStartPassed DEF PassesNone, ResyncLine
  <1>6. PastNewline(c, consumed) \in consumed..Len(c)
    BY <1>1, PastNewlineIs
  <1>7. \A q \in sought..(PastNewline(c, consumed) - 1) :
          q \in sought..(consumed - 1) \/ q \in consumed..(PastNewline(c, consumed) - 1)
    BY <1>1, <1>2, <1>6
  <1> QED BY <1>5, <1>7 DEF NoStart

\* Every step of a seek passes over no start of a record.
LEMMA NoneMissedStep == KeepInv /\ [Next]_vars => NoneMissed'
  <1> SUFFICES ASSUME KeepInv, [Next]_vars PROVE NoneMissed'
    OBVIOUS
  <1>0. SeekInv /\ BufInv /\ Setting /\ SeekShape /\ BufInv' /\ NoneMissed
    BY BufStep DEF KeepInv, SeekInv, WalkInv
  <1>1. UNCHANGED content
    BY DEF Next, Step, NextCall, CheckBOM, FillRead, FillEnded, Skip, Discard, DiscardAll,
      EnsureFormat, CutRecord, EndOfInput, Resynced, ResyncLine, ResyncEnds, vars, Seek, source
  <1>2. StartsLines(content)'
    BY <1>0, <1>1 DEF NoneMissed
  <1>3. ASSUME sought' > 0, ~BlankRun(content)', NEW c \in Possible'
        PROVE  PassesNone(c)'
    <2>1. CASE \E offset \in 0..Len(content) : Seek(offset)
      <3>1. PICK offset \in 0..Len(content) : Seek(offset)
        BY <2>1
      <3>2. /\ sought' = offset /\ consumed' = offset
            /\ pc' = IF offset = 0 THEN "idle"
                     ELSE IF format = "auto" THEN "seekformat" ELSE "resync"
        BY <3>1 DEF Seek
      <3>3. offset # 0 /\ offset \in Nat /\ \A q \in offset..(offset - 1) : FALSE
        BY <1>0, <1>3, <3>2, LenProperties DEF BufInv, SourceShape
      <3> QED BY <3>2, <3>3 DEF PassesNone, NoStart
    <2>2. CASE ~\E offset \in 0..Len(content) : Seek(offset)
      <3>1. UNCHANGED sought /\ (lines' = lines \/ ResyncLine)
        BY <1>0, <2>2, SeekPlaces
      <3>2. c \in Possible /\ ~BlankRun(content) /\ sought > 0 /\ StartsLines(content)
        BY <1>0, <1>1, <1>3, <2>2, <3>1, StillPossible DEF NoneMissed
      <3>3. PassesNone(c)
        BY <1>0, <3>2 DEF NoneMissed
      <3>4. CASE Resynced \/ ResyncEnds
        <4>1. lines < MaxResyncLines => Lands(c, sought, consumed)
          BY <1>0, <3>2, <3>3, <3>4, StopsWithNone
        <4>2. pc' = "idle" /\ origin' = consumed /\ lines' = lines
          BY <3>4 DEF Resynced, ResyncEnds
        <4> QED BY <3>1, <4>1, <4>2 DEF PassesNone
      <3>5. CASE ResyncLine
        <4>1. NoStart(c, sought, PastNewline(c, consumed))
          BY <1>0, <3>2, <3>3, <3>5, LineWithNone
        <4>2. pc' = "drop" /\ consumed' = consumed
          BY <3>5 DEF ResyncLine, buf
        <4> QED BY <3>1, <4>1, <4>2 DEF PassesNone
      <3>6. CASE (Discard \/ DiscardAll) /\ pc = "drop"
        <4>1. /\ Discard => consumed' = PastNewline(c, consumed)
              /\ DiscardAll => PastNewline(c, consumed') = PastNewline(c, consumed)
          BY <1>0, <3>2, <3>6, DiscardGoesOn
        <4>2. NoStart(c, sought, PastNewline(c, consumed))
          BY <3>3, <3>6 DEF PassesNone
        <4>3. CASE Discard
          <5>1. pc' = "resync"
            BY <3>6, <4>3 DEF Discard
          <5> QED BY <3>1, <4>1, <4>2, <4>3, <5>1 DEF PassesNone
        <4>4. CASE DiscardAll
          <5>1. pc' = "drop"
            BY <3>6, <4>4 DEF DiscardAll
          <5> QED BY <3>1, <4>1, <4>2, <4>4, <5>1 DEF PassesNone
        <4> QED BY <3>6, <4>3, <4>4
      <3>7. CASE EnsureFormat
        <4>1. UNCHANGED <<consumed, lines>> /\ pc \in {"format", "seekformat"} /\ bomChecked
              /\ format = "auto"
          BY <3>7 DEF EnsureFormat, buf
        <4>2. CASE pc = "seekformat"
          <5>1. pc' = "resync" \/ (pc' = "idle" /\ format' = "auto")
            BY <3>7, <4>1, <4>2 DEF EnsureFormat
          <5>2. consumed = sought
            BY <3>3, <4>2 DEF PassesNone
          <5>3. \A q \in sought..(sought - 1) : FALSE
            BY <1>0 DEF BufInv, SourceShape
          <5> QED BY <3>1, <4>1, <5>1, <5>2, <5>3 DEF PassesNone, NoStart
        <4>3. CASE pc = "format"
          <5>1. UNCHANGED format /\ pc' = "ended"
            <6>1. FirstNonEmptyLine(Window) = 0
              <7>1. pc \in {"idle", "format", "ended"}
                BY <4>3
              <7> QED BY <1>0, <3>2, <4>1, <7>1 DEF SeekShape
            <6> QED BY <3>7, <4>3, <6>1 DEF EnsureFormat
          <5> QED BY <4>1, <5>1 DEF PassesNone
        <4> QED BY <4>1, <4>2, <4>3
      <3>8. CASE CheckBOM
        <4>1. UNCHANGED <<pc, lines, origin, format>> /\ (consumed' = consumed \/ consumed = 0)
          BY <3>8 DEF CheckBOM, Advance
        <4>2. Seeking => consumed' = consumed
          <5>1. Seeking => consumed > 0
            BY <1>0 DEF Setting, Seeking
          <5> QED BY <4>1, <5>1
        <4> QED BY <3>1, <3>3, <4>1, <4>2 DEF PassesNone, Seeking
      <3>9. CASE \/ Skip \/ CutRecord \/ NextCall \/ EndOfInput \/ FillRead \/ FillEnded
                 \/ UNCHANGED vars \/ ((Discard \/ DiscardAll) /\ pc # "drop")
        <4>1. /\ UNCHANGED <<lines, origin, format>>
              /\ \/ pc' = pc
                 \/ /\ pc \in {"idle", "read"}
                    /\ \/ pc' \in {"idle", "read", "ended"}
                       \/ pc' = "format" /\ format = "auto"
          BY <3>9 DEF Skip, CutRecord, NextCall, EndOfInput, FillRead, FillEnded, vars, stats,
            Discard, DiscardAll, Reading
        <4>2. Seeking => consumed' = consumed
          BY <3>9 DEF Skip, CutRecord, NextCall, EndOfInput, FillRead, FillEnded, vars, buf,
            Discard, DiscardAll, Reading, Dropping, Seeking
        <4> QED BY <3>1, <3>3, <4>1, <4>2 DEF PassesNone, Seeking
      <3> QED BY <2>2, <3>4, <3>5, <3>6, <3>7, <3>8, <3>9 DEF Next, Step
    <2> QED BY <2>1, <2>2
  <1> QED BY <1>2, <1>3 DEF NoneMissed

(***************************************************************************)
(* A Seek that does not give up loses and repeats nothing: from where it   *)
(* lands the records are those of the whole input that begin at or after   *)
(* the offset asked for, for every input that is regular and of which      *)
(* resync can see a line.                                                  *)
(***************************************************************************)
THEOREM SeekLosesNoRecord == Spec => []SeekKeepsEveryRecord
  <1>1. KeepInv => SeekKeepsEveryRecord
    <2> SUFFICES ASSUME KeepInv, pc \in {"idle", "read", "ended"}, sought > 0, format = actual,
                        err # "noprogress", lines < MaxResyncLines,
                        Regular(format, content, emitTail), ~BlankRun(content)
                 PROVE  RecordOffsets(format, content, origin, emitTail)
                          = {o \in RecordOffsets(format, content, StartOf(content), emitTail) :
                               o >= sought}
      BY DEF SeekKeepsEveryRecord
    <2>1. BufInv /\ SeekShape /\ NoneMissed
      BY DEF KeepInv, SeekInv, WalkInv
    <2>2. content \in Possible
      BY <2>1, InputIsPossible DEF Input
    <2>3. /\ sought \in 1..Len(content) /\ content \in Seq(Byte)
          /\ format \in Formats /\ format # "auto"
      BY <2>1, LenProperties DEF BufInv, SourceShape, SeekShape, Formats
    <2>4. Lands(content, sought, origin) /\ StartsLines(content)
      BY <2>1, <2>2, <2>3 DEF NoneMissed, PassesNone
    <2> QED BY <2>3, <2>4, FromLandingOn DEF Lands
  <1>2. Init => KeepInv
    <2> SUFFICES ASSUME Init PROVE KeepInv
      OBVIOUS
    <2>1. SeekInv /\ sought = 0 /\ actual \in Formats /\ content \in Contents(actual)
      BY SeekInit, ParserAssumption DEF Init
    <2>2. StartsLines(content)
      BY <2>1, InputsStartLines
    <2> QED BY <2>1, <2>2 DEF KeepInv, NoneMissed
  <1>3. KeepInv /\ [Next]_vars => KeepInv'
    BY SeekShapeStep, HeadedStep, WalkStep, NoneMissedStep DEF KeepInv, SeekInv
  <1> QED BY <1>1, <1>2, <1>3, PTL DEF Spec
=============================================================================
