-------------------------- MODULE CommandLineProofs --------------------------
(***************************************************************************)
(* Proofs about CommandLine, for every family of command lines and logs.   *)
(***************************************************************************)
EXTENDS CommandLine, FiniteSetTheorems, SequenceTheorems, TLAPS

(***************************************************************************)
(* The exit code.                                                          *)
(***************************************************************************)
\* Input i was read to its end.
Finished(i) == i < opened \/ (i = opened /\ ~reading)

\* What is written at each point of a run.
RunInv ==
  /\ IsJob(job)
  /\ opened \in 0..Len(job.inputs) /\ reading \in BOOLEAN
  /\ exit \in {Running, 0, 1, 2}
  /\ opened > 0 => AllExist
  /\ opened = 0 => ~reading /\ shown = <<>>
  /\ ~reading => rest = <<>>
  /\ exit # Running => ~reading
  /\ exit # 0 => report = NothingReported

\* An input that was read to its end did not fail, or the run has ended.
ExitInv ==
  /\ RunInv
  /\ exit \in {Running, 0} =>
       \A i \in DOMAIN job.inputs : Finished(i) =>
         ~BadPrefix /\ (job.inputs[i].state = "unreadable" => job.format = "auto")
  /\ exit = 0 => opened = Len(job.inputs)
  /\ exit = 1 => opened > 0 /\ (BadPrefix \/ job.inputs[opened].state = "unreadable")
  /\ exit = 2 => opened = 0 /\ ~AllExist

LEMMA RunningIsNoCode == Running \in Int /\ Running \notin {0, 1, 2}
BY DEF Running

LEMMA JobIsFixed ==
  ASSUME [Next]_vars
  PROVE  job' = job
<1>1. CASE Next
  BY <1>1 DEF Next, NoInputMatched, OpenNext, SkipBlank, ReadRecord, EndOfInput, Report
<1> QED BY <1>1 DEF vars

LEMMA ExitInvHolds == Spec => []ExitInv
<1> USE RunningIsNoCode
<1>1. Init => ExitInv
  <2> SUFFICES ASSUME Init PROVE ExitInv
    OBVIOUS
  <2>1. IsJob(job)
    BY JobsAssumption DEF Init
  <2>2. Len(job.inputs) \in Nat /\ DOMAIN job.inputs = 1..Len(job.inputs)
    BY <2>1 DEF IsJob
  <2>3. /\ opened = 0 /\ reading = FALSE /\ rest = <<>> /\ shown = <<>>
        /\ exit = Running /\ report = NothingReported
    BY DEF Init
  <2>4. RunInv
    <3>1. reading \in BOOLEAN /\ ~reading
      BY <2>3
    <3>2. /\ opened \in 0..Len(job.inputs) /\ ~(opened > 0) /\ exit \in {Running, 0, 1, 2}
          /\ rest = <<>> /\ shown = <<>> /\ report = NothingReported
      BY <2>2, <2>3
    <3> QED BY <2>1, <3>1, <3>2 DEF RunInv
  <2> QED BY <2>2, <2>3, <2>4 DEF ExitInv, Finished
<1>2. ExitInv /\ [Next]_vars => ExitInv'
  <2> SUFFICES ASSUME ExitInv, [Next]_vars PROVE ExitInv'
    OBVIOUS
  <2>0. job' = job /\ IsJob(job') /\ (AllExist' <=> AllExist) /\ (BadPrefix' <=> BadPrefix)
    BY JobIsFixed DEF RunInv, ExitInv, AllExist, BadPrefix
  <2>1. DOMAIN job.inputs = 1..Len(job.inputs) /\ Len(job.inputs) \in Nat \ {0}
    BY EmptySeq DEF RunInv, ExitInv, IsJob
  <2>2. CASE NoInputMatched
    BY <2>0, <2>1, <2>2
    DEF NoInputMatched, RunInv, ExitInv, parser, tally, search, history, Finished
  <2>3. CASE OpenNext
    BY <2>0, <2>1, <2>3
    DEF OpenNext, RunInv, ExitInv, tally, search, history, Finished
  <2>4. CASE SkipBlank
    BY <2>0, <2>1, <2>4
    DEF SkipBlank, RunInv, ExitInv, tally, search, history, Finished
  <2>5. CASE ReadRecord
    <3>1. exit = Running /\ reading /\ UNCHANGED <<opened, reading, report, exit>>
      BY <2>5 DEF ReadRecord
    <3> QED BY <2>0, <2>1, <3>1 DEF RunInv, ExitInv, Finished
  <2>6. CASE EndOfInput
    <3>1. CASE ParserFails
      <4>1. /\ exit' = 1 /\ reading' = FALSE /\ UNCHANGED <<opened, rest, shown, report>>
            /\ exit = Running /\ reading /\ rest = <<>>
        BY <2>6, <3>1 DEF EndOfInput, search
      <4>2. BadPrefix \/ job.inputs[opened].state = "unreadable"
        BY <3>1 DEF ParserFails
      <4>3. opened \in 1..Len(job.inputs) /\ AllExist /\ report = NothingReported
        BY <2>1, <4>1 DEF RunInv, ExitInv
      <4>4. (BadPrefix \/ job.inputs[opened].state = "unreadable")'
        BY <2>0, <4>1, <4>2
      <4>5. RunInv'
        <5>1. reading' \in BOOLEAN /\ ~reading'
          BY <4>1
        <5>2. /\ opened' \in 0..Len(job'.inputs) /\ opened' # 0 /\ AllExist'
              /\ exit' \in {Running, 0, 1, 2} /\ rest' = <<>> /\ report' = NothingReported
          BY <2>0, <2>1, <4>1, <4>3
        <5> QED BY <2>0, <5>1, <5>2 DEF RunInv
      <4> QED BY <4>1, <4>3, <4>4, <4>5 DEF ExitInv
    <3>2. CASE ~ParserFails
      <4>1. exit' = Running /\ reading' = FALSE /\ UNCHANGED <<opened, rest, shown, report>>
            /\ exit = Running /\ reading /\ rest = <<>>
        BY <2>6, <3>2 DEF EndOfInput, search
      <4>2. ~BadPrefix /\ (job.inputs[opened].state = "unreadable" => job.format = "auto")
        BY <3>2 DEF ParserFails
      <4>3. \A i \in DOMAIN job.inputs : Finished(i)' => Finished(i) \/ i = opened
        BY <4>1 DEF Finished
      <4> QED BY <2>0, <2>1, <4>1, <4>2, <4>3 DEF RunInv, ExitInv
    <3> QED BY <3>1, <3>2
  <2>7. CASE Report
    <3>1. /\ exit' = 0 /\ exit = Running /\ ~reading /\ opened = Len(job.inputs)
          /\ UNCHANGED <<opened, reading, rest, shown>>
      BY <2>7 DEF Report, parser, search
    <3> QED BY <2>0, <2>1, <3>1 DEF RunInv, ExitInv, Finished
  <2>8. CASE UNCHANGED vars
    BY <2>0, <2>8 DEF vars, RunInv, ExitInv, parser, search, Finished
  <2> QED BY <2>2, <2>3, <2>4, <2>5, <2>6, <2>7, <2>8 DEF Next
<1> QED BY <1>1, <1>2, PTL DEF Spec

(***************************************************************************)
(* The exit code tells what happened (IFC-012): a report is written only   *)
(* after every input was read to its end, an input that failed ends the run*)
(* with 1 and without one, and 2 means that nothing was opened             *)
(* (main.go:71-80, options.go:139-251).                                    *)
(***************************************************************************)
THEOREM ExitCodeIsTrue == Spec => []ExitTellsTheOutcome
<1> USE RunningIsNoCode
<1>1. ExitInv => ExitTellsTheOutcome
  <2> SUFFICES ASSUME ExitInv PROVE ExitTellsTheOutcome
    OBVIOUS
  <2>1. DOMAIN job.inputs = 1..Len(job.inputs) /\ Len(job.inputs) \in Nat \ {0}
    BY EmptySeq DEF RunInv, ExitInv, IsJob
  <2>2. ASSUME exit = 0
        PROVE  /\ opened = Len(job.inputs) /\ rest = <<>> /\ ~BadPrefix
               /\ \A i \in DOMAIN job.inputs :
                    \/ job.inputs[i].state = "ok"
                    \/ job.inputs[i].state = "unreadable" /\ job.format = "auto"
    <3>1. \A i \in DOMAIN job.inputs : Finished(i)
      BY <2>1, <2>2 DEF RunInv, ExitInv, Finished
    <3>2. \A i \in DOMAIN job.inputs :
            job.inputs[i].state \in {"ok", "missing", "unreadable"}
      <4>1. ASSUME NEW i \in DOMAIN job.inputs
            PROVE  job.inputs[i].state \in {"ok", "missing", "unreadable"}
        <5>1. job.inputs[i] \in Inputs
          BY <2>1 DEF RunInv, ExitInv, IsJob
        <5> QED BY <5>1 DEF Inputs
      <4> QED BY <4>1
    <3>3. AllExist /\ opened = Len(job.inputs) /\ rest = <<>>
      BY <2>1, <2>2 DEF RunInv, ExitInv
    <3> QED BY <2>1, <2>2, <3>1, <3>2, <3>3 DEF RunInv, ExitInv, AllExist
  <2>3. exit = 1 => /\ opened > 0 /\ AllExist
                    /\ BadPrefix \/ job.inputs[opened].state = "unreadable"
                    /\ report = NothingReported
    BY DEF RunInv, ExitInv
  <2>4. exit = 2 => opened = 0 /\ shown = <<>> /\ ~AllExist
    BY DEF RunInv, ExitInv
  <2> QED BY <2>2, <2>3, <2>4 DEF ExitTellsTheOutcome
<1> QED BY <1>1, ExitInvHolds, PTL

(***************************************************************************)
(* grep.  The ring holds the records since the last one shown, at most -B  *)
(* of them: those are the records of which it is not yet known whether     *)
(* they are context.                                                       *)
(***************************************************************************)
Line == [record : 1..number, number : 1..number, hit : BOOLEAN]

IsShown(n) == \E k \in DOMAIN shown : shown[k].record = n

SearchTyped ==
  /\ IsJob(job)
  /\ number \in Nat /\ hits \subseteq 1..number
  /\ ring \in Seq(1..number) /\ Len(ring) <= job.before /\ Len(ring) <= number
  /\ pending \in 0..job.after
  /\ pending > 0 => ring = <<>>
  /\ job.command # "grep" => ring = <<>> /\ hits = {}

\* The ring holds the last records: none of them matched, and none was shown.
LinesInOrder ==
  /\ \A i \in 1..Len(ring) : ring[i] = number - Len(ring) + i
  /\ \A h \in hits : h <= number - Len(ring)
  /\ shown \in Seq(Line)
  /\ \A k \in 1..Len(shown) :
       /\ shown[k].record = shown[k].number /\ shown[k].number <= number - Len(ring)
       /\ shown[k].hit <=> shown[k].record \in hits
       /\ \A j \in 1..(k - 1) : shown[j].record < shown[k].record

\* What is owed after a hit is counted from the last one.
ContextOwed ==
  /\ \A h \in hits : h + job.after <= number + pending
  /\ pending > 0 => \E h \in hits : h + job.after = number + pending

\* Whatever may become leading context is shown or still held.
ContextHeld ==
  \A n \in 1..number : n > number - job.before => n > number - Len(ring) \/ IsShown(n)

WindowIsShown ==
  /\ \A n \in Window : IsShown(n)
  /\ \A k \in 1..Len(shown) : shown[k].record \in Window

GrepInv == LinesInOrder /\ ContextOwed /\ ContextHeld /\ WindowIsShown

SearchInv == SearchTyped /\ (job.command = "grep" => GrepInv)

(***************************************************************************)
(* The i-th of an interval is i; lines with numbers that were not shown are*)
(* all written.                                                            *)
(***************************************************************************)
LEMMA CardinalityUpTo ==
  ASSUME NEW n \in Nat
  PROVE  IsFiniteSet(1..n) /\ Cardinality(1..n) = n
<1>1. \A a, b \in Int : /\ IsFiniteSet(a..b)
                         /\ Cardinality(a..b) = IF a > b THEN 0 ELSE b - a + 1
  BY FS_Interval
<1>2. IsFiniteSet(1..n) /\ Cardinality(1..n) = IF 1 > n THEN 0 ELSE n - 1 + 1
  BY <1>1
<1> QED BY <1>2

LEMMA NthOfInterval ==
  ASSUME NEW m \in Nat, NEW i \in 1..m
  PROVE  Nth(1..m, i) = i
<1>1. ASSUME NEW k \in 1..m PROVE Cardinality({l \in 1..m : l <= k}) = k
  <2>1. {l \in 1..m : l <= k} = 1..k /\ k \in Nat
    OBVIOUS
  <2> QED BY <2>1, CardinalityUpTo
<1> QED BY <1>1 DEF Nth

LEMMA EmitAll ==
  ASSUME NEW S, NEW lines \in Seq(S), Emit(lines),
         \A k \in DOMAIN lines, j \in DOMAIN shown : shown[j].number # lines[k].number
  PROVE  shown' = shown \o lines
<1> DEFINE fresh == {k \in DOMAIN lines :
                       \A j \in DOMAIN shown : shown[j].number # lines[k].number}
<1>1. fresh = 1..Len(lines) /\ Len(lines) \in Nat
  OBVIOUS
<1>2. Cardinality(fresh) = Len(lines)
  BY <1>1, CardinalityUpTo
<1>3. shown' = shown \o [i \in 1..Cardinality(fresh) |-> lines[Nth(fresh, i)]]
  BY DEF Emit
<1>4. \A i \in 1..Len(lines) : Nth(1..Len(lines), i) = i
  BY <1>1, NthOfInterval
<1> HIDE DEF fresh
<1>5. [i \in 1..Cardinality(fresh) |-> lines[Nth(fresh, i)]]
        = [i \in 1..Len(lines) |-> lines[i]]
  BY <1>1, <1>2, <1>4
<1>6. [i \in 1..Len(lines) |-> lines[i]] = lines
  OBVIOUS
<1> QED BY <1>3, <1>5, <1>6

\* What a step does to grep.
LEMMA SearchStep ==
  ASSUME [Next]_vars
  PROVE  \/ UNCHANGED <<number, ring, pending, hits>> /\ (job.command = "grep" => shown' = shown)
         \/ \E record : Search(record)
         \/ job.command = "parse" /\ number' = number + 1 /\ UNCHANGED <<ring, pending, hits>>
<1>1. CASE ReadRecord
  <2>1. \/ UNCHANGED <<search, hits>>
        \/ \E fields, record : Handle(fields, record)
    BY <1>1 DEF ReadRecord
  <2>2. CASE UNCHANGED <<search, hits>>
    BY <2>2 DEF search
  <2>3. ASSUME NEW fields, NEW record, Handle(fields, record)
        PROVE  \/ UNCHANGED <<search, hits>> \/ Search(record)
               \/ /\ job.command = "parse" /\ number' = number + 1
                  /\ UNCHANGED <<ring, pending, hits>>
    BY <2>3 DEF Handle, Count, Keep, Write, search
  <2> QED BY <2>1, <2>2, <2>3 DEF search
<1>2. CASE ~ReadRecord
  <2>1. UNCHANGED <<search, hits>>
    BY <1>2 DEF Next, NoInputMatched, OpenNext, SkipBlank, EndOfInput, Report,
               vars, history
  <2> QED BY <2>1 DEF search
<1> QED BY <1>1, <1>2

LEMMA ConcatSeqs ==
  ASSUME NEW S, NEW s \in Seq(S), NEW t \in Seq(S)
  PROVE  /\ s \o t \in Seq(S) /\ Len(s \o t) = Len(s) + Len(t)
         /\ \A k \in 1..Len(s) : (s \o t)[k] = s[k]
         /\ \A i \in 1..Len(t) : (s \o t)[Len(s) + i] = t[i]
OBVIOUS

(***************************************************************************)
(* A hit shows the ring and itself, which leaves the ring empty.           *)
(***************************************************************************)
LEMMA HitShowsRing ==
  ASSUME SearchTyped, LinesInOrder, number' = number + 1, ShowHit(number')
  PROVE  /\ shown' \in Seq(Line') /\ Len(shown') = Len(shown) + Len(ring) + 1
         /\ \A k \in 1..Len(shown) : shown'[k] = shown[k]
         /\ \A i \in 1..(Len(ring) + 1) :
              shown'[Len(shown) + i] =
                [record |-> number - Len(ring) + i, number |-> number - Len(ring) + i,
                 hit |-> (i = Len(ring) + 1)]
<1> DEFINE n == number + 1
           L == Len(ring)
           lead == [i \in 1..L |-> [record |-> ring[i], number |-> n - (L + 1 - i),
                                    hit |-> FALSE]]
           last == <<[record |-> n, number |-> n, hit |-> TRUE]>>
           lines == lead \o last
           ShownAt(i) == [record |-> number - L + i, number |-> number - L + i, hit |-> (i = L + 1)]
<1>1. /\ number \in Nat /\ L \in 0..number /\ n \in Nat /\ L \in Nat
      /\ DOMAIN ring = 1..L /\ \A i \in 1..L : ring[i] = number - L + i
  BY DEF SearchTyped, LinesInOrder
<1>2. shown \in Seq(Line) /\ \A k \in 1..Len(shown) : shown[k].number <= number - L
  BY DEF LinesInOrder
<1>3. Emit(lines)
  <2>1. Emit(LeadingContext(number') \o <<Shown(number', number', TRUE)>>)
    BY DEF ShowHit
  <2>2. LeadingContext(n) = lead
    BY <1>1, Zenon DEF LeadingContext, Shown
  <2>3. <<Shown(n, n, TRUE)>> = last
    BY Zenon DEF Shown
  <2> QED BY <2>1, <2>2, <2>3, Zenon
<1>4. \A i \in 1..L : lead[i] = ShownAt(i)
  <2> SUFFICES ASSUME NEW i \in 1..L PROVE lead[i] = ShownAt(i)
    OBVIOUS
  <2>1. ring[i] = number - L + i /\ n - (L + 1 - i) = number - L + i /\ (i = L + 1) = FALSE
    BY <1>1
  <2> QED BY <2>1
<1>5. [record |-> n, number |-> n, hit |-> TRUE] = ShownAt(L + 1)
  <2>1. number - L + (L + 1) = n /\ (L + 1 = L + 1) = TRUE
    BY <1>1
  <2> QED BY <2>1
<1>6. Line' = [record : 1..n, number : 1..n, hit : BOOLEAN]
  BY DEF Line
<1>7. \A i \in 1..(L + 1) : ShownAt(i) \in Line' /\ ShownAt(i).number = number - L + i
  <2> SUFFICES ASSUME NEW i \in 1..(L + 1)
               PROVE  ShownAt(i) \in Line' /\ ShownAt(i).number = number - L + i
    OBVIOUS
  <2>1. number - L + i \in 1..n /\ (i = L + 1) \in BOOLEAN
    BY <1>1
  <2> QED BY <1>6, <2>1
<1> DEFINE S == [record : 1..n, number : 1..n, hit : BOOLEAN]
<1> HIDE DEF ShownAt
<1>8. lead \in Seq(S) /\ Len(lead) = L /\ last \in Seq(S) /\ Len(last) = 1
      /\ last[1] = ShownAt(L + 1)
  <2>1. [record |-> n, number |-> n, hit |-> TRUE] \in S
    BY <1>1
  <2>2. \A i \in 1..L : lead[i] \in S
    <3>1. \A i \in 1..L : ShownAt(i) \in Line'
      BY <1>1, <1>7
    <3> QED BY <1>4, <1>6, <3>1
  <2> HIDE DEF S
  <2>3. lead \in Seq(S) /\ Len(lead) = L
    BY <1>1, <2>2
  <2>4. last \in Seq(S) /\ Len(last) = 1 /\ last[1] = [record |-> n, number |-> n, hit |-> TRUE]
    BY <2>1
  <2> QED BY <1>5, <2>3, <2>4
<1>9. lines \in Seq(S) /\ Len(lines) = L + 1 /\ \A i \in 1..(L + 1) : lines[i] = ShownAt(i)
  <2> HIDE DEF lead, last, S
  <2>1. lead \o last \in Seq(S) /\ Len(lead \o last) = Len(lead) + Len(last)
    BY <1>8, ConcatSeqs
  <2>2. \A i \in 1..Len(lead) : (lead \o last)[i] = lead[i]
    BY <1>8, ConcatSeqs
  <2>3. lead \in Seq(S) /\ last \in Seq(S)
    BY <1>8
  <2>4. lines = lead \o last
    OBVIOUS
  <2> HIDE DEF lines
  <2>5. (lead \o last)[L + 1] = ShownAt(L + 1)
    <3>1. 1 \in 1..Len(last)
      BY <1>8
    <3>2. (lead \o last)[Len(lead) + 1] = last[1]
      BY <2>3, <3>1, ConcatSeqs
    <3> QED BY <1>8, <3>2
  <2>6. \A i \in 1..L : (lead \o last)[i] = ShownAt(i)
    BY <1>4, <1>8, <2>2
  <2> HIDE DEF L
  <2>7. \A i \in 1..(L + 1) : i \in 1..L \/ i = L + 1
    BY <1>1
  <2> QED BY <1>8, <2>1, <2>4, <2>5, <2>6, <2>7
<1> HIDE DEF lines, S
<1>10. shown' = shown \o lines
  <2>1. \A k \in DOMAIN lines : lines[k].number = number - L + k /\ k \in 1..(L + 1)
    BY <1>7, <1>9
  <2>2. \A j \in DOMAIN shown : shown[j].number <= number - L /\ shown[j].number \in Nat
    <3>1. ASSUME NEW j \in DOMAIN shown
          PROVE  shown[j].number <= number - L /\ shown[j].number \in Nat
      <4>1. j \in 1..Len(shown) /\ shown[j] \in Line
        BY <1>2
      <4>2. shown[j].number \in 1..number
        BY <4>1 DEF Line
      <4> QED BY <1>1, <1>2, <4>1, <4>2
    <3> QED BY <3>1
  <2> HIDE DEF L
  <2>3. \A k \in DOMAIN lines, j \in DOMAIN shown : shown[j].number # lines[k].number
    BY <1>1, <2>1, <2>2
  <2> QED BY <1>3, <1>9, <2>3, EmitAll
<1>11. shown \in Seq(S)
  <2>1. \A k \in 1..Len(shown) : shown[k] \in S
    <3> SUFFICES ASSUME NEW k \in 1..Len(shown) PROVE shown[k] \in S
      OBVIOUS
    <3>1. shown[k] \in Line
      BY <1>2
    <3> QED BY <1>1, <3>1 DEF Line, S
  <2> QED BY <1>2, <2>1
<1>12. /\ shown \o lines \in Seq(S) /\ Len(shown \o lines) = Len(shown) + Len(lines)
       /\ \A k \in 1..Len(shown) : (shown \o lines)[k] = shown[k]
       /\ \A i \in 1..Len(lines) : (shown \o lines)[Len(shown) + i] = lines[i]
  <2>1. /\ shown \o lines \in Seq(S) /\ Len(shown \o lines) = Len(shown) + Len(lines)
        /\ \A k \in 1..Len(shown) : (shown \o lines)[k] = shown[k]
    BY <1>9, <1>11, ConcatSeqs
  <2>2. \A i \in 1..Len(lines) : (shown \o lines)[Len(shown) + i] = lines[i]
    BY <1>9, <1>11, ConcatSeqs
  <2> QED BY <2>1, <2>2
<1>13. /\ shown' \in Seq(S) /\ Len(shown') = Len(shown) + (L + 1)
       /\ \A k \in 1..Len(shown) : shown'[k] = shown[k]
       /\ \A i \in 1..(L + 1) : shown'[Len(shown) + i] = ShownAt(i)
  <2> HIDE DEF L
  <2> QED BY <1>9, <1>10, <1>12
<1>14. shown' \in Seq(Line')
  BY <1>6, <1>13 DEF S
<1>15. Len(shown') = Len(shown) + Len(ring) + 1
  BY <1>1, <1>13
<1> QED BY <1>13, <1>14, <1>15 DEF ShownAt

LEMMA HitKeepsWindow ==
  ASSUME SearchTyped, GrepInv, job.command = "grep", job' = job,
         number' = number + 1, hits' = hits \cup {number'}, ShowHit(number')
  PROVE  SearchTyped' /\ GrepInv'
<1> DEFINE n == number + 1
           L == Len(ring)
           m == Len(shown)
<1>1. /\ number \in Nat /\ L \in 0..number /\ n \in Nat /\ L \in Nat /\ L <= job.before
      /\ job.before \in Nat /\ job.after \in Nat /\ hits \subseteq 1..number
      /\ number' = n /\ hits' = hits \cup {n}
  BY DEF SearchTyped, IsJob
<1>2. ring' = <<>> /\ pending' = job.after
  BY DEF ShowHit
<1>3. /\ shown \in Seq(Line) /\ m \in Nat
      /\ \A k \in 1..m : /\ shown[k].record \in 1..number /\ shown[k].hit \in BOOLEAN
                         /\ shown[k].record = shown[k].number
                         /\ shown[k].number <= number - L
                         /\ shown[k].hit <=> shown[k].record \in hits
                         /\ \A j \in 1..(k - 1) : shown[j].record < shown[k].record
  <2>1. shown \in Seq(Line) /\ \A k \in 1..m : shown[k] \in Line
    BY DEF GrepInv, LinesInOrder
  <2>2. \A k \in 1..m : shown[k].record \in 1..number /\ shown[k].hit \in BOOLEAN
    BY <2>1 DEF Line
  <2> QED BY <2>1, <2>2 DEF GrepInv, LinesInOrder
<1>4. /\ shown' \in Seq(Line') /\ Len(shown') = m + L + 1
      /\ \A k \in 1..m : shown'[k] = shown[k]
      /\ \A i \in 1..(L + 1) :
           shown'[m + i] = [record |-> number - L + i, number |-> number - L + i,
                            hit |-> (i = L + 1)]
  BY HitShowsRing DEF GrepInv
<1>5. \A i \in 1..(L + 1) : /\ shown'[m + i].record = number - L + i
                            /\ shown'[m + i].number = number - L + i
                            /\ shown'[m + i].hit <=> i = L + 1
  <2> SUFFICES ASSUME NEW i \in 1..(L + 1)
               PROVE  /\ shown'[m + i].record = number - L + i
                      /\ shown'[m + i].number = number - L + i
                      /\ shown'[m + i].hit <=> i = L + 1
    OBVIOUS
  <2>1. shown'[m + i] = [record |-> number - L + i, number |-> number - L + i,
                         hit |-> (i = L + 1)]
    BY <1>4
  <2>2. /\ shown'[m + i].record = number - L + i
        /\ shown'[m + i].number = number - L + i
    BY <2>1
  <2>3. shown'[m + i].hit <=> i = L + 1
    <3>1. CASE i = L + 1
      <4>1. shown'[m + i] = [record |-> number - L + i, number |-> number - L + i,
                             hit |-> TRUE]
        BY <2>1, <3>1
      <4> QED BY <3>1, <4>1
    <3>2. CASE i # L + 1
      <4>1. shown'[m + i] = [record |-> number - L + i, number |-> number - L + i,
                             hit |-> FALSE]
        BY <2>1, <3>2
      <4> QED BY <3>2, <4>1
    <3> QED BY <3>1, <3>2
  <2> QED BY <2>2, <2>3
<1> HIDE DEF L, m
<1>6. \A k \in 1..(m + L + 1) : k \in 1..m \/ \E i \in 1..(L + 1) : k = m + i
  <2> SUFFICES ASSUME NEW k \in 1..(m + L + 1), k \notin 1..m
               PROVE  k - m \in 1..(L + 1) /\ k = m + (k - m)
    OBVIOUS
  <2> QED BY <1>1, <1>3
<1>7. SearchTyped'
  <2>1. ring' \in Seq(1..number') /\ Len(ring') = 0
    BY <1>2
  <2> QED BY <1>1, <1>2, <2>1 DEF SearchTyped
<1>8. LinesInOrder'
  <2>1. \A k \in 1..Len(shown') :
          /\ shown'[k].record = shown'[k].number /\ shown'[k].number <= number'
          /\ shown'[k].hit <=> shown'[k].record \in hits'
          /\ \A j \in 1..(k - 1) : shown'[j].record < shown'[k].record
    <3>1. ASSUME NEW k \in 1..m
          PROVE  /\ shown'[k].record = shown'[k].number /\ shown'[k].number <= number'
                 /\ shown'[k].hit <=> shown'[k].record \in hits'
                 /\ \A j \in 1..(k - 1) : shown'[j].record < shown'[k].record
      <4>1. shown'[k] = shown[k] /\ \A j \in 1..(k - 1) : shown'[j] = shown[j]
        BY <1>3, <1>4
      <4> QED BY <1>1, <1>3, <4>1
    <3>2. ASSUME NEW i \in 1..(L + 1)
          PROVE  /\ shown'[m + i].record = shown'[m + i].number
                 /\ shown'[m + i].number <= number'
                 /\ shown'[m + i].hit <=> shown'[m + i].record \in hits'
                 /\ \A j \in 1..(m + i - 1) : shown'[j].record < shown'[m + i].record
      <4>1. /\ shown'[m + i].record = number - L + i /\ shown'[m + i].number = number - L + i
            /\ shown'[m + i].hit <=> i = L + 1
        BY <1>5
      <4>2. \A j \in 1..(m + i - 1) : shown'[j].record < shown'[m + i].record
        <5> SUFFICES ASSUME NEW j \in 1..(m + i - 1)
                     PROVE  shown'[j].record < number - L + i
          BY <4>1
        <5>1. CASE j \in 1..m
          <6>1. shown'[j] = shown[j]
            BY <1>4, <5>1
          <6>2. shown[j].record \in 1..number /\ shown[j].record <= number - L
            BY <1>3, <5>1
          <6> QED BY <1>1, <6>1, <6>2
        <5>2. CASE j \notin 1..m
          <6>1. j - m \in 1..(L + 1) /\ j = m + (j - m) /\ j - m < i
            BY <1>1, <1>3, <5>2
          <6>2. shown'[j].record = number - L + (j - m)
            BY <1>5, <6>1
          <6> QED BY <1>1, <1>3, <6>1, <6>2
        <5> QED BY <5>1, <5>2
      <4>3. number - L + i \in hits' <=> i = L + 1
        <5>1. \A h \in hits : h <= number - L
          BY DEF GrepInv, LinesInOrder, L
        <5>2. i = L + 1 <=> number - L + i = n
          BY <1>1
        <5>3. i # L + 1 => ~(number - L + i <= number - L)
          BY <1>1
        <5>4. n \in hits' /\ (number - L + i \in hits' => number - L + i \in hits \/ number - L + i = n)
          BY <1>1
        <5>5. number - L + i \in hits => number - L + i <= number - L
          BY <5>1
        <5> QED BY <5>2, <5>3, <5>4, <5>5
      <4> QED BY <1>1, <4>1, <4>2, <4>3
    <3> SUFFICES ASSUME NEW k \in 1..Len(shown')
                 PROVE  /\ shown'[k].record = shown'[k].number /\ shown'[k].number <= number'
                        /\ shown'[k].hit <=> shown'[k].record \in hits'
                        /\ \A j \in 1..(k - 1) : shown'[j].record < shown'[k].record
      OBVIOUS
    <3>3. k \in 1..m \/ \E i \in 1..(L + 1) : k = m + i
      BY <1>4, <1>6
    <3>4. CASE k \in 1..m
      BY <3>1, <3>4
    <3>5. ASSUME NEW i \in 1..(L + 1), k = m + i
          PROVE  /\ shown'[k].record = shown'[k].number /\ shown'[k].number <= number'
                 /\ shown'[k].hit <=> shown'[k].record \in hits'
                 /\ \A j \in 1..(k - 1) : shown'[j].record < shown'[k].record
      <4>1. m + i - 1 = k - 1
        BY <1>1, <1>3, <3>5
      <4> QED BY <3>2, <3>5, <4>1, Zenon
    <3> QED BY <3>3, <3>4, <3>5
  <2>2. \A h \in hits' : h <= number' - Len(ring')
    BY <1>1, <1>2
  <2> QED BY <1>1, <1>2, <1>4, <2>1, <2>2 DEF LinesInOrder
<1>9. \A p : p \in 1..n => ((\E k \in DOMAIN shown' : shown'[k].record = p) <=>
                           IsShown(p) \/ p > number - L)
  <2> SUFFICES ASSUME NEW p \in 1..n
               PROVE  (\E k \in DOMAIN shown' : shown'[k].record = p) <=>
                         IsShown(p) \/ p > number - L
    OBVIOUS
  <2>1. DOMAIN shown = 1..m /\ DOMAIN shown' = 1..(m + L + 1)
    BY <1>3, <1>4 DEF m
  <2>2. ASSUME NEW k \in 1..(m + L + 1), shown'[k].record = p
        PROVE  IsShown(p) \/ p > number - L
    <3>1. CASE k \in 1..m
      BY <1>4, <2>1, <2>2, <3>1 DEF IsShown
    <3>2. ASSUME NEW i \in 1..(L + 1), k = m + i PROVE p > number - L
      <4>1. p = number - L + i
        BY <1>5, <2>2, <3>2
      <4> QED BY <1>1, <4>1
    <3> QED BY <1>6, <3>1, <3>2
  <2>3. ASSUME IsShown(p) PROVE \E k \in DOMAIN shown' : shown'[k].record = p
    <3>1. PICK k \in 1..m : shown[k].record = p
      BY <2>1, <2>3 DEF IsShown
    <3>2. k \in 1..(m + L + 1) /\ shown'[k] = shown[k]
      BY <1>1, <1>3, <1>4, <3>1
    <3> QED BY <2>1, <3>1, <3>2
  <2>4. ASSUME p > number - L PROVE \E k \in DOMAIN shown' : shown'[k].record = p
    <3> DEFINE i == p - (number - L)
    <3>0. m \in Nat
      BY <1>3
    <3>1. i \in 1..(L + 1) /\ number - L + i = p
      BY <1>1, <2>4
    <3>3. m + i \in 1..(m + L + 1)
      BY <1>1, <3>0, <3>1
    <3>2. shown'[m + i].record = number - L + i
      BY <1>5, <3>1
    <3> QED BY <2>1, <3>1, <3>2, <3>3
  <2> QED BY <2>1, <2>2, <2>3, <2>4
<1>10. ContextOwed'
  <2>1. \A h \in hits' : h <= n /\ h \in Nat
    BY <1>1
  <2>2. \A h \in hits' : h + job'.after <= number' + pending'
    BY <1>1, <1>2, <2>1
  <2>3. n \in hits' /\ n + job'.after = number' + pending'
    BY <1>1, <1>2
  <2> QED BY <2>2, <2>3 DEF ContextOwed
<1>11. ContextHeld'
  <2>1. ASSUME NEW p \in 1..n, p > n - job.before
        PROVE  \E k \in DOMAIN shown' : shown'[k].record = p
    <3>1. p \in 1..number /\ p > number - job.before => p > number - L \/ IsShown(p)
      BY DEF GrepInv, ContextHeld, L
    <3>2. p = n => p > number - L
      BY <1>1
    <3> QED BY <1>1, <1>9, <2>1, <3>1, <3>2
  <2> QED BY <1>1, <2>1 DEF ContextHeld, IsShown
<1>12. WindowIsShown'
  <2>1. ASSUME NEW p \in Window' PROVE \E k \in DOMAIN shown' : shown'[k].record = p
    <3>1. PICK h \in hits \cup {n} : p \in 1..n /\ p \in (h - job.before)..(h + job.after)
      BY <1>1 DEF Window
    <3>2. CASE p = n
      BY <1>1, <1>9, <3>2
    <3>3. CASE p # n /\ h # n
      <4>1. p \in Window
        BY <1>1, <3>1, <3>3 DEF Window
      <4>2. IsShown(p)
        BY <4>1 DEF GrepInv, WindowIsShown
      <4> QED BY <1>9, <3>1, <4>2
    <3>4. CASE p # n /\ h = n
      <4>1. p \in 1..number /\ p > number - job.before
        BY <1>1, <3>1, <3>4
      <4>2. p > number - L \/ IsShown(p)
        BY <4>1 DEF GrepInv, ContextHeld, L
      <4> QED BY <1>9, <3>1, <4>2
    <3> QED BY <3>2, <3>3, <3>4
  <2>2. ASSUME NEW k \in 1..Len(shown') PROVE shown'[k].record \in Window'
    <3>1. CASE k \in 1..m
      <4>1. shown[k].record \in Window
        BY <3>1 DEF GrepInv, WindowIsShown, m
      <4>2. PICK h \in hits : shown[k].record \in (h - job.before)..(h + job.after)
        BY <4>1 DEF Window
      <4>3. shown[k].record \in 1..number
        BY <1>3, <3>1
      <4>4. shown[k].record \in 1..n /\ h \in hits'
        BY <1>1, <4>3
      <4>5. Window' = {p \in 1..n : \E g \in hits' : p \in (g - job.before)..(g + job.after)}
        BY <1>1 DEF Window
      <4>6. shown[k].record \in Window'
        BY <4>2, <4>4, <4>5
      <4> QED BY <1>4, <3>1, <4>6
    <3>2. ASSUME NEW i \in 1..(L + 1), k = m + i PROVE shown'[k].record \in Window'
      <4>1. shown'[k].record = number - L + i
        BY <1>5, <3>2
      <4>2. /\ number - L + i \in 1..n
            /\ number - L + i \in (n - job.before)..(n + job.after)
        BY <1>1
      <4> QED BY <1>1, <4>1, <4>2 DEF Window
    <3> QED BY <1>4, <1>6, <3>1, <3>2
  <2> QED BY <2>1, <2>2 DEF WindowIsShown, IsShown
<1> QED BY <1>7, <1>8, <1>10, <1>11, <1>12 DEF GrepInv

(***************************************************************************)
(* Trailing context is shown at once; the ring is empty then.              *)
(***************************************************************************)
LEMMA TrailingIsShown ==
  ASSUME SearchTyped, LinesInOrder, number' = number + 1, pending > 0,
         ShowTrailing(number')
  PROVE  /\ shown' \in Seq(Line') /\ Len(shown') = Len(shown) + 1
         /\ \A k \in 1..Len(shown) : shown'[k] = shown[k]
         /\ shown'[Len(shown) + 1] =
              [record |-> number + 1, number |-> number + 1, hit |-> FALSE]
<1> DEFINE n == number + 1
           line == [record |-> n, number |-> n, hit |-> FALSE]
           S == [record : 1..n, number : 1..n, hit : BOOLEAN]
<1>1. number \in Nat /\ n \in Nat /\ Line' = S
  BY DEF SearchTyped, Line
<1>2. Emit(<<line>>)
  <2>1. Emit(<<Shown(n, n, FALSE)>>)
    BY DEF ShowTrailing
  <2>2. Shown(n, n, FALSE) = line
    BY Zenon DEF Shown
  <2> QED BY <2>1, <2>2, Zenon
<1>3. line \in S /\ line.number = n
  BY <1>1
<1>4. shown \in Seq(S) /\ \A k \in DOMAIN shown : shown[k].number \in 1..number
  <2>1. \A k \in 1..Len(shown) : shown[k] \in S /\ shown[k].number \in 1..number
    <3> SUFFICES ASSUME NEW k \in 1..Len(shown)
                 PROVE  shown[k] \in S /\ shown[k].number \in 1..number
      OBVIOUS
    <3>1. shown[k] \in Line
      BY DEF LinesInOrder
    <3> QED BY <1>1, <3>1 DEF Line
  <2>2. shown \in Seq(Line)
    BY DEF LinesInOrder
  <2> HIDE DEF S
  <2>3. shown \in Seq(S)
    BY <2>1, <2>2
  <2> QED BY <2>1, <2>2, <2>3
<1> HIDE DEF line, S
<1>5. <<line>> \in Seq(S) /\ Len(<<line>>) = 1 /\ <<line>>[1] = line /\ DOMAIN <<line>> = {1}
  BY <1>3
<1>6. shown' = shown \o <<line>>
  <2>1. \A k \in DOMAIN <<line>>, j \in DOMAIN shown :
          shown[j].number # <<line>>[k].number
    BY <1>1, <1>3, <1>4, <1>5
  <2> QED BY <1>2, <1>5, <2>1, EmitAll
<1>7. /\ shown' \in Seq(S) /\ Len(shown') = Len(shown) + 1
      /\ \A k \in 1..Len(shown) : shown'[k] = shown[k]
      /\ shown'[Len(shown) + 1] = line
  BY <1>3, <1>4, <1>6
<1> QED BY <1>1, <1>7 DEF line

LEMMA TrailingKeepsWindow ==
  ASSUME SearchTyped, GrepInv, job.command = "grep", job' = job,
         number' = number + 1, hits' = hits, pending > 0, ShowTrailing(number')
  PROVE  SearchTyped' /\ GrepInv'
<1> DEFINE n == number + 1
           m == Len(shown)
<1>1. /\ number \in Nat /\ n \in Nat /\ pending \in 1..job.after
      /\ job.before \in Nat /\ job.after \in Nat /\ hits \subseteq 1..number
      /\ number' = n /\ ring = <<>> /\ Len(ring) = 0
  BY DEF SearchTyped, IsJob
<1>2. ring' = <<>> /\ pending' = pending - 1 /\ Len(ring') = 0
  BY <1>1 DEF ShowTrailing
<1>3. /\ shown \in Seq(Line) /\ m \in Nat
      /\ \A k \in 1..m : /\ shown[k].record \in 1..number
                         /\ shown[k].record = shown[k].number
                         /\ shown[k].number <= number
                         /\ shown[k].hit <=> shown[k].record \in hits
                         /\ \A j \in 1..(k - 1) : shown[j].record < shown[k].record
  <2>1. shown \in Seq(Line) /\ \A k \in 1..m : shown[k] \in Line
    BY DEF GrepInv, LinesInOrder
  <2>2. \A k \in 1..m : shown[k].record \in 1..number
    BY <2>1 DEF Line
  <2> QED BY <1>1, <2>1, <2>2 DEF GrepInv, LinesInOrder
<1>4. /\ shown' \in Seq(Line') /\ Len(shown') = m + 1
      /\ \A k \in 1..m : shown'[k] = shown[k]
      /\ shown'[m + 1] = [record |-> n, number |-> n, hit |-> FALSE]
  BY TrailingIsShown DEF GrepInv
<1>5. shown'[m + 1].record = n /\ shown'[m + 1].number = n /\ shown'[m + 1].hit = FALSE
  BY <1>4
<1> HIDE DEF m
<1>6. SearchTyped'
  <2>1. ring' \in Seq(1..number')
    BY <1>2
  <2> QED BY <1>1, <1>2, <2>1 DEF SearchTyped
<1>7. LinesInOrder'
  <2>1. \A k \in 1..Len(shown') :
          /\ shown'[k].record = shown'[k].number /\ shown'[k].number <= number'
          /\ shown'[k].hit <=> shown'[k].record \in hits'
          /\ \A j \in 1..(k - 1) : shown'[j].record < shown'[k].record
    <3> SUFFICES ASSUME NEW k \in 1..(m + 1)
                 PROVE  /\ shown'[k].record = shown'[k].number /\ shown'[k].number <= number'
                        /\ shown'[k].hit <=> shown'[k].record \in hits'
                        /\ \A j \in 1..(k - 1) : shown'[j].record < shown'[k].record
      BY <1>4
    <3>1. CASE k \in 1..m
      <4>1. shown'[k] = shown[k] /\ \A j \in 1..(k - 1) : shown'[j] = shown[j]
        BY <1>3, <1>4, <3>1
      <4> QED BY <1>1, <1>3, <3>1, <4>1
    <3>2. CASE k = m + 1
      <4>1. \A j \in 1..(k - 1) : shown'[j].record < n
        <5> SUFFICES ASSUME NEW j \in 1..m PROVE shown'[j].record < n
          BY <1>3, <3>2
        <5>1. shown'[j] = shown[j] /\ shown[j] \in Line
          BY <1>3, <1>4 DEF m
        <5>2. shown[j].record \in 1..number
          BY <5>1 DEF Line
        <5> QED BY <1>1, <5>1, <5>2
      <4>2. n \notin hits' /\ ~shown'[k].hit
        BY <1>1, <1>5, <3>2
      <4> QED BY <1>1, <1>5, <3>2, <4>1, <4>2
    <3> QED BY <1>3, <3>1, <3>2
  <2>2. \A h \in hits' : h <= number' - Len(ring')
    BY <1>1, <1>2
  <2> QED BY <1>1, <1>2, <1>4, <2>1, <2>2 DEF LinesInOrder
<1>8. ASSUME NEW p, IsShown(p) \/ p = n
      PROVE  \E k \in DOMAIN shown' : shown'[k].record = p
  <2>1. DOMAIN shown' = 1..(m + 1) /\ DOMAIN shown = 1..m
    BY <1>3, <1>4 DEF m
  <2>2. CASE IsShown(p)
    <3>1. PICK k \in 1..m : shown[k].record = p
      BY <2>1, <2>2 DEF IsShown
    <3>2. k \in 1..(m + 1) /\ shown'[k] = shown[k]
      <4>1. m \in Nat
        BY <1>3
      <4> QED BY <1>4, <3>1, <4>1
    <3> QED BY <2>1, <3>1, <3>2
  <2>3. CASE p = n
    BY <1>3, <1>5, <2>1, <2>3
  <2> QED BY <1>8, <2>2, <2>3
<1>9. ContextOwed'
  <2>1. \A h \in hits' : h + job'.after <= number' + pending'
    BY <1>1, <1>2 DEF GrepInv, ContextOwed
  <2>2. PICK h \in hits : h + job.after = number + pending
    BY <1>1 DEF GrepInv, ContextOwed
  <2>3. h \in hits' /\ h + job'.after = number' + pending'
    BY <1>1, <1>2, <2>2
  <2> QED BY <2>1, <2>3 DEF ContextOwed
<1>10. ContextHeld'
  <2>1. ASSUME NEW p \in 1..n, p > n - job.before
        PROVE  \E k \in DOMAIN shown' : shown'[k].record = p
    <3>1. p = n \/ (p \in 1..number /\ p > number - job.before)
      BY <1>1, <2>1
    <3>2. p = n \/ IsShown(p)
      BY <1>1, <3>1 DEF GrepInv, ContextHeld
    <3> QED BY <1>8, <3>2
  <2> QED BY <1>1, <2>1 DEF ContextHeld, IsShown
<1>11. WindowIsShown'
  <2>1. ASSUME NEW p \in Window' PROVE \E k \in DOMAIN shown' : shown'[k].record = p
    <3>1. p = n \/ p \in Window
      BY <1>1 DEF Window
    <3> QED BY <1>8, <3>1 DEF GrepInv, WindowIsShown
  <2>2. ASSUME NEW k \in 1..(m + 1) PROVE shown'[k].record \in Window'
    <3>1. CASE k \in 1..m
      <4>1. shown'[k].record \in Window
        BY <1>4, <3>1 DEF GrepInv, WindowIsShown, m
      <4> QED BY <1>1, <4>1 DEF Window
    <3>2. CASE k = m + 1
      <4>1. PICK h \in hits : h + job.after = number + pending
        BY <1>1 DEF GrepInv, ContextOwed
      <4>2. n \in (h - job.before)..(h + job.after)
        BY <1>1, <4>1
      <4> QED BY <1>1, <1>5, <3>2, <4>2 DEF Window
    <3> QED BY <1>3, <3>1, <3>2
  <2> QED BY <1>4, <2>1, <2>2 DEF WindowIsShown, IsShown
<1> QED BY <1>6, <1>7, <1>9, <1>10, <1>11 DEF GrepInv

(***************************************************************************)
(* What may become leading context goes to the ring, which lets go of a    *)
(* record when -B others came after it.                                    *)
(***************************************************************************)
LEMMA RememberKeepsWindow ==
  ASSUME SearchTyped, GrepInv, job.command = "grep", job' = job,
         number' = number + 1, hits' = hits, pending = 0, Remember(number')
  PROVE  SearchTyped' /\ GrepInv'
<1> DEFINE n == number + 1
           L == Len(ring)
           M == Len(ring')
<1>1. /\ number \in Nat /\ n \in Nat /\ L \in Nat /\ L <= job.before /\ L <= number
      /\ job.before \in Nat /\ job.after \in Nat /\ hits \subseteq 1..number
      /\ number' = n /\ ring \in Seq(1..number)
      /\ \A i \in 1..L : ring[i] = number - L + i
      /\ \A h \in hits : h <= number - L
  BY DEF SearchTyped, IsJob, GrepInv, LinesInOrder
<1>2. shown' = shown /\ pending' = 0
  BY DEF Remember
<1>3. /\ ring' \in Seq(1..n) /\ M = (IF L < job.before THEN L + 1 ELSE L)
      /\ \A i \in 1..M : ring'[i] = n - M + i
  <2>1. ring \in Seq(1..n) /\ n \in 1..n
    BY <1>1
  <2>2. CASE job.before = 0
    <3>1. ring' = ring /\ L = 0
      BY <1>1, <2>2 DEF Remember
    <3> QED BY <1>1, <2>1, <2>2, <3>1
  <2>3. CASE job.before # 0 /\ L < job.before
    <3>1. ring' = Append(ring, n)
      BY <1>1, <2>3 DEF Remember
    <3>2. ring' \in Seq(1..n) /\ M = L + 1 /\ ring'[L + 1] = n
          /\ \A i \in 1..L : ring'[i] = ring[i]
      BY <1>1, <2>1, <3>1
    <3> HIDE DEF L, M
    <3>3. ASSUME NEW i \in 1..M PROVE ring'[i] = n - M + i
      <4>1. CASE i \in 1..L
        BY <1>1, <3>2, <4>1
      <4>2. CASE i = L + 1
        BY <1>1, <3>2, <4>2
      <4> QED BY <1>1, <3>2, <4>1, <4>2
    <3> QED BY <2>3, <3>2, <3>3
  <2>4. CASE job.before # 0 /\ L = job.before
    <3>1. ring' = Append(Tail(ring), n)
      BY <1>1, <2>4 DEF Remember
    <3>2. Tail(ring) \in Seq(1..n) /\ Len(Tail(ring)) = L - 1
          /\ \A i \in 1..(L - 1) : Tail(ring)[i] = ring[i + 1]
      BY <1>1, <2>1, <2>4
    <3>3. ring' \in Seq(1..n) /\ M = L /\ ring'[L] = n
          /\ \A i \in 1..(L - 1) : ring'[i] = Tail(ring)[i]
      BY <1>1, <2>1, <3>1, <3>2
    <3> HIDE DEF L, M
    <3>4. ASSUME NEW i \in 1..M PROVE ring'[i] = n - M + i
      <4>1. CASE i \in 1..(L - 1)
        <5>1. ring'[i] = ring[i + 1] /\ i + 1 \in 1..L
          BY <1>1, <3>2, <3>3, <4>1
        <5> QED BY <1>1, <3>3, <5>1
      <4>2. CASE i = L
        BY <1>1, <3>3, <4>2
      <4> QED BY <1>1, <3>3, <4>1, <4>2
    <3> QED BY <1>1, <2>4, <3>3, <3>4
  <2> QED BY <1>1, <2>2, <2>3, <2>4
<1> HIDE DEF M
<1>4. M \in Nat /\ n - M >= number - L /\ M <= n /\ M <= job.before
  BY <1>1, <1>3
<1>5. SearchTyped'
  <2>1. pending' > 0 => ring' = <<>>
    BY <1>2
  <2> QED BY <1>1, <1>2, <1>3, <1>4, <2>1 DEF SearchTyped, M
<1>6. LinesInOrder'
  <2>1. shown \in Seq(Line')
    <3>1. ASSUME NEW k \in 1..Len(shown) PROVE shown[k] \in Line'
      <4>1. shown[k] \in Line
        BY DEF GrepInv, LinesInOrder
      <4> QED BY <1>1, <4>1 DEF Line
    <3>2. shown \in Seq(Line)
      BY DEF GrepInv, LinesInOrder
    <3> QED BY <3>1, <3>2
  <2>2. \A k \in 1..Len(shown) :
          /\ shown[k].record = shown[k].number /\ shown[k].number <= n - M
          /\ shown[k].hit <=> shown[k].record \in hits
          /\ \A j \in 1..(k - 1) : shown[j].record < shown[k].record
    <3> SUFFICES ASSUME NEW k \in 1..Len(shown)
                 PROVE  /\ shown[k].record = shown[k].number /\ shown[k].number <= n - M
                        /\ shown[k].hit <=> shown[k].record \in hits
                        /\ \A j \in 1..(k - 1) : shown[j].record < shown[k].record
      OBVIOUS
    <3>1. shown[k] \in Line
      BY DEF GrepInv, LinesInOrder
    <3>2. shown[k].number \in Nat
      BY <1>1, <3>1 DEF Line
    <3>3. shown[k].number <= n - M
      BY <1>1, <1>4, <3>2 DEF GrepInv, LinesInOrder
    <3> QED BY <3>3 DEF GrepInv, LinesInOrder
  <2>3. \A h \in hits : h <= n - M
    BY <1>1, <1>4
  <2> QED BY <1>1, <1>2, <1>3, <2>1, <2>2, <2>3 DEF LinesInOrder, M
<1>7. ContextOwed'
  <2>1. \A h \in hits' : h + job'.after <= number' + pending'
    BY <1>1, <1>2 DEF GrepInv, ContextOwed
  <2> QED BY <1>2, <2>1 DEF ContextOwed
<1>8. ContextHeld'
  <2>1. ASSUME NEW p \in 1..n, p > n - job.before PROVE p > n - M \/ IsShown(p)
    <3>1. CASE L < job.before
      <4>1. n - M = number - L
        BY <1>1, <1>3, <3>1
      <4>2. p \in 1..number /\ p > number - job.before => p > number - L \/ IsShown(p)
        BY DEF GrepInv, ContextHeld
      <4> QED BY <1>1, <2>1, <4>1, <4>2
    <3>2. CASE L = job.before
      BY <1>1, <1>3, <2>1, <3>2
    <3> QED BY <1>1, <3>1, <3>2
  <2> QED BY <1>1, <1>2, <2>1 DEF ContextHeld, IsShown, M
<1>9. WindowIsShown'
  <2>1. Window' = Window
    <3>1. ASSUME NEW h \in hits PROVE n \notin (h - job.before)..(h + job.after)
      BY <1>1 DEF GrepInv, ContextOwed
    <3>2. Window' = {p \in 1..n : \E h \in hits : p \in (h - job.before)..(h + job.after)}
      BY <1>1 DEF Window
    <3>3. ASSUME NEW p \in 1..n, NEW h \in hits, p \in (h - job.before)..(h + job.after)
          PROVE  p \in 1..number
      <4>1. p # n
        BY <3>1, <3>3
      <4> QED BY <1>1, <4>1
    <3>4. \A p \in 1..number : p \in 1..n
      BY <1>1
    <3> QED BY <3>2, <3>3, <3>4 DEF Window
  <2> QED BY <1>2, <2>1 DEF GrepInv, WindowIsShown, IsShown
<1> QED BY <1>5, <1>6, <1>7, <1>8, <1>9 DEF GrepInv

LEMMA SearchInvHolds == Spec => []SearchInv
<1>1. Init => SearchInv
  <2> SUFFICES ASSUME Init PROVE SearchInv
    OBVIOUS
  <2>1. IsJob(job) /\ job.before \in Nat /\ job.after \in Nat
    BY JobsAssumption DEF Init, IsJob
  <2>2. number = 0 /\ ring = <<>> /\ pending = 0 /\ shown = <<>> /\ hits = {}
    BY DEF Init
  <2>3. SearchTyped
    BY <2>1, <2>2 DEF SearchTyped
  <2>4. LinesInOrder
    BY <2>2 DEF LinesInOrder
  <2>5. ContextOwed /\ ContextHeld
    BY <2>2 DEF ContextOwed, ContextHeld
  <2>6. WindowIsShown
    BY <2>2 DEF WindowIsShown, Window
  <2> QED BY <2>3, <2>4, <2>5, <2>6 DEF SearchInv, GrepInv
<1>2. SearchInv /\ [Next]_vars => SearchInv'
  <2> SUFFICES ASSUME SearchInv, [Next]_vars PROVE SearchInv'
    OBVIOUS
  <2>0. job' = job
    BY JobIsFixed
  <2>1. CASE UNCHANGED <<number, ring, pending, hits>> /\ (job.command = "grep" => shown' = shown)
    <3>1. SearchTyped'
      BY <2>0, <2>1 DEF SearchInv, SearchTyped
    <3>2. ASSUME job.command = "grep" PROVE GrepInv'
      BY <2>0, <2>1, <3>2
      DEF SearchInv, GrepInv, LinesInOrder, ContextOwed, ContextHeld, WindowIsShown,
          Window, IsShown, Line
    <3> QED BY <2>0, <3>1, <3>2 DEF SearchInv
  <2>2. ASSUME NEW record, Search(record) PROVE SearchInv'
    <3>1. /\ job.command = "grep" /\ number' = number + 1 /\ SearchTyped /\ GrepInv
          /\ pending \in Nat
      BY <2>2 DEF Search, SearchInv, SearchTyped, IsJob
    <3>2. CASE IsHit(record)
      <4>1. hits' = hits \cup {number'} /\ ShowHit(number')
        BY <2>2, <3>2 DEF Search
      <4> QED BY <2>0, <3>1, <4>1, HitKeepsWindow DEF SearchInv
    <3>3. CASE ~IsHit(record)
      <4>1. hits' = hits
        BY <2>2, <3>3 DEF Search
      <4>2. CASE pending > 0
        <5>1. ShowTrailing(number')
          BY <2>2, <3>3, <4>2 DEF Search
        <5> QED BY <2>0, <3>1, <4>1, <4>2, <5>1, TrailingKeepsWindow DEF SearchInv
      <4>3. CASE pending = 0
        <5>1. Remember(number')
          BY <2>2, <3>3, <4>3 DEF Search
        <5> QED BY <2>0, <3>1, <4>1, <4>3, <5>1, RememberKeepsWindow DEF SearchInv
      <4> QED BY <3>1, <4>2, <4>3
    <3> QED BY <3>2, <3>3
  <2>3. CASE job.command = "parse" /\ number' = number + 1 /\ UNCHANGED <<ring, pending, hits>>
    <3>1. job'.command # "grep"
      BY <2>0, <2>3
    <3>2. ring = <<>> /\ hits = {} /\ number' \in Nat
      BY <2>3 DEF SearchInv, SearchTyped
    <3>3. SearchTyped'
      BY <2>0, <2>3, <3>2 DEF SearchInv, SearchTyped
    <3> QED BY <3>1, <3>3 DEF SearchInv
  <2> QED BY <2>1, <2>2, <2>3, SearchStep
<1> QED BY <1>1, <1>2, PTL DEF Spec

(***************************************************************************)
(* grep shows the records that matched with -B before and -A after each,   *)
(* and nothing else, each once, in order and marked if it matched          *)
(* (cmd_grep.go:71-128), for every -A and -B and every number of inputs.   *)
(***************************************************************************)
THEOREM GrepShowsItsWindow == Spec => []GrepShowsTheWindow
<1>1. SearchInv => GrepShowsTheWindow
  <2> SUFFICES ASSUME SearchInv, job.command = "grep"
               PROVE  /\ \A n \in Window : \E k \in DOMAIN shown : shown[k].record = n
                      /\ \A k \in DOMAIN shown :
                           /\ shown[k].record \in Window
                           /\ shown[k].hit <=> shown[k].record \in hits
                           /\ \A j \in 1..(k - 1) : shown[j].record < shown[k].record
    BY DEF GrepShowsTheWindow
  <2>1. DOMAIN shown = 1..Len(shown)
    BY DEF SearchInv, GrepInv, LinesInOrder
  <2>2. \A n \in Window : \E k \in DOMAIN shown : shown[k].record = n
    BY DEF SearchInv, GrepInv, WindowIsShown, IsShown
  <2>3. ASSUME NEW k \in DOMAIN shown
        PROVE  /\ shown[k].record \in Window
               /\ shown[k].hit <=> shown[k].record \in hits
               /\ \A j \in 1..(k - 1) : shown[j].record < shown[k].record
    BY <2>1 DEF SearchInv, GrepInv, WindowIsShown, LinesInOrder
  <2> QED BY <2>2, <2>3
<1> QED BY <1>1, SearchInvHolds, PTL

(***************************************************************************)
(* The counters.  An add gives the group one more, or makes a new group,   *)
(* for which one of the least frequent may have been given up.             *)
(***************************************************************************)
LEMMA ObservedCounter ==
  ASSUME NEW c, IsCounter(c), NEW key \in Keys(c), NEW value \in Nat
  PROVE  LET d == [c EXCEPT !.groups[key] = Observe(@, value)] IN
         /\ IsCounter(d) /\ Keys(d) = Keys(c) /\ d.dropped = c.dropped
         /\ d.groups[key].count = c.groups[key].count + 1
         /\ d.groups[key].worst \in {c.groups[key].worst, value}
         /\ \A k \in Keys(c) \ {key} : d.groups[k] = c.groups[k]
<1> DEFINE d == [c EXCEPT !.groups[key] = Observe(@, value)]
<1>1. /\ c.groups[key] \in Group /\ c.groups \in [Keys(c) -> Group]
      /\ DOMAIN c = {"groups", "dropped"}
  BY DEF IsCounter
<1>2. /\ Observe(c.groups[key], value) \in Group
      /\ Observe(c.groups[key], value).count = c.groups[key].count + 1
      /\ Observe(c.groups[key], value).worst \in {c.groups[key].worst, value}
  BY <1>1 DEF Observe, Group
<1>3. /\ DOMAIN d = {"groups", "dropped"} /\ d.dropped = c.dropped
      /\ d.groups = [c.groups EXCEPT ![key] = Observe(@, value)]
  BY <1>1
<1>4. d.groups \in [Keys(c) -> Group] /\ Keys(d) = Keys(c)
  BY <1>1, <1>2, <1>3 DEF Keys
<1>5. d.groups[key] = Observe(c.groups[key], value)
  BY <1>1, <1>3
<1>6. \A k \in Keys(c) \ {key} : d.groups[k] = c.groups[k]
  BY <1>1, <1>3
<1>7. IsCounter(d)
  BY <1>1, <1>3, <1>4 DEF IsCounter
<1> QED BY <1>2, <1>3, <1>4, <1>5, <1>6, <1>7

LEMMA InsertedCounter ==
  ASSUME NEW c, IsCounter(c), NEW key, NEW value \in Nat
  PROVE  LET d == Inserted(c, key, value) IN
         /\ IsCounter(d) /\ Keys(d) = Keys(c) \cup {key} /\ d.dropped = c.dropped
         /\ d.groups[key].count = 1 /\ d.groups[key].worst = value
         /\ \A k \in Keys(c) \ {key} : d.groups[k] = c.groups[k]
<1> DEFINE d == Inserted(c, key, value)
<1>1. NewGroup(value) \in Group /\ NewGroup(value).count = 1 /\ NewGroup(value).worst = value
  BY DEF NewGroup, Group
<1>2. /\ DOMAIN d = {"groups", "dropped"} /\ d.dropped = c.dropped
      /\ d.groups = [k \in Keys(c) \cup {key} |->
                       IF k = key THEN NewGroup(value) ELSE c.groups[k]]
  BY DEF IsCounter, Inserted
<1>3. Keys(d) = Keys(c) \cup {key} /\ d.groups \in [Keys(d) -> Group]
  BY <1>1, <1>2 DEF IsCounter, Keys
<1>4. IsFiniteSet(Keys(d))
  BY <1>3, FS_AddElement DEF IsCounter
<1> QED BY <1>1, <1>2, <1>3, <1>4 DEF IsCounter

LEMMA EvictedCounter ==
  ASSUME NEW c, IsCounter(c), NEW victim \in Keys(c), victim # NoKey
  PROVE  LET d == Evicted(c, victim) IN
         /\ IsCounter(d) /\ Keys(d) = Keys(c) \ {victim}
         /\ d.dropped = c.dropped + 1
         /\ \A k \in Keys(d) : d.groups[k] = c.groups[k]
<1> DEFINE d == Evicted(c, victim)
<1>1. /\ DOMAIN d = {"groups", "dropped"} /\ d.dropped = c.dropped + 1
      /\ d.groups = [k \in Keys(c) \ {victim} |-> c.groups[k]]
  BY DEF Evicted
<1>2. Keys(d) = Keys(c) \ {victim} /\ d.groups \in [Keys(d) -> Group]
  BY <1>1 DEF IsCounter, Keys
<1>3. IsFiniteSet(Keys(d))
  BY <1>2, FS_RemoveElement DEF IsCounter
<1> QED BY <1>1, <1>2, <1>3 DEF IsCounter

IsBounded(c, limit) == NoKey \notin Keys(c) => Cardinality(Keys(c)) <= limit

\* What an add leaves of a counter c, seen from its groups.
AddedTo(c, d, key, value) ==
  /\ IsCounter(d) /\ key \in Keys(d) /\ Keys(d) \subseteq Keys(c) \cup {key}
  /\ d.dropped = 0 => c.dropped = 0 /\ Keys(d) = Keys(c) \cup {key}
  /\ d.groups[key].count = 1 + (IF key \in Keys(c) THEN c.groups[key].count ELSE 0)
  /\ \/ d.groups[key].worst = value
     \/ key \in Keys(c) /\ d.groups[key].worst = c.groups[key].worst
  /\ \A k \in Keys(d) \ {key} : k \in Keys(c) /\ d.groups[k] = c.groups[k]

LEMMA AddedCounter ==
  ASSUME NEW limit \in Nat \ {0}, NEW c, IsCounter(c), NEW key, NEW value \in Nat,
         NEW d \in Added(c, key, value, limit)
  PROVE  AddedTo(c, d, key, value) /\ (IsBounded(c, limit) => IsBounded(d, limit))
<1>1. IsFiniteSet(Keys(c)) /\ Cardinality(Keys(c)) \in Nat /\ c.dropped \in Nat
  BY FS_CardinalityType DEF IsCounter
<1>2. CASE key \in Keys(c)
  <2>1. d = [c EXCEPT !.groups[key] = Observe(@, value)]
    BY <1>2 DEF Added
  <2>2. /\ IsCounter(d) /\ Keys(d) = Keys(c) /\ d.dropped = c.dropped
        /\ d.groups[key].count = c.groups[key].count + 1
        /\ d.groups[key].worst \in {c.groups[key].worst, value}
        /\ \A k \in Keys(c) \ {key} : d.groups[k] = c.groups[k]
    BY <1>2, <2>1, ObservedCounter, SMTT(30)
  <2>3. c.groups[key].count \in Nat
    BY <1>2 DEF IsCounter, Group
  <2>4. AddedTo(c, d, key, value)
    BY <1>2, <2>2, <2>3 DEF AddedTo
  <2> QED BY <2>2, <2>4 DEF IsBounded
<1>3. ASSUME key \notin Keys(c), d = Inserted(c, key, value)
      PROVE  AddedTo(c, d, key, value)
  <2>1. /\ IsCounter(d) /\ Keys(d) = Keys(c) \cup {key} /\ d.dropped = c.dropped
        /\ d.groups[key].count = 1 /\ d.groups[key].worst = value
        /\ \A k \in Keys(c) \ {key} : d.groups[k] = c.groups[k]
    BY <1>3, InsertedCounter, SMTT(30)
  <2> QED BY <1>3, <2>1 DEF AddedTo
<1>4. CASE key \notin Keys(c) /\ Cardinality(Keys(c)) < limit
  <2>1. d = Inserted(c, key, value)
    BY <1>4 DEF Added
  <2>2. Keys(d) = Keys(c) \cup {key}
    BY <2>1, InsertedCounter, SMTT(30)
  <2>3. Cardinality(Keys(c) \cup {key}) = Cardinality(Keys(c)) + 1
    BY <1>1, <1>4, FS_AddElement
  <2>4. IsBounded(d, limit)
    BY <1>1, <1>4, <2>2, <2>3 DEF IsBounded
  <2> QED BY <1>3, <1>4, <2>1, <2>4
<1>5. CASE key \notin Keys(c) /\ ~(Cardinality(Keys(c)) < limit)
  <2>1. PICK victim \in Smallest(c) : d = Inserted(Evicted(c, victim), key, value)
    BY <1>5 DEF Added
  <2>2. victim \in Keys(c)
    BY DEF Smallest
  <2>3. CASE victim = NoKey
    <3>1. d = Inserted(c, key, value)
      BY <2>1, <2>3 DEF Evicted
    <3>2. Keys(d) = Keys(c) \cup {key}
      BY <3>1, InsertedCounter, SMTT(30)
    <3>3. IsBounded(d, limit)
      BY <2>2, <2>3, <3>2 DEF IsBounded
    <3> QED BY <1>3, <1>5, <3>1, <3>3
  <2>4. CASE victim # NoKey
    <3> DEFINE rest1 == Evicted(c, victim)
    <3>1. /\ IsCounter(rest1) /\ Keys(rest1) = Keys(c) \ {victim}
          /\ rest1.dropped = c.dropped + 1
          /\ \A k \in Keys(rest1) : rest1.groups[k] = c.groups[k]
      BY <2>2, <2>4, EvictedCounter, SMTT(30)
    <3>2. d = Inserted(rest1, key, value)
      BY <2>1
    <3> HIDE DEF rest1
    <3>3. /\ IsCounter(d) /\ Keys(d) = Keys(rest1) \cup {key}
          /\ d.dropped = rest1.dropped
          /\ d.groups[key].count = 1 /\ d.groups[key].worst = value
          /\ \A k \in Keys(rest1) \ {key} : d.groups[k] = rest1.groups[k]
      BY <3>1, <3>2, InsertedCounter, SMTT(30)
    <3>4. d.dropped # 0
      BY <1>1, <3>1, <3>3
    <3>5. AddedTo(c, d, key, value)
      BY <1>5, <3>1, <3>3, <3>4 DEF AddedTo
    <3>6. Cardinality(Keys(c) \ {victim}) = Cardinality(Keys(c)) - 1
      BY <1>1, <2>2, FS_RemoveElement
    <3>7. Cardinality(Keys(d)) = Cardinality(Keys(c))
      <4>1. IsFiniteSet(Keys(c) \ {victim}) /\ key \notin Keys(c) \ {victim}
        BY <1>1, <1>5, FS_RemoveElement
      <4>2. Cardinality((Keys(c) \ {victim}) \cup {key}) = Cardinality(Keys(c) \ {victim}) + 1
        BY <4>1, FS_AddElement
      <4> QED BY <1>1, <3>1, <3>3, <3>6, <4>2
    <3>8. NoKey \notin Keys(d) => NoKey \notin Keys(c)
      BY <2>4, <3>1, <3>3
    <3> QED BY <3>5, <3>7, <3>8 DEF IsBounded
  <2> QED BY <2>3, <2>4
<1> QED BY <1>2, <1>4, <1>5

(***************************************************************************)
(* What a handler makes of a record: it counts things once, the bytes of   *)
(* temporary files excepted, and adds to a counter at most once.           *)
(***************************************************************************)
IsHandling(made) ==
  /\ IsABag(made.counted)
  /\ \A note \in DOMAIN made.counted \ {Bytes} : made.counted[note] = 1
  /\ \A a \in made.keyed : a.counter \in CounterNames /\ a.value \in Nat
  /\ \A a, b \in made.keyed : a.counter = b.counter => a = b

LEMMA NotedIsHandling ==
  ASSUME NEW names, NEW keyed,
         \A a \in keyed : a.counter \in CounterNames /\ a.value \in Nat,
         \A a, b \in keyed : a.counter = b.counter => a = b
  PROVE  IsHandling(Noted(names, keyed))
<1>1. /\ Noted(names, keyed).counted = [e \in {<<n>> : n \in names} |-> 1]
      /\ Noted(names, keyed).keyed = keyed
  BY DEF Noted, SetToBag
<1>2. IsABag([e \in {<<n>> : n \in names} |-> 1])
  BY DEF IsABag
<1> QED BY <1>1, <1>2 DEF IsHandling

LEMMA CountedIsHandling ==
  ASSUME NEW S
  PROVE  IsHandling([counted |-> SetToBag(S), keyed |-> {}])
<1> DEFINE made == [counted |-> SetToBag(S), keyed |-> {}]
<1>1. made.counted = [e \in S |-> 1] /\ made.keyed = {}
  BY DEF SetToBag
<1>2. IsABag([e \in S |-> 1])
  BY DEF IsABag
<1> HIDE DEF made
<1>3. IsHandling(made)
  BY <1>1, <1>2 DEF IsHandling
<1> QED BY <1>3 DEF made

LEMMA OneIsABag ==
  ASSUME NEW e, NEW n \in Nat \ {0}
  PROVE  IsABag([x \in {e} |-> n])
BY DEF IsABag

LEMMA IgnoredIsHandling == IsHandling(Ignored)
<1>1. Ignored.counted = [e \in {} |-> 1] /\ Ignored.keyed = {}
  BY DEF Ignored, EmptyBag, SetToBag
<1> QED BY <1>1 DEF IsHandling, IsABag

LEMMA KeyedFacts ==
  /\ \A name \in CounterNames : \A key : \A value \in Nat :
       \A a \in Keyed(name, key, value) : a.counter = name /\ a.value = value /\ a.key = key
  /\ \A name \in CounterNames : \A key :
       \A a \in IfPresent(name, key) : a.counter = name /\ a.value = 0 /\ a.key = key
BY DEF Keyed, IfPresent

LEMMA BagSum ==
  ASSUME NEW A, NEW B, IsABag(A), IsABag(B)
  PROVE  /\ IsABag(A (+) B) /\ DOMAIN (A (+) B) = DOMAIN A \cup DOMAIN B
         /\ \A e \in DOMAIN A \cup DOMAIN B :
              (A (+) B)[e] = (IF e \in DOMAIN A THEN A[e] ELSE 0)
                             + (IF e \in DOMAIN B THEN B[e] ELSE 0)
BY DEF IsABag, (+)

LEMMA HandlersHandle ==
  ASSUME job.command \in CountingCommands \cup {"system"}, NEW fields
  PROVE  /\ IsHandling(Handled(fields))
         /\ job.command = "system" => Handled(fields).keyed = {}
<1>1. CASE job.command = "stats"
  <2>1. Handled(fields) = OnStats(fields)
    BY <1>1 DEF Handled
  <2>2. IsHandling(OnStats(fields))
    BY NotedIsHandling DEF OnStats
  <2> QED BY <1>1, <2>1, <2>2
<1>2. CASE job.command = "errors"
  <2>1. Handled(fields) = OnErrors(fields)
    BY <1>2 DEF Handled
  <2> DEFINE keyed == Keyed("message", Normalized(fields.message), 0)
                      \cup IfPresent("state", fields.state)
  <2>2. /\ \A a \in keyed : a.counter \in CounterNames /\ a.value \in Nat
        /\ \A a, b \in keyed : a.counter = b.counter => a = b
    BY DEF Keyed, IfPresent, CounterNames
  <2> HIDE DEF keyed
  <2>3. IsHandling(Noted({"total", SeverityName(fields)}, keyed))
    BY <2>2, NotedIsHandling
  <2>4. IsHandling(OnErrors(fields))
    BY <2>3, IgnoredIsHandling DEF OnErrors, keyed
  <2> QED BY <1>2, <2>1, <2>4
<1>3. CASE job.command = "slow"
  <2>1. Handled(fields) = OnSlow(job, fields)
    BY <1>3 DEF Handled
  <2> DEFINE ms == DurationOf(fields)
             key == Normalized(StatementText(fields))
             keyed == Keyed("statement", key, ms) \cup Keyed("slowest", key, ms)
  <2>2. CASE ms \in Nat
    <3> HIDE DEF ms, key
    <3>1. /\ \A a \in keyed : a.counter \in CounterNames /\ a.value \in Nat
          /\ \A a, b \in keyed : a.counter = b.counter => a = b
      BY <2>2 DEF Keyed, CounterNames
    <3> HIDE DEF keyed
    <3>2. IsHandling(Noted({"count"}, keyed))
      BY <3>1, NotedIsHandling
    <3>3. OnSlow(job, fields) = Ignored \/ OnSlow(job, fields) = Noted({"count"}, keyed)
      BY DEF OnSlow, ms, key, keyed
    <3> QED BY <1>3, <2>1, <3>2, <3>3, IgnoredIsHandling
  <2>3. CASE ms \notin Nat
    <3>1. OnSlow(job, fields) = Ignored
      BY <2>3 DEF OnSlow
    <3> QED BY <1>3, <2>1, <3>1, IgnoredIsHandling
  <2> QED BY <2>2, <2>3
<1>4. CASE job.command = "locks"
  <2>1. Handled(fields) = OnLocks(fields)
    BY <1>4 DEF Handled
  <2> DEFINE keyed == IfPresent("database", fields.database)
                      \cup IfPresent("target", LockTarget(fields.message))
                      \cup Keyed("message", Normalized(fields.message), 0)
  <2>2. /\ \A a \in keyed : a.counter \in CounterNames /\ a.value \in Nat
        /\ \A a, b \in keyed : a.counter = b.counter => a = b
    BY DEF Keyed, IfPresent, CounterNames
  <2> HIDE DEF keyed
  <2>3. IsHandling(Noted({Classify(fields)}, keyed))
    BY <2>2, NotedIsHandling
  <2>4. IsHandling(OnLocks(fields))
    BY <2>3, IgnoredIsHandling DEF OnLocks, keyed
  <2> QED BY <1>4, <2>1, <2>4
<1>5. CASE job.command = "connections"
  <2>1. Handled(fields) = OnConnections(fields)
    BY <1>5 DEF Handled
  <2> DEFINE keyed == IfPresent("database", OrAfter(fields.database, fields.message, "database="))
                      \cup IfPresent("user", OrAfter(fields.user, fields.message, "user="))
                      \cup IfPresent("app", fields.app)
                      \cup IfPresent("client", ClientHost(fields.from))
             names == {IF IsError(fields) THEN "failure" ELSE "connection"}
  <2>2. /\ \A a \in keyed : a.counter \in CounterNames /\ a.value \in Nat
        /\ \A a, b \in keyed : a.counter = b.counter => a = b
    BY DEF Keyed, IfPresent, CounterNames
  <2> HIDE DEF keyed, names
  <2>3. IsHandling(Noted(names, keyed)) /\ IsHandling(Noted({"disconnection"}, {}))
    BY <2>2, NotedIsHandling
  <2>4. OnConnections(fields) \in {Ignored, Noted({"disconnection"}, {}), Noted(names, keyed)}
    BY DEF OnConnections, keyed, names
  <2> QED BY <1>5, <2>1, <2>3, <2>4, IgnoredIsHandling
<1>6. CASE job.command = "peaks"
  <2>1. Handled(fields) = OnPeaks(job, fields)
    BY <1>6 DEF Handled
  <2> DEFINE bucket == TimeOf(fields) \div job.bucket
             names == {<<"records", bucket>>}
                      \cup {n \in {<<"problems", bucket>>} : IsProblem(fields)}
                      \cup {n \in {<<"slow", bucket>>} : DurationOf(fields) >= 0}
  <2> HIDE DEF bucket, names
  <2>2. IsHandling([counted |-> SetToBag(names), keyed |-> {}])
    BY CountedIsHandling
  <2>3. \/ OnPeaks(job, fields) = Noted({"undated"}, {})
        \/ OnPeaks(job, fields) = [counted |-> SetToBag(names), keyed |-> {}]
    BY DEF OnPeaks, names, bucket
  <2>4. IsHandling(Noted({"undated"}, {}))
    BY NotedIsHandling
  <2> QED BY <1>6, <2>1, <2>2, <2>3, <2>4
<1>7. CASE job.command = "system"
  <2>1. Handled(fields) = OnSystem(fields)
    BY <1>7 DEF Handled
  <2> DEFINE kind == Classify(fields)
             bytes == TempFileSize(fields.message)
             spill == IF kind = "temp file" /\ bytes \in Nat \ {0}
                      THEN [n \in {Bytes} |-> bytes] ELSE EmptyBag
             made == [counted |-> SetToBag({<<kind>>}) (+) spill, keyed |-> {}]
  <2>2. OnSystem(fields) \in {Ignored, made}
    BY DEF OnSystem, Bytes
  <2> HIDE DEF kind, bytes
  <2>3. /\ IsABag(spill) /\ DOMAIN spill \subseteq {Bytes}
        /\ IsABag(SetToBag({<<kind>>})) /\ SetToBag({<<kind>>}) = [n \in {<<kind>>} |-> 1]
    <3>1. SetToBag({<<kind>>}) = [n \in {<<kind>>} |-> 1]
      BY DEF SetToBag
    <3>2. IsABag([n \in {<<kind>>} |-> 1])
      BY DEF IsABag
    <3>3. CASE kind = "temp file" /\ bytes \in Nat \ {0}
      <4>1. spill = [n \in {Bytes} |-> bytes]
        BY <3>3
      <4>2. IsABag([n \in {Bytes} |-> bytes])
        BY <3>3, OneIsABag
      <4>3. DOMAIN spill = {Bytes} /\ IsABag(spill)
        BY <4>1, <4>2
      <4> HIDE DEF spill
      <4> QED BY <3>1, <3>2, <4>3
    <3>4. CASE ~(kind = "temp file" /\ bytes \in Nat \ {0})
      <4>1. spill = [n \in {} |-> 1]
        BY <3>4 DEF EmptyBag, SetToBag
      <4> QED BY <3>1, <3>2, <4>1 DEF IsABag
    <3> QED BY <3>3, <3>4
  <2> HIDE DEF spill
  <2>4. /\ IsABag(made.counted)
        /\ \A note \in DOMAIN made.counted \ {Bytes} : made.counted[note] = 1
    <3>1. /\ IsABag(SetToBag({<<kind>>}) (+) spill)
          /\ DOMAIN (SetToBag({<<kind>>}) (+) spill) = {<<kind>>} \cup DOMAIN spill
      BY <2>3, BagSum
    <3>2. ASSUME NEW note \in {<<kind>>} \cup DOMAIN spill, note # Bytes
          PROVE  (SetToBag({<<kind>>}) (+) spill)[note] = 1
      <4>1. note = <<kind>> /\ note \notin DOMAIN spill
        BY <2>3, <3>2
      <4>2. SetToBag({<<kind>>})[note] = 1 /\ note \in DOMAIN SetToBag({<<kind>>})
        BY <2>3, <4>1
      <4>3. (SetToBag({<<kind>>}) (+) spill)[note] =
              (IF note \in DOMAIN SetToBag({<<kind>>}) THEN SetToBag({<<kind>>})[note] ELSE 0)
              + (IF note \in DOMAIN spill THEN spill[note] ELSE 0)
        BY <2>3, <4>2, BagSum
      <4> QED BY <4>1, <4>2, <4>3
    <3> QED BY <3>1, <3>2
  <2>5. IsHandling(made) /\ made.keyed = {} /\ Ignored.keyed = {}
    BY <2>4 DEF IsHandling, Ignored
  <2> HIDE DEF made
  <2> QED BY <2>1, <2>2, <2>5, IgnoredIsHandling
<1> QED BY <1>1, <1>2, <1>3, <1>4, <1>5, <1>6, <1>7 DEF CountingCommands, Commands

(***************************************************************************)
(* What one more record adds to what was read.                             *)
(***************************************************************************)
LEMMA SameHandlers ==
  ASSUME job' = job, NEW fields
  PROVE  Handled(fields)' = Handled(fields)
BY DEF Handled

\* A record that is passed over changes nothing.
LEMMA SameRecords ==
  ASSUME job' = job, Read' = Read, \A k \in Read : parsed'[k] = parsed[k]
  PROVE  /\ \A note : Noting(note)' = Noting(note)
         /\ \A name, key : Adding(name, key)' = Adding(name, key)
         /\ \A name, key : ValuesAdded(name, key)' = ValuesAdded(name, key)
<1>1. \A k \in Read : Handled(parsed[k].fields)' = Handled(parsed[k].fields)
  BY SameHandlers
<1>2. \A note : Noting(note)' = Noting(note)
  BY <1>1 DEF Noting
<1>3. \A k \in Read : \A name, key : AddsTo(k, name, key)' = AddsTo(k, name, key)
  BY <1>1 DEF AddsTo
<1>4. \A name, key : Adding(name, key)' = Adding(name, key)
  BY <1>3 DEF Adding
<1>5. \A name, key : ValuesAdded(name, key)' = ValuesAdded(name, key)
  BY <1>3 DEF ValuesAdded
<1> QED BY <1>2, <1>4, <1>5

LEMMA OneMoreRecord ==
  ASSUME job' = job, NEW S, parsed \in Seq(S), NEW p, parsed' = Append(parsed, p),
         NEW n, n = Len(parsed) + 1
  PROVE  /\ Read' = Read \cup {k \in {n} : InRange(job, p.fields)}
         /\ n \notin Read /\ Read \subseteq 1..Len(parsed)
         /\ parsed'[n] = p /\ \A k \in Read : parsed'[k] = parsed[k]
<1>1. /\ DOMAIN parsed = 1..Len(parsed) /\ DOMAIN parsed' = 1..n
      /\ parsed'[n] = p /\ \A k \in 1..Len(parsed) : parsed'[k] = parsed[k]
      /\ n \notin 1..Len(parsed) /\ 1..n = (1..Len(parsed)) \cup {n}
  OBVIOUS
<1>2. Read' = {k \in 1..n : InRange(job, parsed'[k].fields)}
  BY <1>1 DEF Read
<1>3. Read = {k \in 1..Len(parsed) : InRange(job, parsed[k].fields)}
  BY <1>1 DEF Read
<1> QED BY <1>1, <1>2, <1>3

LEMMA OneMoreHandled ==
  ASSUME job' = job, NEW S, parsed \in Seq(S), NEW p, parsed' = Append(parsed, p),
         NEW n, n = Len(parsed) + 1, InRange(job, p.fields),
         NEW made, made = Handled(p.fields)
  PROVE  /\ \A note : Noting(note)' = Noting(note) \cup {k \in {n} : note \in DOMAIN made.counted}
         /\ \A name, key :
              LET own == {a \in made.keyed : a.counter = name /\ a.key = key}
              IN /\ Adding(name, key)' = Adding(name, key) \cup {k \in {n} : own # {}}
                 /\ ValuesAdded(name, key)' = ValuesAdded(name, key) \cup {a.value : a \in own}
<1>1. /\ Read' = Read \cup {n} /\ n \notin Read
      /\ parsed'[n] = p /\ \A k \in Read : parsed'[k] = parsed[k]
  BY OneMoreRecord
<1>2. /\ \A k \in Read : Handled(parsed[k].fields)' = Handled(parsed[k].fields)
      /\ Handled(parsed'[n].fields) = made
  BY <1>1, SameHandlers
<1>3. \A fields : Handled(fields)' = Handled(fields)
  BY SameHandlers
<1>4. \A note : Noting(note)' = Noting(note) \cup {k \in {n} : note \in DOMAIN made.counted}
  <2>1. \A note : Noting(note)' =
          {k \in Read' : note \in DOMAIN Handled(parsed'[k].fields).counted}
    BY <1>3 DEF Noting, BagIn, BagToSet
  <2>2. \A note : Noting(note) = {k \in Read : note \in DOMAIN Handled(parsed[k].fields).counted}
    BY DEF Noting, BagIn, BagToSet
  <2> QED BY <1>1, <1>2, <2>1, <2>2
<1>5. \A k, name, key : AddsTo(k, name, key)' =
        {a \in Handled(parsed'[k].fields).keyed : a.counter = name /\ a.key = key}
  BY <1>3 DEF AddsTo
<1>6. \A k \in Read : \A name, key : AddsTo(k, name, key)' = AddsTo(k, name, key)
  BY <1>2 DEF AddsTo
<1>7. \A name, key : AddsTo(n, name, key)' = {a \in made.keyed : a.counter = name /\ a.key = key}
  BY <1>2, <1>5
<1>8. \A name, key : Adding(name, key)' =
        Adding(name, key) \cup {k \in {n} : {a \in made.keyed : a.counter = name /\ a.key = key} # {}}
  <2> SUFFICES ASSUME NEW name, NEW key
               PROVE  Adding(name, key)' = Adding(name, key) \cup
                        {k \in {n} : {a \in made.keyed : a.counter = name /\ a.key = key} # {}}
    OBVIOUS
  <2>1. Adding(name, key)' = {k \in Read' : AddsTo(k, name, key)' # {}}
    BY DEF Adding
  <2>2. Adding(name, key) = {k \in Read : AddsTo(k, name, key) # {}}
    BY DEF Adding
  <2>3. /\ \A k \in Read : AddsTo(k, name, key)' = AddsTo(k, name, key)
        /\ AddsTo(n, name, key)' = {a \in made.keyed : a.counter = name /\ a.key = key}
    BY <1>6, <1>7
  <2>4. Read' = Read \cup {n}
    BY <1>1
  <2> QED BY <2>1, <2>2, <2>3, <2>4
<1>9. \A name, key : ValuesAdded(name, key)' =
        ValuesAdded(name, key) \cup
          {a.value : a \in {b \in made.keyed : b.counter = name /\ b.key = key}}
  <2> SUFFICES ASSUME NEW name, NEW key
               PROVE  ValuesAdded(name, key)' = ValuesAdded(name, key) \cup
                        {a.value : a \in {b \in made.keyed : b.counter = name /\ b.key = key}}
    OBVIOUS
  <2> DEFINE own == {b \in made.keyed : b.counter = name /\ b.key = key}
             before == UNION {AddsTo(k, name, key) : k \in Read}
             after == UNION {AddsTo(k, name, key)' : k \in Read'}
  <2>1. after = before \cup own
    BY <1>1, <1>6, <1>7
  <2>2. ValuesAdded(name, key) = {a.value : a \in before}
    BY DEF ValuesAdded
  <2>3. ValuesAdded(name, key)' = {a.value : a \in after}
    BY DEF ValuesAdded
  <2> HIDE DEF own, before, after
  <2>4. ValuesAdded(name, key)' = ValuesAdded(name, key) \cup {a.value : a \in own}
    BY <2>1, <2>2, <2>3
  <2> QED BY <2>4 DEF own
<1> QED BY <1>4, <1>8, <1>9

(***************************************************************************)
(* The tally: what a counting command has counted, and that it is what the *)
(* records that were read make of it.                                      *)
(***************************************************************************)
Tallying == job.command \in CountingCommands \cup {"system"}

TallyTyped ==
  /\ IsJob(job)
  /\ \E S : parsed \in Seq(S)
  /\ IsABag(counts)
  /\ \A name \in CounterNames : IsCounter(counters[name])
                                /\ IsBounded(counters[name], Limit(job.top))
  /\ \E S : events \in Seq(S)
  /\ Len(events) <= Limit(job.top)

\* Whatever is counted of a record is a total, of as many records.
TotalsAreExact ==
  /\ \A note \in DOMAIN counts \ {Bytes} : counts[note] = Cardinality(Noting(note))
  /\ \A k \in Read : DOMAIN Handled(parsed[k].fields).counted \subseteq DOMAIN counts

\* A counter c knows of each key no more than the records add to it, and all of
\* them if it gave up none.
IsHonest(c, name) ==
  /\ c.dropped = 0 => \A key : Adding(name, key) # {} => key \in Keys(c)
  /\ \A key \in Keys(c) :
       /\ c.groups[key].count <= Cardinality(Adding(name, key))
       /\ c.dropped = 0 => c.groups[key].count = Cardinality(Adding(name, key))
       /\ c.groups[key].worst \in ValuesAdded(name, key)

TallyInv ==
  /\ TallyTyped
  /\ Tallying => /\ TotalsAreExact
                 /\ \A name \in CounterNames : IsHonest(counters[name], name)

LEMMA ReadIsFinite ==
  ASSUME NEW S, parsed \in Seq(S)
  PROVE  /\ IsFiniteSet(Read)
         /\ \A note : IsFiniteSet(Noting(note)) /\ Noting(note) \subseteq Read
         /\ \A name, key : IsFiniteSet(Adding(name, key)) /\ Adding(name, key) \subseteq Read
<1>1. Len(parsed) \in Nat /\ Read \subseteq 1..Len(parsed)
  BY DEF Read
<1>2. IsFiniteSet(Read)
  BY <1>1, CardinalityUpTo, FS_Subset
<1>3. \A note : Noting(note) \subseteq Read
  BY DEF Noting
<1>4. \A name, key : Adding(name, key) \subseteq Read
  BY DEF Adding
<1> QED BY <1>2, <1>3, <1>4, FS_Subset

LEMMA TotalsStayExact ==
  ASSUME TallyTyped, TotalsAreExact, job' = job, NEW S, parsed \in Seq(S), NEW p,
         parsed' = Append(parsed, p), InRange(job, p.fields),
         NEW made, made = Handled(p.fields), IsHandling(made),
         counts' = counts (+) made.counted
  PROVE  IsABag(counts') /\ TotalsAreExact'
<1> DEFINE n == Len(parsed) + 1
<1>1. IsABag(counts) /\ IsABag(made.counted)
  BY DEF TallyTyped, IsHandling
<1>2. /\ IsABag(counts') /\ DOMAIN counts' = DOMAIN counts \cup DOMAIN made.counted
      /\ \A note \in DOMAIN counts \cup DOMAIN made.counted :
           counts'[note] = (IF note \in DOMAIN counts THEN counts[note] ELSE 0)
                           + (IF note \in DOMAIN made.counted THEN made.counted[note] ELSE 0)
  BY <1>1, BagSum
<1>3. /\ Read' = Read \cup {n} /\ n \notin Read
      /\ parsed'[n] = p /\ \A k \in Read : parsed'[k] = parsed[k]
  BY OneMoreRecord
<1>4. \A note : Noting(note)' = Noting(note) \cup {k \in {n} : note \in DOMAIN made.counted}
  BY OneMoreHandled
<1>5. \A note : IsFiniteSet(Noting(note)) /\ Noting(note) \subseteq Read
                /\ Cardinality(Noting(note)) \in Nat
  BY ReadIsFinite, FS_CardinalityType
<1> HIDE DEF n
<1>6. ASSUME NEW note \in DOMAIN counts' \ {Bytes}
      PROVE  counts'[note] = Cardinality(Noting(note)')
  <2>1. CASE note \notin DOMAIN made.counted
    <3>1. Noting(note)' = Noting(note)
      BY <1>4, <2>1
    <3>2. note \in DOMAIN counts /\ counts[note] \in Nat
      BY <1>1, <1>2, <2>1 DEF IsABag
    <3> QED BY <1>2, <1>6, <2>1, <3>1, <3>2 DEF TotalsAreExact
  <2>2. CASE note \in DOMAIN made.counted
    <3>1. made.counted[note] = 1
      BY <1>6, <2>2 DEF IsHandling
    <3>2. Noting(note)' = Noting(note) \cup {n} /\ n \notin Noting(note)
      BY <1>3, <1>4, <1>5, <2>2
    <3>3. Cardinality(Noting(note)') = Cardinality(Noting(note)) + 1
      BY <1>5, <3>2, FS_AddElement
    <3>4. CASE note \in DOMAIN counts
      BY <1>2, <1>5, <1>6, <2>2, <3>1, <3>3, <3>4 DEF TotalsAreExact
    <3>5. CASE note \notin DOMAIN counts
      <4>1. Noting(note) = {}
        BY <3>5 DEF TotalsAreExact, Noting, BagIn, BagToSet
      <4> QED BY <1>2, <2>2, <3>1, <3>3, <3>5, <4>1, FS_EmptySet
    <3> QED BY <3>4, <3>5
  <2> QED BY <2>1, <2>2
<1>7. ASSUME NEW k \in Read'
      PROVE  DOMAIN Handled(parsed'[k].fields).counted \subseteq DOMAIN counts'
  <2>1. CASE k \in Read
    <3>1. DOMAIN Handled(parsed[k].fields).counted \subseteq DOMAIN counts
      BY <2>1 DEF TotalsAreExact
    <3> QED BY <1>2, <1>3, <2>1, <3>1
  <2>2. CASE k = n
    BY <1>2, <1>3, <2>2
  <2> QED BY <1>3, <2>1, <2>2
<1>8. \A fields : Handled(fields)' = Handled(fields)
  BY SameHandlers
<1>9. TotalsAreExact'
  BY <1>6, <1>7, <1>8 DEF TotalsAreExact
<1> QED BY <1>2, <1>9

LEMMA CounterStaysHonest ==
  ASSUME NEW S, parsed \in Seq(S), job' = job, NEW p,
         parsed' = Append(parsed, p), InRange(job, p.fields),
         NEW made, made = Handled(p.fields), IsHandling(made),
         NEW name, NEW c, NEW d, IsCounter(c), IsHonest(c, name),
         \/ d = c /\ \A a \in made.keyed : a.counter # name
         \/ \E a \in made.keyed : a.counter = name /\ AddedTo(c, d, a.key, a.value)
  PROVE  IsHonest(d, name)'
<1> DEFINE n == Len(parsed) + 1
           Own(key) == {a \in made.keyed : a.counter = name /\ a.key = key}
<1>1. n \notin Read
  BY OneMoreRecord
<1>2. \A key : /\ Adding(name, key)' = Adding(name, key) \cup {k \in {n} : Own(key) # {}}
               /\ ValuesAdded(name, key)' = ValuesAdded(name, key) \cup {a.value : a \in Own(key)}
  BY OneMoreHandled
<1>3. \A key : IsFiniteSet(Adding(name, key)) /\ n \notin Adding(name, key)
               /\ Cardinality(Adding(name, key)) \in Nat
  BY <1>1, ReadIsFinite, FS_CardinalityType
<1> HIDE DEF n
<1>4. CASE d = c /\ \A a \in made.keyed : a.counter # name
  <2>1. \A key : Own(key) = {}
    BY <1>4
  <2> HIDE DEF Own
  <2>2. \A key : Adding(name, key)' = Adding(name, key)
                 /\ ValuesAdded(name, key)' = ValuesAdded(name, key)
    BY <1>2, <2>1
  <2> QED BY <1>4, <2>2 DEF IsHonest
<1>5. ASSUME NEW a \in made.keyed, a.counter = name, AddedTo(c, d, a.key, a.value)
      PROVE  IsHonest(d, name)'
  <2> DEFINE own == a.key
  <2>1. /\ IsCounter(d) /\ own \in Keys(d) /\ Keys(d) \subseteq Keys(c) \cup {own}
        /\ d.dropped = 0 => c.dropped = 0 /\ Keys(d) = Keys(c) \cup {own}
        /\ d.groups[own].count = 1 + (IF own \in Keys(c) THEN c.groups[own].count ELSE 0)
        /\ \/ d.groups[own].worst = a.value
           \/ own \in Keys(c) /\ d.groups[own].worst = c.groups[own].worst
        /\ \A k \in Keys(d) \ {own} : k \in Keys(c) /\ d.groups[k] = c.groups[k]
    BY <1>5 DEF AddedTo
  <2>2. Own(own) = {a} /\ \A key : key # own => Own(key) = {}
    BY <1>5 DEF IsHandling
  <2> HIDE DEF Own
  <2>3. /\ Adding(name, own)' = Adding(name, own) \cup {n}
        /\ ValuesAdded(name, own)' = ValuesAdded(name, own) \cup {a.value}
        /\ \A key : key # own => /\ Adding(name, key)' = Adding(name, key)
                                 /\ ValuesAdded(name, key)' = ValuesAdded(name, key)
    <3>1. {k \in {n} : Own(own) # {}} = {n} /\ {b.value : b \in Own(own)} = {a.value}
      BY <2>2
    <3>2. ASSUME NEW key, key # own
          PROVE  {k \in {n} : Own(key) # {}} = {} /\ {b.value : b \in Own(key)} = {}
      BY <2>2, <3>2
    <3> HIDE DEF own
    <3>3. /\ Adding(name, own)' = Adding(name, own) \cup {n}
          /\ ValuesAdded(name, own)' = ValuesAdded(name, own) \cup {a.value}
      BY <1>2, <3>1
    <3>4. ASSUME NEW key, key # own
          PROVE  Adding(name, key)' = Adding(name, key)
                 /\ ValuesAdded(name, key)' = ValuesAdded(name, key)
      <4>1. Adding(name, key)' = Adding(name, key) \cup {}
        BY <1>2, <3>2, <3>4
      <4>2. ValuesAdded(name, key)' = ValuesAdded(name, key) \cup {}
        BY <1>2, <3>2, <3>4
      <4> QED BY <4>1, <4>2
    <3> QED BY <3>3, <3>4
  <2>4. Cardinality(Adding(name, own)') = Cardinality(Adding(name, own)) + 1
    BY <1>3, <2>3, FS_AddElement
  <2> HIDE DEF own
  <2>5. \A key \in Keys(c) : /\ c.groups[key].count \in Nat
                             /\ c.groups[key].count <= Cardinality(Adding(name, key))
                             /\ c.dropped = 0 => c.groups[key].count = Cardinality(Adding(name, key))
                             /\ c.groups[key].worst \in ValuesAdded(name, key)
    BY DEF IsHonest, IsCounter, Group
  <2>6. c.dropped = 0 => \A key : Adding(name, key) # {} => key \in Keys(c)
    BY DEF IsHonest
  <2>7. ASSUME d.dropped = 0, NEW key, Adding(name, key)' # {} PROVE key \in Keys(d)
    BY <2>1, <2>3, <2>6, <2>7
  <2>8. ASSUME NEW key \in Keys(d)
        PROVE  /\ d.groups[key].count <= Cardinality(Adding(name, key)')
               /\ d.dropped = 0 => d.groups[key].count = Cardinality(Adding(name, key)')
               /\ d.groups[key].worst \in ValuesAdded(name, key)'
    <3>1. CASE key # own
      BY <2>1, <2>3, <2>5, <3>1
    <3>2. CASE key = own /\ own \in Keys(c)
      <4>1. d.groups[own].count = 1 + c.groups[own].count
            /\ d.groups[own].worst \in {a.value, c.groups[own].worst}
        BY <2>1, <3>2
      <4>2. /\ c.groups[own].count \in Nat
            /\ c.groups[own].count <= Cardinality(Adding(name, own))
            /\ c.dropped = 0 => c.groups[own].count = Cardinality(Adding(name, own))
            /\ c.groups[own].worst \in ValuesAdded(name, own)
        BY <2>5, <3>2
      <4>3. Cardinality(Adding(name, own)) \in Nat /\ (d.dropped = 0 => c.dropped = 0)
        BY <1>3, <2>1
      <4>4. d.groups[own].worst \in ValuesAdded(name, own)'
        BY <2>3, <4>1, <4>2
      <4>5. /\ d.groups[own].count <= Cardinality(Adding(name, own)')
            /\ d.dropped = 0 => d.groups[own].count = Cardinality(Adding(name, own)')
        BY <2>4, <4>1, <4>2, <4>3
      <4> QED BY <3>2, <4>4, <4>5
    <3>3. CASE key = own /\ own \notin Keys(c)
      <4>1. d.groups[own].count = 1 /\ d.groups[own].worst = a.value
        BY <2>1, <3>3
      <4>2. d.dropped = 0 => Adding(name, own) = {}
        BY <2>1, <2>6, <3>3
      <4>3. d.dropped = 0 => Cardinality(Adding(name, own)) = 0
        BY <4>2, FS_EmptySet
      <4>4. d.groups[own].worst \in ValuesAdded(name, own)'
        BY <2>3, <4>1
      <4>5. Cardinality(Adding(name, own)) \in Nat
        BY <1>3
      <4>6. /\ d.groups[own].count <= Cardinality(Adding(name, own)')
            /\ d.dropped = 0 => d.groups[own].count = Cardinality(Adding(name, own)')
        BY <2>4, <4>1, <4>3, <4>5
      <4> QED BY <3>3, <4>4, <4>6
    <3> QED BY <3>1, <3>2, <3>3
  <2> QED BY <2>7, <2>8 DEF IsHonest
<1> QED BY <1>4, <1>5

\* What the additions leave of one counter.
LEMMA AddedOnce ==
  ASSUME NEW made, IsHandling(made), counters' \in AfterAdding(made.keyed),
         NEW name \in CounterNames
  PROVE  \/ counters'[name] = counters[name] /\ \A a \in made.keyed : a.counter # name
         \/ \E a \in made.keyed :
              /\ a.counter = name
              /\ counters'[name] \in Added(counters[name], a.key, a.value, Limit(job.top))
<1> DEFINE May(k) == Added(counters[k.counter], k.key, k.value, Limit(job.top))
           For(x) == {k \in made.keyed : k.counter = x}
<1>1. PICK left \in {f \in [made.keyed -> UNION {May(k) : k \in made.keyed}] :
                       \A k \in made.keyed : f[k] \in May(k)} :
        counters' = [x \in CounterNames |-> IF For(x) = {} THEN counters[x]
                                           ELSE left[CHOOSE k \in For(x) : TRUE]]
  BY DEF AfterAdding
<1>2. CASE For(name) = {}
  BY <1>1, <1>2
<1>3. CASE For(name) # {}
  <2>1. PICK a \in made.keyed : a.counter = name
    BY <1>3
  <2>2. For(name) = {a}
    BY <2>1 DEF IsHandling
  <2>3. (CHOOSE k \in For(name) : TRUE) = a
    BY <2>2
  <2>4. left[a] \in May(a)
    BY <1>1
  <2>5. counters'[name] = left[CHOOSE k \in For(name) : TRUE]
    BY <1>1, <1>3
  <2> HIDE DEF For
  <2>6. counters'[name] \in May(a)
    BY <2>3, <2>4, <2>5
  <2> QED BY <2>1, <2>6
<1> QED BY <1>2, <1>3

LEMMA LimitIsPositive ==
  ASSUME IsJob(job)
  PROVE  Limit(job.top) \in Nat \ {0}
BY TopKAssumption DEF IsJob, Limit

\* A record in range keeps the tally of a counting command.
LEMMA CountedKeepsTally ==
  ASSUME TallyInv, Tallying, job' = job, NEW p, parsed' = Append(parsed, p),
         InRange(job, p.fields), Count(p.fields) \/ Keep(p.fields)
  PROVE  TallyInv'
<1> DEFINE made == Handled(p.fields)
<1>1. IsHandling(made) /\ (job.command = "system" => made.keyed = {})
  BY HandlersHandle DEF Tallying
<1> HIDE DEF made
<1>2. PICK S : parsed \in Seq(S)
  BY DEF TallyInv, TallyTyped
<1>3. parsed' \in Seq(S \cup {p})
  BY <1>2
<1>4. Limit(job.top) \in Nat \ {0} /\ IsJob(job)
  BY LimitIsPositive DEF TallyInv, TallyTyped
<1>5. counts' = counts (+) made.counted
  BY DEF Count, Keep, made
<1>6. IsABag(counts') /\ TotalsAreExact'
  BY <1>1, <1>2, <1>5, TotalsStayExact DEF TallyInv, made
<1>7. ASSUME NEW name \in CounterNames
      PROVE  \/ counters'[name] = counters[name] /\ \A a \in made.keyed : a.counter # name
             \/ \E a \in made.keyed :
                  /\ a.counter = name
                  /\ counters'[name] \in Added(counters[name], a.key, a.value, Limit(job.top))
  <2>1. CASE Count(p.fields)
    <3>1. counters' \in AfterAdding(made.keyed)
      BY <2>1 DEF Count, made
    <3> QED BY <1>1, <3>1, AddedOnce
  <2>2. CASE Keep(p.fields)
    <3>1. made.keyed = {} /\ counters' = counters
      BY <1>1, <2>2 DEF Keep
    <3> QED BY <3>1
  <2> QED BY <2>1, <2>2
<1>8. ASSUME NEW name \in CounterNames
      PROVE  /\ IsCounter(counters'[name]) /\ IsBounded(counters'[name], Limit(job.top))
             /\ IsHonest(counters[name], name)'
  <2>1. /\ IsCounter(counters[name]) /\ IsBounded(counters[name], Limit(job.top))
        /\ IsHonest(counters[name], name)
    BY DEF TallyInv, TallyTyped
  <2>2. /\ IsCounter(counters'[name]) /\ IsBounded(counters'[name], Limit(job.top))
        /\ \/ counters'[name] = counters[name] /\ \A a \in made.keyed : a.counter # name
           \/ \E a \in made.keyed :
                a.counter = name /\ AddedTo(counters[name], counters'[name], a.key, a.value)
    <3>1. CASE counters'[name] = counters[name] /\ \A a \in made.keyed : a.counter # name
      BY <2>1, <3>1
    <3>2. ASSUME NEW a \in made.keyed, a.counter = name,
                 counters'[name] \in Added(counters[name], a.key, a.value, Limit(job.top))
          PROVE  /\ IsBounded(counters'[name], Limit(job.top))
                 /\ AddedTo(counters[name], counters'[name], a.key, a.value)
      <4>1. a.value \in Nat
        BY <1>1 DEF IsHandling
      <4> QED BY <1>4, <2>1, <3>2, <4>1, AddedCounter
    <3>3. ASSUME NEW a \in made.keyed, AddedTo(counters[name], counters'[name], a.key, a.value)
          PROVE  IsCounter(counters'[name])
      BY <3>3 DEF AddedTo
    <3> QED BY <1>7, <3>1, <3>2, <3>3
  <2>3. PICK c, d : c = counters[name] /\ d = counters'[name]
    OBVIOUS
  <2>4. IsHonest(d, name)'
    BY <1>1, <1>2, <2>1, <2>2, <2>3, CounterStaysHonest DEF made
  <2> QED BY <2>2, <2>3, <2>4 DEF IsHonest
<1>9. (\E T : events' \in Seq(T)) /\ Len(events') <= Limit(job.top)
  <2>1. PICK T : events \in Seq(T)
    BY DEF TallyInv, TallyTyped
  <2>2. Len(events) <= Limit(job.top) /\ Len(events) \in Nat
    BY <2>1 DEF TallyInv, TallyTyped
  <2>3. \/ events' = events
        \/ events' = Append(events, p.fields) /\ Len(events) < Limit(job.top)
    BY DEF Count, Keep
  <2>4. CASE events' = events
    BY <2>1, <2>2, <2>4
  <2>5. CASE events' = Append(events, p.fields) /\ Len(events) < Limit(job.top)
    <3>1. events' \in Seq(T \cup {p.fields}) /\ Len(events') = Len(events) + 1
      BY <2>1, <2>5
    <3> QED BY <1>4, <2>2, <2>5, <3>1
  <2> QED BY <2>3, <2>4, <2>5
<1>10. TallyTyped'
  BY <1>3, <1>4, <1>6, <1>8, <1>9 DEF TallyTyped
<1> QED BY <1>6, <1>8, <1>10 DEF TallyInv

\* What nothing was counted of keeps the tally.
LEMMA SameTally ==
  ASSUME TallyInv, job' = job, UNCHANGED <<counts, counters>>,
         \E S : parsed' \in Seq(S),
         (\E S : events' \in Seq(S)) /\ Len(events') <= Limit(job.top),
         Tallying => Read' = Read /\ \A k \in Read : parsed'[k] = parsed[k]
  PROVE  TallyInv'
<1>1. TallyTyped'
  BY DEF TallyInv, TallyTyped
<1>2. ASSUME Tallying
      PROVE  TotalsAreExact' /\ \A name \in CounterNames : IsHonest(counters[name], name)'
  <2>1. /\ Read' = Read /\ \A k \in Read : parsed'[k] = parsed[k]
        /\ \A note : Noting(note)' = Noting(note)
    BY <1>2, SameRecords
  <2>2. \A name, key : Adding(name, key)' = Adding(name, key)
    BY <1>2, SameRecords
  <2>3. \A name, key : ValuesAdded(name, key)' = ValuesAdded(name, key)
    BY <1>2, SameRecords
  <2>4. \A fields : Handled(fields)' = Handled(fields)
    BY SameHandlers
  <2>5. TotalsAreExact'
    BY <1>2, <2>1, <2>4 DEF TallyInv, TotalsAreExact
  <2>6. \A name \in CounterNames : IsHonest(counters[name], name)'
    BY <1>2, <2>2, <2>3 DEF TallyInv, IsHonest
  <2> QED BY <2>5, <2>6
<1>3. Tallying' <=> Tallying
  BY DEF Tallying
<1> QED BY <1>1, <1>2, <1>3 DEF TallyInv

LEMMA RecordKeepsTally ==
  ASSUME TallyInv, job' = job, ReadRecord
  PROVE  TallyInv'
<1>0. (\E S : events \in Seq(S)) /\ Len(events) <= Limit(job.top)
  BY DEF TallyInv, TallyTyped
<1>1. PICK S : parsed \in Seq(S)
  BY DEF TallyInv, TallyTyped
<1>2. \/ UNCHANGED <<tally, parsed>>
      \/ \E p, record :
           /\ parsed' = Append(parsed, p)
           /\ \/ InRange(job, p.fields) /\ Handle(p.fields, record)
              \/ ~InRange(job, p.fields) /\ UNCHANGED tally
  <2>1. ASSUME NEW end, NEW read,
               \/ UNCHANGED <<tally, parsed>>
               \/ /\ parsed' = Append(parsed, [input |-> opened, fields |-> read.fields])
                  /\ \/ /\ InRange(job, read.fields)
                        /\ Handle(read.fields, SubSeq(rest, 1, end - 1))
                     \/ ~InRange(job, read.fields) /\ UNCHANGED tally
        PROVE  \/ UNCHANGED <<tally, parsed>>
               \/ \E p, record :
                    /\ parsed' = Append(parsed, p)
                    /\ \/ InRange(job, p.fields) /\ Handle(p.fields, record)
                       \/ ~InRange(job, p.fields) /\ UNCHANGED tally
    <3> DEFINE q == [input |-> opened, fields |-> read.fields]
    <3>1. q.fields = read.fields
      OBVIOUS
    <3> HIDE DEF q
    <3> QED BY <2>1, <3>1 DEF q
  <2> QED BY <2>1 DEF ReadRecord
<1>3. CASE UNCHANGED <<tally, parsed>>
  <2>1. Read' = Read /\ UNCHANGED tally
    BY <1>3 DEF Read
  <2>2. parsed' \in Seq(S)
    BY <1>1, <1>3
  <2> QED BY <1>0, <1>3, <2>1, <2>2, SameTally DEF tally
<1>4. ASSUME NEW p, NEW record, parsed' = Append(parsed, p),
             \/ InRange(job, p.fields) /\ Handle(p.fields, record)
             \/ ~InRange(job, p.fields) /\ UNCHANGED tally
      PROVE  TallyInv'
  <2>1. parsed' \in Seq(S \cup {p})
    BY <1>1, <1>4
  <2>2. CASE ~InRange(job, p.fields) /\ UNCHANGED tally
    <3>1. Read' = Read /\ \A k \in Read : parsed'[k] = parsed[k]
      BY <1>1, <1>4, <2>2, OneMoreRecord
    <3> QED BY <1>0, <2>1, <2>2, <3>1, SameTally DEF tally
  <2>3. CASE InRange(job, p.fields) /\ (Count(p.fields) \/ Keep(p.fields))
    <3>1. Tallying
      BY <2>3 DEF Count, Keep, Tallying
    <3> QED BY <1>4, <2>3, <3>1, CountedKeepsTally
  <2>4. CASE Write \/ Search(record)
    <3>1. UNCHANGED tally /\ ~Tallying
      BY <2>4 DEF Write, Search, Tallying, CountingCommands
    <3> QED BY <1>0, <2>1, <3>1, SameTally DEF tally
  <2> QED BY <1>4, <2>2, <2>3, <2>4 DEF Handle
<1> QED BY <1>2, <1>3, <1>4

LEMMA MinOfTwo ==
  ASSUME NEW a \in Nat, NEW b \in Nat
  PROVE  Min({a, b}) \in {a, b} /\ Min({a, b}) <= a
<1>1. \E x \in {a, b} : \A y \in {a, b} : x <= y
  <2>1. CASE a <= b
    BY <2>1
  <2>2. CASE ~(a <= b)
    BY <2>2
  <2> QED BY <2>1, <2>2
<1> QED BY <1>1 DEF Min

LEMMA TallyInvHolds == Spec => []TallyInv
<1>1. Init => TallyInv
  <2> SUFFICES ASSUME Init PROVE TallyInv
    OBVIOUS
  <2>1. IsJob(job)
    BY JobsAssumption DEF Init
  <2>2. Limit(job.top) \in Nat
    BY <2>1, LimitIsPositive
  <2>3. parsed = <<>> /\ events = <<>> /\ counts = [e \in {} |-> 1]
        /\ counters = [name \in CounterNames |-> NewCounter]
    BY DEF Init, EmptyBag, SetToBag
  <2>4. Keys(NewCounter) = {} /\ IsCounter(NewCounter) /\ Cardinality(Keys(NewCounter)) = 0
    BY FS_EmptySet DEF NewCounter, Keys, IsCounter
  <2>5. parsed \in Seq({}) /\ events \in Seq({}) /\ Len(events) = 0
    BY <2>3
  <2>6. IsABag(counts)
    BY <2>3 DEF IsABag
  <2>7. TallyTyped
    <3>1. \A name \in CounterNames : IsCounter(counters[name])
                                     /\ IsBounded(counters[name], Limit(job.top))
      BY <2>2, <2>3, <2>4 DEF IsBounded
    <3>2. (\E S : parsed \in Seq(S)) /\ (\E S : events \in Seq(S))
      BY <2>5
    <3>3. Len(events) <= Limit(job.top)
      BY <2>2, <2>5
    <3> QED BY <2>1, <2>6, <3>1, <3>2, <3>3 DEF TallyTyped
  <2>8. Read = {}
    BY <2>3 DEF Read
  <2>9. TotalsAreExact
    BY <2>3, <2>8 DEF TotalsAreExact
  <2>10. \A name, key : Adding(name, key) = {}
    BY <2>8 DEF Adding
  <2>11. \A name \in CounterNames : IsHonest(counters[name], name)
    BY <2>3, <2>4, <2>10 DEF IsHonest
  <2> QED BY <2>7, <2>9, <2>11 DEF TallyInv
<1>2. TallyInv /\ [Next]_vars => TallyInv'
  <2> SUFFICES ASSUME TallyInv, [Next]_vars PROVE TallyInv'
    OBVIOUS
  <2>0. job' = job
    BY JobIsFixed
  <2>1. CASE ReadRecord
    BY <2>0, <2>1, RecordKeepsTally
  <2>2. CASE Report
    <3>1. /\ UNCHANGED <<counts, counters, parsed>>
          /\ events' = SubSeq(events, 1, Min({Len(events), job.top}))
      BY <2>2 DEF Report, history
    <3>2. PICK T : events \in Seq(T)
      BY DEF TallyInv, TallyTyped
    <3>3. Len(events) \in Nat /\ Len(events) <= Limit(job.top) /\ job.top \in Nat
          /\ Limit(job.top) \in Nat
      BY <3>2, LimitIsPositive DEF TallyInv, TallyTyped, IsJob
    <3>4. PICK m \in 0..Len(events) : m = Min({Len(events), job.top})
      BY <3>3, MinOfTwo
    <3>5. events' \in Seq(T) /\ Len(events') = m
      <4>1. events' = SubSeq(events, 1, m)
        BY <3>1, <3>4
      <4>2. m \in Int /\ 0 <= m /\ m <= Len(events)
        BY <3>3
      <4>3. SubSeq(events, 1, m) \in Seq(T) /\ Len(SubSeq(events, 1, m)) = m
        BY <3>2, <4>2
      <4> QED BY <4>1, <4>3
    <3>6. Len(events') <= Limit(job.top)
      BY <3>3, <3>4, <3>5
    <3>7. Read' = Read /\ \A k \in Read : parsed'[k] = parsed[k]
      BY <2>0, <3>1 DEF Read
    <3>8. \E S : parsed' \in Seq(S)
      BY <3>1 DEF TallyInv, TallyTyped
    <3> QED BY <2>0, <3>1, <3>5, <3>6, <3>7, <3>8, SameTally
  <2>3. CASE UNCHANGED <<tally, parsed>>
    <3>1. Read' = Read /\ UNCHANGED tally
      BY <2>0, <2>3 DEF Read
    <3>2. \E S : parsed' \in Seq(S)
      BY <2>3 DEF TallyInv, TallyTyped
    <3>3. (\E S : events' \in Seq(S)) /\ Len(events') <= Limit(job.top)
      BY <3>1 DEF TallyInv, TallyTyped, tally
    <3> QED BY <2>0, <2>3, <3>1, <3>2, <3>3, SameTally DEF tally
  <2>4. ReadRecord \/ Report \/ UNCHANGED <<tally, parsed>>
    BY DEF Next, vars, NoInputMatched, OpenNext, SkipBlank, EndOfInput, history
  <2> QED BY <2>1, <2>2, <2>3, <2>4
<1> QED BY <1>1, <1>2, PTL DEF Spec

(***************************************************************************)
(* Every report counts what was read (PERF-028; topk.go:1-122 and the      *)
(* handlers of cmd_*.go): its totals are exact, a counter that gave up no  *)
(* group is exact, and one that did never counts more than there was, nor a*)
(* value that was not.                                                     *)
(***************************************************************************)
THEOREM ReportsAreHonest == Spec => []CountsAreHonest
<1>1. TallyInv => CountsAreHonest
  <2> SUFFICES ASSUME TallyInv, Tallying PROVE CountsAreHonest
    BY DEF CountsAreHonest, Tallying
  <2> DEFINE made == [k \in Read |-> Handled(parsed[k].fields)]
             notes == DOMAIN counts \cup UNION {DOMAIN made[k].counted : k \in Read}
             added == UNION {made[k].keyed : k \in Read}
  <2>1. TotalsAreExact /\ \A name \in CounterNames : IsHonest(counters[name], name)
    BY DEF TallyInv
  <2>2. \A k \in Read : made[k] = Handled(parsed[k].fields)
    OBVIOUS
  <2>3. notes = DOMAIN counts
    BY <2>1 DEF TotalsAreExact
  <2>4. \A note \in notes \ {Bytes} :
          BagIn(note, counts) /\ counts[note] = Cardinality(Noting(note))
    BY <2>1, <2>3 DEF TotalsAreExact, BagIn, BagToSet
  <2>5. ASSUME NEW a \in added
        PROVE  Adding(a.counter, a.key) # {}
    <3>1. PICK k \in Read : a \in Handled(parsed[k].fields).keyed
      OBVIOUS
    <3>2. a \in AddsTo(k, a.counter, a.key)
      BY <3>1 DEF AddsTo
    <3> QED BY <3>2 DEF Adding
  <2>6. ASSUME NEW name \in CounterNames
        PROVE  LET c == counters[name] IN
               /\ c.dropped = 0 => \A a \in added : a.counter = name => a.key \in Keys(c)
               /\ \A key \in Keys(c) :
                    /\ c.groups[key].count <= Cardinality(Adding(name, key))
                    /\ c.dropped = 0 => c.groups[key].count = Cardinality(Adding(name, key))
                    /\ c.groups[key].worst \in ValuesAdded(name, key)
    <3> HIDE DEF added
    <3> QED BY <2>1, <2>5 DEF IsHonest
  <2> QED BY <2>4, <2>6 DEF CountsAreHonest
<1> QED BY <1>1, TallyInvHolds, PTL

(***************************************************************************)
(* What is kept that no option bounds: grep has written no more for each   *)
(* hit than its context, and what it still owes is of that context; what   *)
(* does not count has no totals.                                           *)
(***************************************************************************)
WrittenForHits ==
  Len(shown) + pending <= Cardinality(hits) * (1 + job.before + job.after)

KeptInv ==
  /\ job.command = "grep" => WrittenForHits
  /\ ~Tallying => DOMAIN counts = {}

LEMMA HitsAreFinite ==
  ASSUME SearchTyped
  PROVE  IsFiniteSet(hits) /\ Cardinality(hits) \in Nat
<1>1. number \in Nat /\ hits \subseteq 1..number
  BY DEF SearchTyped
<1>2. IsFiniteSet(hits)
  BY <1>1, CardinalityUpTo, FS_Subset
<1> QED BY <1>2, FS_CardinalityType

LEMMA SearchKeepsWithinHits ==
  ASSUME SearchInv, WrittenForHits, job' = job, NEW record, Search(record)
  PROVE  WrittenForHits'
<1> DEFINE M == 1 + job.before + job.after
<1>1. /\ job.command = "grep" /\ number' = number + 1 /\ SearchTyped /\ LinesInOrder
      /\ job.before \in Nat /\ job.after \in Nat /\ number \in Nat /\ pending \in Nat
      /\ Len(ring) \in Nat /\ Len(ring) <= job.before /\ hits \subseteq 1..number
      /\ Len(shown) \in Nat /\ M \in Nat
  BY DEF Search, SearchInv, GrepInv, SearchTyped, LinesInOrder, IsJob
<1>2. IsFiniteSet(hits) /\ Cardinality(hits) \in Nat
  BY <1>1, HitsAreFinite
<1>3. Len(shown) + pending <= Cardinality(hits) * M
  BY DEF WrittenForHits
<1>4. WrittenForHits' <=> Len(shown') + pending' <= Cardinality(hits') * M
  BY DEF WrittenForHits
<1> HIDE DEF M
<1>5. CASE IsHit(record)
  <2>1. hits' = hits \cup {number'} /\ ShowHit(number')
    BY <1>5 DEF Search
  <2>2. Len(shown') = Len(shown) + Len(ring) + 1 /\ pending' = job.after
    BY <1>1, <2>1, HitShowsRing DEF ShowHit
  <2>3. Cardinality(hits') = Cardinality(hits) + 1
    <3>1. number' \notin hits
      BY <1>1
    <3> QED BY <1>2, <2>1, <3>1, FS_AddElement
  <2>4. \A c \in Nat : (c + 1) * M = c * M + M /\ c * M \in Nat
    BY <1>1
  <2>5. Cardinality(hits') * M = Cardinality(hits) * M + M /\ Cardinality(hits) * M \in Nat
    BY <1>2, <2>3, <2>4
  <2>6. Len(shown') + pending' <= Len(shown) + M
    BY <1>1, <2>2 DEF M
  <2> QED BY <1>1, <1>2, <1>3, <1>4, <2>2, <2>5, <2>6
<1>6. CASE ~IsHit(record)
  <2>1. hits' = hits
    BY <1>6 DEF Search
  <2>2. CASE pending > 0
    <3>1. ShowTrailing(number')
      BY <1>6, <2>2 DEF Search
    <3>2. Len(shown') = Len(shown) + 1 /\ pending' = pending - 1
      BY <1>1, <2>2, <3>1, TrailingIsShown DEF ShowTrailing
    <3> QED BY <1>1, <1>3, <1>4, <2>1, <3>2
  <2>3. CASE pending = 0
    <3>1. shown' = shown /\ pending' = pending
      BY <1>6, <2>3 DEF Search, Remember
    <3> QED BY <1>3, <1>4, <2>1, <3>1
  <2> QED BY <1>1, <2>2, <2>3
<1> QED BY <1>5, <1>6

LEMMA KeptInvHolds == Spec => []KeptInv
<1>1. Init => KeptInv
  <2> SUFFICES ASSUME Init PROVE KeptInv
    OBVIOUS
  <2>1. job.before \in Nat /\ job.after \in Nat
    BY JobsAssumption DEF Init, IsJob
  <2>2. Len(shown) = 0 /\ pending = 0 /\ Cardinality(hits) = 0
    BY FS_EmptySet DEF Init
  <2>3. DOMAIN counts = {}
    BY DEF Init, EmptyBag, SetToBag
  <2>4. 0 <= 0 * (1 + job.before + job.after)
    BY <2>1
  <2> QED BY <2>2, <2>3, <2>4 DEF KeptInv, WrittenForHits
<1>2. SearchInv /\ KeptInv /\ [Next]_vars => KeptInv'
  <2> SUFFICES ASSUME SearchInv, KeptInv, [Next]_vars PROVE KeptInv'
    OBVIOUS
  <2>0. job' = job
    BY JobIsFixed
  <2>1. ASSUME job.command = "grep" PROVE WrittenForHits'
    <3>1. CASE UNCHANGED <<number, ring, pending, hits>> /\ shown' = shown
      BY <2>0, <2>1, <3>1 DEF KeptInv, WrittenForHits
    <3>2. CASE \E record : Search(record)
      BY <2>0, <2>1, <3>2, SearchKeepsWithinHits DEF KeptInv
    <3> QED BY <2>1, <3>1, <3>2, SearchStep
  <2>2. ASSUME ~Tallying PROVE counts' = counts
    <3>1. CASE ReadRecord
      <4>1. \/ UNCHANGED counts
            \/ \E fields, record : Handle(fields, record)
        BY <3>1 DEF ReadRecord, tally
      <4>2. ASSUME NEW fields, NEW record, Handle(fields, record) PROVE counts' = counts
        BY <2>2, <4>2 DEF Handle, Count, Keep, Write, Search, Tallying, tally
      <4> QED BY <4>1, <4>2
    <3>2. CASE ~ReadRecord
      BY <3>2 DEF Next, NoInputMatched, OpenNext, SkipBlank, EndOfInput, Report, vars, tally
    <3> QED BY <3>1, <3>2
  <2>3. Tallying' <=> Tallying
    BY <2>0 DEF Tallying
  <2> QED BY <2>0, <2>1, <2>2, <2>3 DEF KeptInv
<1> QED BY <1>1, <1>2, SearchInvHolds, PTL DEF Spec

(***************************************************************************)
(* The totals are a fixed set, the buckets of peaks excepted.              *)
(***************************************************************************)
LEMMA SeverityIsTotal ==
  ASSUME NEW fields
  PROVE  SeverityName(fields) \in Totals
<1> DEFINE S == {0} \cup {i \in DOMAIN SeverityOrder : fields.severity = <<SeverityOrder[i]>>}
<1>1. DOMAIN SeverityOrder = 1..4
  BY DEF SeverityOrder
<1>2. S \subseteq 0..4 /\ 0 \in S
  BY <1>1
<1>3. SeverityOf(fields) = Max(S)
  BY DEF SeverityOf, Severity
<1> HIDE DEF S
<1>4. \E m \in S : \A k \in S : m >= k
  <2>1. 4 \in S \/ S \subseteq 0..3
    BY <1>2
  <2>2. 3 \in S \/ S \subseteq 0..2 \/ 4 \in S
    BY <1>2, <2>1
  <2>3. 2 \in S \/ S \subseteq 0..1 \/ 3 \in S \/ 4 \in S
    BY <1>2, <2>2
  <2> QED BY <1>2, <2>1, <2>2, <2>3
<1>5. Max(S) \in S
  BY <1>4 DEF Max
<1>6. SeverityOf(fields) \in 0..4
  BY <1>2, <1>3, <1>5
<1>7. SeverityOf(fields) = 0 \/ SeverityOf(fields) \in DOMAIN SeverityOrder
  BY <1>1, <1>6
<1> QED BY <1>7 DEF SeverityName, Totals

LEMMA KindIsTotal ==
  ASSUME NEW fields
  PROVE  Classify(fields) \in Totals
<1> DEFINE kinds == {"deadlock", "lock wait", "system", "connection", "disconnection",
                     "checkpoint", "autovacuum", "temp file", "conflict", "slow", "other"}
<1>1. \A s : StateKind(s) \in kinds \cup {"none"}
  BY DEF StateKind
<1>2. \A w : LeadKind(w) \in kinds \cup {"none"}
  BY DEF LeadKind
<1>3. Classify(fields) \in kinds
  <2> HIDE DEF kinds
  <2>1. /\ "conflict" \in kinds /\ "other" \in kinds /\ "lock wait" \in kinds
        /\ "system" \in kinds /\ "slow" \in kinds
    BY DEF kinds
  <2> QED BY <1>1, <1>2, <2>1 DEF Classify
<1> QED BY <1>3 DEF Totals

LEMMA NotedIsTotal ==
  ASSUME NEW names, NEW keyed, names \subseteq Totals
  PROVE  DOMAIN Noted(names, keyed).counted \subseteq {<<n>> : n \in Totals}
BY DEF Noted, SetToBag

LEMMA IgnoredIsEmpty == DOMAIN Ignored.counted = {}
BY DEF Ignored, EmptyBag, SetToBag

LEMMA HandledIsTotal ==
  ASSUME Tallying, NEW k \in Read
  PROVE  DOMAIN Handled(parsed[k].fields).counted
           \subseteq {<<n>> : n \in Totals} \cup {b \in BucketsRead : job.command = "peaks"}
<1> DEFINE fields == parsed[k].fields
           T == {<<n>> : n \in Totals}
<1>1. SeverityName(fields) \in Totals /\ Classify(fields) \in Totals
  BY SeverityIsTotal, KindIsTotal
<1>2. {"total", "count", "undated", "failure", "connection", "disconnection"} \subseteq Totals
  BY DEF Totals
<1> HIDE DEF fields
<1>3. CASE job.command = "stats"
  <2>1. Handled(fields) = Noted({"total", SeverityName(fields), Classify(fields)}, {})
    BY <1>3 DEF Handled, OnStats
  <2>2. {"total", SeverityName(fields), Classify(fields)} \subseteq Totals
    BY <1>1, <1>2
  <2> QED BY <2>1, <2>2, NotedIsTotal DEF fields
<1>4. CASE job.command = "errors"
  <2>1. Handled(fields) = OnErrors(fields)
    BY <1>4 DEF Handled
  <2>2. {"total", SeverityName(fields)} \subseteq Totals
    BY <1>1, <1>2
  <2>3. DOMAIN OnErrors(fields).counted \subseteq T
    BY <2>2, NotedIsTotal, IgnoredIsEmpty DEF OnErrors
  <2> QED BY <2>1, <2>3 DEF fields
<1>5. CASE job.command = "slow"
  <2>1. Handled(fields) = OnSlow(job, fields)
    BY <1>5 DEF Handled
  <2>2. {"count"} \subseteq Totals
    BY <1>2
  <2>3. DOMAIN OnSlow(job, fields).counted \subseteq T
    BY <2>2, NotedIsTotal, IgnoredIsEmpty DEF OnSlow
  <2> QED BY <2>1, <2>3 DEF fields
<1>6. CASE job.command = "locks"
  <2>1. Handled(fields) = OnLocks(fields)
    BY <1>6 DEF Handled
  <2>2. {Classify(fields)} \subseteq Totals
    BY <1>1
  <2>3. DOMAIN OnLocks(fields).counted \subseteq T
    BY <2>2, NotedIsTotal, IgnoredIsEmpty DEF OnLocks
  <2> QED BY <2>1, <2>3 DEF fields
<1>7. CASE job.command = "connections"
  <2>1. Handled(fields) = OnConnections(fields)
    BY <1>7 DEF Handled
  <2>2. /\ {IF IsError(fields) THEN "failure" ELSE "connection"} \subseteq Totals
        /\ {"disconnection"} \subseteq Totals
    BY <1>2
  <2>3. DOMAIN OnConnections(fields).counted \subseteq T
    BY <2>2, NotedIsTotal, IgnoredIsEmpty DEF OnConnections
  <2> QED BY <2>1, <2>3 DEF fields
<1>8. CASE job.command = "peaks"
  <2> DEFINE bucket == TimeOf(fields) \div job.bucket
             notes == {<<"records", bucket>>}
                        \cup {n \in {<<"problems", bucket>>} : IsProblem(fields)}
                        \cup {n \in {<<"slow", bucket>>} : DurationOf(fields) >= 0}
  <2>1. Handled(fields) = OnPeaks(job, fields)
    BY <1>8 DEF Handled
  <2>2. notes \subseteq BucketsRead
    BY DEF BucketsRead, fields
  <2>3. \/ OnPeaks(job, fields) = Noted({"undated"}, {})
        \/ OnPeaks(job, fields) = [counted |-> SetToBag(notes), keyed |-> {}]
    BY DEF OnPeaks
  <2> HIDE DEF notes
  <2>4. DOMAIN SetToBag(notes) = notes
    BY DEF SetToBag
  <2>5. {"undated"} \subseteq Totals
    BY <1>2
  <2>6. DOMAIN OnPeaks(job, fields).counted \subseteq T \cup BucketsRead
    BY <2>2, <2>3, <2>4, <2>5, NotedIsTotal
  <2> QED BY <1>8, <2>1, <2>6 DEF fields
<1>9. CASE job.command = "system"
  <2> DEFINE kind == Classify(fields)
             bytes == TempFileSize(fields.message)
             spill == IF kind = "temp file" /\ bytes \in Nat \ {0}
                      THEN [n \in {Bytes} |-> bytes] ELSE EmptyBag
             made == [counted |-> SetToBag({<<kind>>}) (+) spill, keyed |-> {}]
  <2>1. Handled(fields) = OnSystem(fields)
    BY <1>9 DEF Handled
  <2>2. OnSystem(fields) \in {Ignored, made}
    BY DEF OnSystem, Bytes
  <2>3. DOMAIN spill \subseteq {Bytes} /\ DOMAIN SetToBag({<<kind>>}) = {<<kind>>}
    BY DEF EmptyBag, SetToBag
  <2>4. <<kind>> \in T /\ Bytes \in T
    BY <1>1 DEF Totals, Bytes
  <2> HIDE DEF kind, spill, T
  <2>5. DOMAIN (SetToBag({<<kind>>}) (+) spill) = DOMAIN SetToBag({<<kind>>}) \cup DOMAIN spill
    BY DEF (+)
  <2>6. DOMAIN made.counted \subseteq T
    BY <2>3, <2>4, <2>5
  <2> HIDE DEF made
  <2>7. DOMAIN OnSystem(fields).counted \subseteq T
    BY <2>2, <2>6, IgnoredIsEmpty
  <2> QED BY <2>1, <2>7 DEF fields, T
<1> QED BY <1>3, <1>4, <1>5, <1>6, <1>7, <1>8, <1>9 DEF Tallying, CountingCommands, Commands

LEMMA CountsAreTotal ==
  ASSUME TallyInv, KeptInv
  PROVE  DOMAIN counts
           \subseteq {<<n>> : n \in Totals} \cup {b \in BucketsRead : job.command = "peaks"}
<1>1. CASE ~Tallying
  BY <1>1 DEF KeptInv
<1>2. CASE Tallying
  <2> SUFFICES ASSUME NEW note \in DOMAIN counts
               PROVE  note \in {<<n>> : n \in Totals}
                                 \cup {b \in BucketsRead : job.command = "peaks"}
    OBVIOUS
  <2>1. CASE note = Bytes
    BY <2>1 DEF Bytes, Totals
  <2>2. CASE note # Bytes
    <3>1. counts[note] \in Nat /\ counts[note] > 0 /\ counts[note] = Cardinality(Noting(note))
      BY <1>2, <2>2 DEF TallyInv, TallyTyped, TotalsAreExact, IsABag
    <3>2. Noting(note) # {}
      BY <3>1, FS_EmptySet
    <3>3. PICK k \in Read : note \in DOMAIN Handled(parsed[k].fields).counted
      BY <3>2 DEF Noting, BagIn, BagToSet
    <3> QED BY <1>2, <3>3, HandledIsTotal
  <2> QED BY <2>1, <2>2
<1> QED BY <1>1, <1>2

LEMMA EmittedIsWritten ==
  ASSUME SearchTyped, LinesInOrder
  PROVE  Cardinality(Emitted) <= Len(shown) /\ Cardinality(Emitted) \in Nat
<1> DEFINE f == [k \in 1..Len(shown) |-> shown[k].number]
<1>1. Len(shown) \in Nat /\ DOMAIN shown = 1..Len(shown)
  BY DEF LinesInOrder
<1>2. f \in Surjection(1..Len(shown), Emitted)
  BY <1>1 DEF Surjection, Emitted
<1>3. IsFiniteSet(1..Len(shown)) /\ Cardinality(1..Len(shown)) = Len(shown)
  BY <1>1, CardinalityUpTo
<1> HIDE DEF f
<1>4. IsFiniteSet(Emitted) /\ Cardinality(Emitted) <= Cardinality(1..Len(shown))
  BY <1>2, <1>3, FS_Surjection
<1> QED BY <1>3, <1>4, FS_CardinalityType

(***************************************************************************)
(* What a command keeps while it reads, for logs of every length.  The ring*)
(* of grep (cmd_grep.go:118-125), the events of system (cmd_system.go), the*)
(* groups of a counter (topk.go:90-95), unless the group of the empty key  *)
(* is among these, and the totals stay within bounds the log has no part   *)
(* in.  What grep remembers to have written (cmd_grep.go:60, :71) is no    *)
(* more than the context of its hits, and peaks has a bucket only where    *)
(* records were written to the log (cmd_peaks.go:43): both grow with it.   *)
(***************************************************************************)
THEOREM WhatACommandKeeps == Spec => []TypeOK
<1>1. ExitInv /\ SearchInv /\ TallyInv /\ KeptInv => TypeOK
  <2> SUFFICES ASSUME ExitInv, SearchInv, TallyInv, KeptInv PROVE TypeOK
    OBVIOUS
  <2>1. IsJob(job) /\ job.command \in Commands
    BY DEF ExitInv, RunInv, IsJob
  <2>2. opened \in 0..Len(job.inputs) /\ reading \in BOOLEAN
    BY DEF ExitInv, RunInv
  <2>3. exit \in {Running, 0, 1, 2}
    BY DEF ExitInv, RunInv
  <2>4. /\ number \in Nat /\ ring \in Seq(1..number) /\ hits \subseteq 1..number
        /\ Len(ring) <= job.before
    BY DEF SearchInv, SearchTyped
  <2>5. pending \in Nat /\ pending <= job.after
    BY <2>1 DEF SearchInv, SearchTyped, IsJob
  <2>6. IsABag(counts) /\ Len(events) <= Limit(job.top)
    BY DEF TallyInv, TallyTyped
  <2>7. \A name \in CounterNames : IsCounter(counters[name])
    BY DEF TallyInv, TallyTyped
  <2>8. \A name \in CounterNames :
          NoKey \notin Keys(counters[name]) =>
            Cardinality(Keys(counters[name])) <= Limit(job.top)
    BY DEF TallyInv, TallyTyped, IsBounded
  <2>9. DOMAIN counts \subseteq
          {<<n>> : n \in Totals} \cup {b \in BucketsRead : job.command = "peaks"}
    BY CountsAreTotal
  <2>10. ASSUME job.command = "grep"
         PROVE  Cardinality(Emitted) + pending
                  <= Cardinality(hits) * (1 + job.before + job.after)
    <3>1. SearchTyped /\ LinesInOrder /\ WrittenForHits
      BY <2>10 DEF SearchInv, GrepInv, KeptInv
    <3>2. /\ Cardinality(Emitted) \in Nat /\ Cardinality(Emitted) <= Len(shown)
          /\ Len(shown) \in Nat
      BY <3>1, EmittedIsWritten DEF LinesInOrder
    <3>3. Cardinality(hits) * (1 + job.before + job.after) \in Nat
      BY <2>1, <3>1, HitsAreFinite DEF IsJob
    <3> QED BY <2>5, <3>1, <3>2, <3>3 DEF WrittenForHits
  <2>11. WithinBounds
    BY <2>4, <2>5, <2>6, <2>8, <2>9, <2>10, Zenon DEF WithinBounds
  <2> QED BY <2>1, <2>2, <2>3, <2>4, <2>5, <2>6, <2>7, <2>11 DEF TypeOK
<1> QED BY <1>1, ExitInvHolds, SearchInvHolds, TallyInvHolds, KeptInvHolds, PTL

(***************************************************************************)
(* A counter by itself, to which anything may be added in any order.       *)
(***************************************************************************)
VARIABLES
  counter,  \* a counter
  seen      \* [key -> how often it was added], which no counter keeps

CountInit(Key) == counter = NewCounter /\ seen = [k \in Key |-> 0]

CountNext(Key, limit) ==
  \E key \in Key, value \in Nat :
    /\ counter' \in Added(counter, key, value, limit)
    /\ seen' = [seen EXCEPT ![key] = @ + 1]

CountSpec(Key, limit) ==
  CountInit(Key) /\ [][CountNext(Key, limit)]_<<counter, seen>>

CountTyped(Key) ==
  IsCounter(counter) /\ Keys(counter) \subseteq Key /\ seen \in [Key -> Nat]

\* Never more than there was; exact, with every group, if none was given up.
CountHonest(Key) ==
  /\ \A k \in Keys(counter) : counter.groups[k].count <= seen[k]
  /\ counter.dropped = 0 =>
       /\ \A k \in Keys(counter) : counter.groups[k].count = seen[k]
       /\ \A k \in Key \ Keys(counter) : seen[k] = 0

(***************************************************************************)
(* A counter never reports more of a key than was added, is exact as long  *)
(* as no group was given up, and stays within its bound as long as the     *)
(* empty key is not in it (topk.go:1-122, PERF-028), for every set of keys *)
(* and every choice among the least frequent groups.                       *)
(***************************************************************************)
THEOREM CounterIsHonest ==
  ASSUME NEW limit \in Nat \ {0}, NEW Key
  PROVE  CountSpec(Key, limit) =>
           [](CountTyped(Key) /\ CountHonest(Key) /\ IsBounded(counter, limit))
<1> DEFINE Inv == CountTyped(Key) /\ CountHonest(Key) /\ IsBounded(counter, limit)
<1>1. CountInit(Key) => Inv
  <2> SUFFICES ASSUME CountInit(Key) PROVE Inv
    OBVIOUS
  <2>1. Keys(counter) = {} /\ counter.dropped = 0 /\ IsCounter(counter)
    BY FS_EmptySet DEF CountInit, NewCounter, Keys, IsCounter
  <2>2. CountTyped(Key) /\ CountHonest(Key)
    BY <2>1 DEF CountInit, CountTyped, CountHonest
  <2> QED BY <2>1, <2>2, FS_EmptySet DEF IsBounded
<1>2. Inv /\ [CountNext(Key, limit)]_<<counter, seen>> => Inv'
  <2> SUFFICES ASSUME Inv, [CountNext(Key, limit)]_<<counter, seen>> PROVE Inv'
    OBVIOUS
  <2>1. CASE CountNext(Key, limit)
    <3>1. PICK key \in Key, value \in Nat :
            /\ counter' \in Added(counter, key, value, limit)
            /\ seen' = [seen EXCEPT ![key] = @ + 1]
      BY <2>1 DEF CountNext
    <3>2. IsCounter(counter)
      BY DEF CountTyped
    <3>3. /\ AddedTo(counter, counter', key, value)
          /\ IsBounded(counter, limit) => IsBounded(counter', limit)
      BY <3>1, <3>2, AddedCounter
    <3>4. /\ IsCounter(counter') /\ key \in Keys(counter')
          /\ Keys(counter') \subseteq Keys(counter) \cup {key}
          /\ counter'.dropped = 0 =>
               counter.dropped = 0 /\ Keys(counter') = Keys(counter) \cup {key}
          /\ counter'.groups[key].count =
               1 + (IF key \in Keys(counter) THEN counter.groups[key].count ELSE 0)
          /\ \A k \in Keys(counter') \ {key} :
               k \in Keys(counter) /\ counter'.groups[k] = counter.groups[k]
      BY <3>3 DEF AddedTo
    <3>5. /\ seen' \in [Key -> Nat] /\ seen'[key] = seen[key] + 1 /\ seen[key] \in Nat
          /\ \A k \in Key \ {key} : seen'[k] = seen[k]
      BY <3>1 DEF CountTyped
    <3>6. CountTyped(Key)'
      BY <3>4, <3>5 DEF CountTyped
    <3>7. \A k \in Keys(counter) : counter.groups[k].count \in Nat
      BY <3>2 DEF IsCounter, Group
    <3>8. CountHonest(Key)'
      BY <3>4, <3>5, <3>7 DEF CountHonest, CountTyped
    <3> QED BY <3>3, <3>6, <3>8
  <2>2. CASE UNCHANGED <<counter, seen>>
    BY <2>2 DEF CountTyped, CountHonest, IsBounded, IsCounter, Keys
  <2> QED BY <2>1, <2>2
<1> QED BY <1>1, <1>2, PTL DEF CountSpec
=============================================================================
