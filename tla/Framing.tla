------------------------------ MODULE Framing ------------------------------
(***************************************************************************)
(* How pglogwatch cuts a byte stream into records: the split functions of  *)
(* the three log formats (csv.go, stderr.go, json.go, dispatch.go), the    *)
(* test for a record start that Seek uses (seek.go), and the record        *)
(* sequence that a whole input stands for.                                 *)
(*                                                                         *)
(* A byte is abstracted to its class:                                      *)
(*   "n"  a newline                                                        *)
(*   "q"  a double quote                                                   *)
(*   "s"  the first byte of a line that looks like the start of a record:  *)
(*        the timestamp and comma of csvlog, the brace of jsonlog, the     *)
(*        prefix and a severity label of stderr                            *)
(*   "d"  the first byte of a stderr line with a prefix of its own whose    *)
(*        label, DETAIL or the like, makes it a continuation               *)
(*   "x"  any other byte; a line that begins with one is a continuation    *)
(*   "b"  the byte order mark                                              *)
(* Carriage returns are left out: trimCR takes them off the end of a line. *)
(***************************************************************************)
EXTENDS Naturals, Sequences, FiniteSets, FiniteSetsExt

CONSTANTS
  MaxRecord,      \* Config.MaxRecordBytes
  ResyncPeek,     \* resyncPeekBytes
  MaxResyncLines, \* maxResyncLines
  MaxLen          \* bound: length of an input

ASSUME FramingAssumption ==
  /\ MaxRecord \in Nat \ {0}
  /\ ResyncPeek \in Nat \ {0} /\ MaxResyncLines \in Nat \ {0}
  /\ MaxLen \in Nat

Formats == {"csv", "json", "stderr"}

Byte == {"n", "q", "s", "d", "x", "b"}

Shorter(a, b) == IF a < b THEN a ELSE b

(***************************************************************************)
(* What a split function returns: how many bytes are used up, and how many *)
(* of them, from the first, are the record (0 for no record).              *)
(***************************************************************************)
NeedMore == [advance |-> 0, token |-> 0]
Cut(advance, token) == [advance |-> advance, token |-> token]

NewlinesIn(d) == {i \in 1..Len(d) : d[i] = "n"}

\* An input that ends without a newline: its tail is a record, or dropped.
CutTail(d, atEOF, emitTail) ==
  IF ~atEOF THEN NeedMore
  ELSE Cut(Len(d), IF emitTail THEN Len(d) ELSE 0)

\* splitLine, which is all of splitJSONRecord.
SplitLine(d, atEOF, emitTail) ==
  IF NewlinesIn(d) = {} THEN CutTail(d, atEOF, emitTail)
  ELSE Cut(Min(NewlinesIn(d)), Min(NewlinesIn(d)) - 1)

QuotesBefore(d, i) == Cardinality({k \in 1..(i - 1) : d[k] = "q"})

\* The newlines outside quotes: an even number of quotes comes before them.
RecordEnds(d) == {i \in NewlinesIn(d) : QuotesBefore(d, i) % 2 = 0}

SplitCSV(d, atEOF, emitTail) ==
  IF RecordEnds(d) = {} THEN CutTail(d, atEOF, emitTail)
  ELSE Cut(Min(RecordEnds(d)), Min(RecordEnds(d)) - 1)

\* isContinuationLine, of the line that begins at i; an empty one is not.
IsContinuation(d, i) == d[i] \notin {"s", "n"}

\* The line that begins at i can be judged: it is all there.
LineIsKnown(d, i, atEOF) == atEOF \/ \E k \in i..Len(d) : d[k] = "n"

(***************************************************************************)
(* splitStderrRecord: a record is a line and the continuation lines after  *)
(* it, so it ends where a line that is none begins, and that line must be  *)
(* there to see.                                                           *)
(***************************************************************************)
SplitStderr(d, atEOF, emitTail) ==
  LET Lines == {i \in 2..Len(d) : d[i - 1] = "n"}
      Stops == {i \in Lines : ~IsContinuation(d, i)}
  IN IF NewlinesIn(d) = {} THEN CutTail(d, atEOF, emitTail)
     ELSE IF d[1] = "n" THEN Cut(1, 0)
     ELSE IF Stops # {}
     THEN IF LineIsKnown(d, Min(Stops), atEOF)
          THEN Cut(Min(Stops) - 1, Min(Stops) - 2)
          ELSE NeedMore
     ELSE IF atEOF
     THEN Cut(Len(d), IF d[Len(d)] = "n" THEN Len(d) - 1 ELSE Len(d))
     ELSE NeedMore

\* splitByFormat.
Split(format, d, atEOF, emitTail) ==
  IF d = <<>> THEN NeedMore
  ELSE CASE format = "csv"  -> SplitCSV(d, atEOF, emitTail)
         [] format = "json" -> SplitLine(d, atEOF, emitTail)
         [] OTHER           -> SplitStderr(d, atEOF, emitTail)

\* splitRecord: the record ran into the end of the input without a newline.
RunsIntoEnd(d, cut, atEOF) ==
  /\ cut.token > 0 /\ atEOF
  /\ cut.advance = Len(d) /\ d[Len(d)] # "n"

(***************************************************************************)
(* parseInto, reduced to whether it succeeds: a jsonlog record begins with *)
(* its brace, a stderr record with the prefix, a csvlog record with its    *)
(* timestamp, and its quoted fields are closed.                            *)
(***************************************************************************)
IsRecord(format, token) ==
  /\ token[1] \in (IF format = "stderr" THEN {"s", "d"} ELSE {"s"})
  /\ format = "csv" => QuotesBefore(token, Len(token) + 1) % 2 = 0

\* firstNonEmptyLine: where it begins, 0 if every line is empty.
FirstNonEmptyLine(d) ==
  IF \A i \in 1..Len(d) : d[i] = "n" THEN 0
  ELSE Min({i \in 1..Len(d) : d[i] # "n"})

LineAt(d, i) ==
  LET Ends == {k \in i..Len(d) : d[k] = "n"}
  IN SubSeq(d, i, IF Ends = {} THEN Len(d) ELSE Min(Ends) - 1)

(***************************************************************************)
(* classifyLine, for a stream that is really of the given format.  A       *)
(* csvlog line must split into columns by itself; what is neither csvlog   *)
(* nor jsonlog is stderr.                                                  *)
(***************************************************************************)
ClassifyLine(actual, line) ==
  IF line[1] = "s" /\ (actual = "csv" => QuotesBefore(line, Len(line) + 1) % 2 = 0)
  THEN actual ELSE "stderr"

\* isRecordStart, for the line that begins at i, if there is one.
IsRecordStart(d, i) == i > 0 /\ d[i] = "s"
-----------------------------------------------------------------------------
(***************************************************************************)
(* The record sequence of an input, independent of any buffer: records are *)
(* cut from a window of MaxRecord bytes, and a window that holds no whole  *)
(* record is skipped up to the next newline (PERF-008, E18).               *)
(***************************************************************************)
StartOf(content) == IF content # <<>> /\ content[1] = "b" THEN 1 ELSE 0

WindowAt(content, pos) ==
  SubSeq(content, pos + 1, Shorter(pos + MaxRecord, Len(content)))

WindowAtEOF(content, pos) == Len(content) - pos < MaxRecord

\* What comes at pos: a cut, a skip, or the end.
CutAt(format, content, pos, emitTail) ==
  Split(format, WindowAt(content, pos), WindowAtEOF(content, pos), emitTail)

\* discardToNewline: just past the first newline after pos, or the end.
PastNewline(content, pos) ==
  LET Ends == {i \in (pos + 1)..Len(content) : content[i] = "n"}
  IN IF Ends = {} THEN Len(content) ELSE Min(Ends)

NextPosition(format, content, pos, emitTail) ==
  LET cut == CutAt(format, content, pos, emitTail)
  IN IF cut.advance > 0 THEN pos + cut.advance
     ELSE IF WindowAtEOF(content, pos) THEN Len(content)
     ELSE PastNewline(content, pos + MaxRecord)

\* The positions the framer comes to, from pos on.
Positions(format, content, pos, emitTail) ==
  LET from[p \in pos..Len(content)] ==
        IF p = Len(content) THEN {p}
        ELSE {p} \cup from[NextPosition(format, content, p, emitTail)]
  IN from[pos]

TokenAt(format, content, pos, emitTail) ==
  LET cut == CutAt(format, content, pos, emitTail)
  IN SubSeq(content, pos + 1, pos + cut.token)

\* The offsets of the records of the input, read from pos on.
RecordOffsets(format, content, pos, emitTail) ==
  {p \in Positions(format, content, pos, emitTail) :
     /\ p < Len(content)
     /\ TokenAt(format, content, p, emitTail) # <<>>
     /\ IsRecord(format, TokenAt(format, content, p, emitTail))}

\* How many records the size cap skips.
Skipped(format, content, pos, emitTail) ==
  Cardinality({p \in Positions(format, content, pos, emitTail) :
     /\ ~WindowAtEOF(content, p)
     /\ CutAt(format, content, p, emitTail) = NeedMore})

(***************************************************************************)
(* Where Seek lands when it is sent to pos > 0: at the next record start,  *)
(* or where it gave up.                                                    *)
(***************************************************************************)
Landing(content, pos) ==
  LET Sample(p) == SubSeq(content, p + 1,
                          Shorter(p + Shorter(ResyncPeek, MaxRecord), Len(content)))
      Stops(p)  == LET i == FirstNonEmptyLine(Sample(p))
                   IN i = 0 \/ IsRecordStart(Sample(p), i)
      land[k \in 0..MaxResyncLines] ==
        [p \in pos..Len(content) |->
           IF k = 0 \/ Stops(p) THEN p ELSE land[k - 1][PastNewline(content, p)]]
  IN land[MaxResyncLines][pos]
-----------------------------------------------------------------------------
(***************************************************************************)
(* The inputs: every sequence of byte classes in which only the first byte *)
(* of a line looks like the start of something.                            *)
(***************************************************************************)
Alphabet(f) ==
  CASE f = "csv"    -> {"n", "s", "q"}
    [] f = "json"   -> {"n", "s", "x"}
    [] f = "stderr" -> {"n", "s", "d", "x"}

\* Only the first byte of a line, the byte order mark aside, looks like the
\* start of something.
StartsLines(c) ==
  \A i \in 2..Len(c) :
    c[i] \in {"s", "d"} => c[i - 1] = "n" \/ (i = 2 /\ c[1] = "b")

Contents(f) ==
  LET plain == {c \in UNION {[1..k -> Alphabet(f)] : k \in 0..MaxLen} :
                  \A i \in 2..Len(c) : c[i] \in {"s", "d"} => c[i - 1] = "n"}
  IN plain \cup {<<"b">> \o c : c \in {d \in plain : Len(d) < MaxLen}}

\* A line that only looks like the start of a record, inside a quoted field.
Deceptive(f, content) ==
  f = "csv" /\ \E i \in 2..Len(content) :
    /\ content[i - 1] = "n" /\ content[i] = "s"
    /\ QuotesBefore(content, i) % 2 = 1

\* As many blank lines in a row as resync looks at: it takes them for the end.
BlankRun(content) ==
  \E i \in 1..Len(content) :
    /\ i + ResyncPeek - 1 <= Len(content)
    /\ \A k \in i..(i + ResyncPeek - 1) : content[k] = "n"

\* As many lines in a row that begin no record as resync passes over.
GivesUp(content) ==
  \E a, b \in 1..Len(content) :
    /\ \A q \in a..(b - 1) : content[q + 1] # "s"
    /\ Cardinality({i \in (a + 1)..b : content[i] = "n"}) >= MaxResyncLines

\* A continuation with a prefix of its own that follows no record.
Orphan(content) ==
  \E i \in 2..Len(content) :
    content[i] = "d" /\ (i = 2 \/ content[i - 2] \in {"n", "b"})

(***************************************************************************)
(* What a server writes, in records that fit: the inputs for which record  *)
(* starts can be told apart in the middle of the stream.                   *)
(***************************************************************************)
Regular(f, content, emitTail) ==
  /\ ~Deceptive(f, content) /\ ~Orphan(content)
  /\ Skipped(f, content, StartOf(content), emitTail) = 0
=============================================================================
