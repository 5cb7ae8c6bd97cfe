------------------------------- MODULE Parser -------------------------------
(***************************************************************************)
(* The read buffer and control flow of pglogwatch.Parser (buf.go,          *)
(* parser_api.go, dispatch.go, detect.go, seek.go) over a source that      *)
(* answers each Read as an io.Reader may: with as many bytes as it likes,  *)
(* with the error that ends it together with the last bytes or after them, *)
(* or with nothing at all.                                                 *)
(*                                                                         *)
(* The parser is sequential; an action is a decision of the loop in        *)
(* buf.next, of peek or of resync, or one call of the source.              *)
(***************************************************************************)
EXTENDS Framing

CONSTANTS
  ReadFormats,    \* the formats of the inputs
  AutoModes,      \* is Config.Format left to detection?
  TailModes,      \* Config.emitTruncatedTail()
  Endings,        \* how the source ends: "EOF" or "broken"
  MayStall,       \* may the source return (0, nil) for ever?
  ReadSizes,      \* how many bytes one Read may return
  InitialBuffer,  \* Config.InitialBufferBytes
  FormatPeek,     \* formatPeekBytes
  MaxSeeks        \* bound: calls of Seek

ASSUME ParserAssumption ==
  /\ ReadFormats \subseteq Formats
  /\ AutoModes \subseteq BOOLEAN /\ TailModes \subseteq BOOLEAN
  /\ Endings \subseteq {"EOF", "broken"} /\ MayStall \in BOOLEAN
  /\ ReadSizes \subseteq Nat \ {0} /\ 1 \in ReadSizes
  /\ InitialBuffer \in 1..MaxRecord   \* Config.normalize
  /\ FormatPeek \in Nat \ {0} /\ MaxSeeks \in Nat

VARIABLES
  \* the source, and the configuration
  content,   \* the bytes of the input
  actual,    \* the format it is written in
  ending,    \* the error that ends it
  emitTail,  \* Config.emitTruncatedTail()
  pos,       \* how many bytes the source has handed over
  \* buf
  data,      \* data[:w]
  r,         \* r
  cap,       \* len(data)
  consumed,  \* consumed
  err,       \* err, "none" for nil
  atEOF,     \* atEOF
  skipping,  \* skipping
  bomChecked,\* bomChecked
  \* Parser
  format,    \* format, "auto" until resolved
  perr,      \* err
  truncated, \* stats.Truncated
  malformed, \* stats.Malformed
  pc,        \* where the parser is; "ended" is done
  lines,     \* resync: lines discarded
  seeks,     \* how often Seek was called
  \* history
  sought,    \* the offset last passed to Seek, 0 before
  origin,    \* where that Seek landed
  out        \* the records returned since

source == <<content, actual, ending, emitTail>>
buf    == <<data, r, cap, consumed, err, atEOF, skipping, bomChecked>>
stats  == <<truncated, malformed>>
vars   == <<source, pos, buf, format, perr, stats, pc, lines, seeks, sought,
            origin, out>>

Window == SubSeq(data, r + 1, Len(data))
Have   == Len(data) - r

Busy == {"format", "read", "seekformat", "resync", "drop"}
-----------------------------------------------------------------------------
(***************************************************************************)
(* buf                                                                     *)
(***************************************************************************)
\* advance(n)
Advance(n) == r' = r + n /\ consumed' = consumed + n

\* consumeBOM: once per stream, at its head only, and the mark is consumed.
CheckBOM ==
  /\ pc \in Busy /\ ~bomChecked
  /\ consumed # 0 \/ Have > 0 \/ atEOF
  /\ bomChecked' = TRUE
  /\ IF consumed = 0 /\ Have > 0 /\ Window[1] = "b"
     THEN Advance(1) ELSE UNCHANGED <<r, consumed>>
  /\ UNCHANGED <<source, pos, data, cap, err, atEOF, skipping, format, perr,
                 stats, pc, lines, seeks, sought, origin, out>>

\* peek is satisfied: it holds as much as was asked for, or the stream ended.
Peeked(want) == Have >= Shorter(want, MaxRecord) \/ atEOF

TheCut == Split(format, Window, atEOF, emitTail)

\* No record end in a full window of the largest size.
TooLong == Have >= MaxRecord

Reading == pc = "read" /\ bomChecked /\ ~skipping

NeedsData ==
  /\ ~atEOF
  /\ \/ pc \in Busy /\ ~bomChecked /\ consumed = 0 /\ Have = 0
     \/ pc \in {"format", "seekformat"} /\ bomChecked /\ format = "auto"
          /\ ~Peeked(FormatPeek)
     \/ pc = "resync" /\ bomChecked /\ lines < MaxResyncLines /\ ~Peeked(ResyncPeek)
     \/ Reading /\ TheCut = NeedMore /\ ~TooLong
     \/ ((pc = "read" /\ skipping) \/ pc = "drop") /\ bomChecked /\ Have = 0

\* Mutant: the consumed bytes are kept when the rest slides to the front.
Slid_Keeps(bytes, from) == bytes

\* The unconsumed region is moved to the front.
Slid(bytes, from) == SubSeq(bytes, from + 1, Len(bytes))

\* Mutant: the buffer doubles without regard to the cap.
GrownCap_Uncapped(size) == 2 * size

\* grow: double the buffer, at most to MaxRecord.
GrownCap(size) ==
  Shorter(IF 2 * size > InitialBuffer THEN 2 * size ELSE InitialBuffer, MaxRecord)

\* fill, when the source still answers and there is room.
FillRead ==
  LET kept  == Slid(data, r)
      room  == IF Len(kept) = cap THEN GrownCap(cap) ELSE cap
      left  == Len(content) - pos
  IN /\ NeedsData /\ err = "none"
     /\ Len(kept) < room
     /\ r' = 0 /\ cap' = room
     /\ \/ \E n \in ReadSizes :
             /\ n <= left /\ n <= room - Len(kept)
             /\ data' = kept \o SubSeq(content, pos + 1, pos + n)
             /\ pos' = pos + n
             /\ err' \in {"none"} \cup (IF n = left THEN {ending} ELSE {})
             /\ UNCHANGED atEOF
        \/ /\ left = 0
           /\ data' = kept /\ err' = ending /\ atEOF' = TRUE
           /\ UNCHANGED pos
        \/ /\ MayStall
           /\ data' = kept /\ err' = "noprogress" /\ atEOF' = TRUE
           /\ UNCHANGED pos
     /\ UNCHANGED <<source, consumed, skipping, bomChecked, format, perr, stats,
                    pc, lines, seeks, sought, origin, out>>

\* fill after the source has ended.
FillEnded ==
  /\ NeedsData /\ err # "none"
  /\ atEOF' = TRUE
  /\ UNCHANGED <<source, pos, data, r, cap, consumed, err, skipping, bomChecked,
                 format, perr, stats, pc, lines, seeks, sought, origin, out>>

\* next, when the window holds no record and cannot grow.
Skip ==
  /\ Reading /\ ~atEOF
  /\ TheCut = NeedMore /\ TooLong
  /\ truncated' = truncated + 1
  /\ Advance(Have)
  /\ skipping' = TRUE
  /\ UNCHANGED <<source, pos, data, cap, err, atEOF, bomChecked, format, perr,
                 malformed, pc, lines, seeks, sought, origin, out>>

Dropping == (pc = "read" /\ skipping) \/ pc = "drop"

\* Mutant: the newline that ends the skipped record is left in the buffer.
PastLine_AtNewline(w) == Min(NewlinesIn(w)) - 1

\* Just past the first newline.
PastLine(w) == Min(NewlinesIn(w))

\* discardToNewline finds the newline.
Discard ==
  /\ Dropping /\ bomChecked
  /\ NewlinesIn(Window) # {}
  /\ Advance(PastLine(Window))
  /\ skipping' = FALSE
  /\ pc' = IF pc = "drop" THEN "resync" ELSE pc
  /\ UNCHANGED <<source, pos, data, cap, err, atEOF, bomChecked, format, perr,
                 stats, lines, seeks, sought, origin, out>>

\* discardToNewline drops a window without one.
DiscardAll ==
  /\ Dropping /\ bomChecked
  /\ Have > 0 /\ NewlinesIn(Window) = {}
  /\ Advance(Have)
  /\ UNCHANGED <<source, pos, data, cap, err, atEOF, skipping, bomChecked, format,
                 perr, stats, pc, lines, seeks, sought, origin, out>>
-----------------------------------------------------------------------------
(***************************************************************************)
(* Parser                                                                  *)
(***************************************************************************)
NextCall ==
  /\ pc = "idle"
  /\ pc' = IF format = "auto" THEN "format" ELSE "read"
  /\ UNCHANGED <<source, pos, buf, format, perr, stats, lines, seeks, sought,
                 origin, out>>

(***************************************************************************)
(* ensureFormat with FormatAuto.  When the peeked window holds no line the *)
(* parser is done: Next returns false and Err keeps the value it had.      *)
(***************************************************************************)
EnsureFormat ==
  /\ pc \in {"format", "seekformat"} /\ bomChecked
  /\ format = "auto" /\ Peeked(FormatPeek)
  /\ LET i == FirstNonEmptyLine(Window)
     IN IF i # 0
        THEN /\ format' = ClassifyLine(actual, LineAt(Window, i))
             /\ pc' = IF pc = "format" THEN "read" ELSE "resync"
             /\ UNCHANGED origin
        ELSE /\ pc' = IF pc = "format" THEN "ended" ELSE "idle"
             /\ origin' = IF pc = "format" THEN origin ELSE consumed
             /\ UNCHANGED format
  /\ UNCHANGED <<source, pos, buf, perr, stats, lines, seeks, sought, out>>

\* Mutant: the record is said to begin where it ends.
RecordOffset_End(cut) == consumed + cut.advance

RecordOffset(cut) == consumed

(***************************************************************************)
(* next consumes a record, a blank line or a dropped tail.  Next returns   *)
(* the record, or counts it as malformed and goes on.                      *)
(***************************************************************************)
CutRecord ==
  /\ Reading
  /\ TheCut.advance > 0
  /\ LET token == SubSeq(Window, 1, TheCut.token)
     IN IF token = <<>>
        THEN UNCHANGED <<malformed, pc, out>>
        ELSE IF IsRecord(format, token)
        THEN /\ out' = Append(out, [offset |-> RecordOffset(TheCut), raw |-> token,
                                    cut |-> RunsIntoEnd(Window, TheCut, atEOF)])
             /\ pc' = "idle"
             /\ UNCHANGED malformed
        ELSE malformed' = malformed + 1 /\ UNCHANGED <<pc, out>>
  /\ Advance(TheCut.advance)
  /\ UNCHANGED <<source, pos, data, cap, err, atEOF, skipping, bomChecked, format,
                 perr, truncated, lines, seeks, sought, origin>>

\* Mutant: whatever ended the stream counts as a clean end.
FinalError_Clean == "none"

\* finalErr, and what Next makes of it.
FinalError == IF err = "EOF" THEN "none" ELSE err

EndOfInput ==
  /\ pc = "read" /\ bomChecked /\ atEOF
  /\ IF skipping THEN Have = 0 ELSE TheCut = NeedMore
  /\ perr' = FinalError
  /\ pc' = "ended"
  /\ UNCHANGED <<source, pos, buf, format, stats, lines, seeks, sought, origin, out>>

(***************************************************************************)
(* Seek to an absolute offset.  The format stays resolved.                 *)
(***************************************************************************)
Seek(offset) ==
  /\ pc \in {"idle", "ended"} /\ seeks < MaxSeeks
  /\ seeks' = seeks + 1
  /\ pos' = offset
  /\ data' = <<>> /\ r' = 0 /\ consumed' = offset
  /\ err' = "none" /\ atEOF' = FALSE /\ skipping' = FALSE /\ bomChecked' = FALSE
  /\ perr' = "none" /\ truncated' = 0 /\ malformed' = 0
  /\ pc' = IF offset = 0 THEN "idle"
           ELSE IF format = "auto" THEN "seekformat" ELSE "resync"
  /\ lines' = 0
  /\ sought' = offset /\ origin' = offset /\ out' = <<>>
  /\ UNCHANGED <<source, cap, format>>

\* Mutant: the line Seek lands in is always discarded.
OnBoundary_Never(w) == lines > 0 /\ IsRecordStart(w, FirstNonEmptyLine(w))

\* The first line in sight begins a record.
OnBoundary(w) == IsRecordStart(w, FirstNonEmptyLine(w))

\* resync finds a record start, or gives up.
Resynced ==
  /\ pc = "resync"
  /\ \/ lines = MaxResyncLines
     \/ /\ bomChecked /\ Peeked(ResyncPeek)
        /\ FirstNonEmptyLine(Window) = 0 \/ OnBoundary(Window)
  /\ pc' = "idle"
  /\ origin' = consumed
  /\ UNCHANGED <<source, pos, buf, format, perr, stats, lines, seeks, sought, out>>

\* resync passes over a line that begins no record.
ResyncLine ==
  /\ pc = "resync" /\ lines < MaxResyncLines
  /\ bomChecked /\ Peeked(ResyncPeek)
  /\ FirstNonEmptyLine(Window) # 0 /\ ~OnBoundary(Window)
  /\ lines' = lines + 1
  /\ pc' = "drop"
  /\ UNCHANGED <<source, pos, buf, format, perr, stats, seeks, sought, origin, out>>

\* discardToNewline meets the end of the stream.
ResyncEnds ==
  /\ pc = "drop" /\ atEOF /\ Have = 0
  /\ pc' = "idle"
  /\ origin' = consumed
  /\ UNCHANGED <<source, pos, buf, format, perr, stats, lines, seeks, sought, out>>

Step ==
  \/ CheckBOM \/ FillRead \/ FillEnded \/ Skip \/ Discard \/ DiscardAll
  \/ EnsureFormat \/ CutRecord \/ EndOfInput
  \/ Resynced \/ ResyncLine \/ ResyncEnds

Init ==
  /\ actual \in ReadFormats
  /\ content \in Contents(actual)
  /\ ending \in Endings
  /\ emitTail \in TailModes
  /\ pos = 0
  /\ data = <<>> /\ r = 0 /\ cap = InitialBuffer /\ consumed = 0
  /\ err = "none" /\ atEOF = FALSE /\ skipping = FALSE /\ bomChecked = FALSE
  /\ \E auto \in AutoModes : format = IF auto THEN "auto" ELSE actual
  /\ perr = "none" /\ truncated = 0 /\ malformed = 0
  /\ pc = "idle" /\ lines = 0 /\ seeks = 0
  /\ sought = 0 /\ origin = 0 /\ out = <<>>

Next ==
  \/ NextCall \/ Step
  \/ \E offset \in 0..Len(content) : Seek(offset)

Spec == Init /\ [][Next]_vars
-----------------------------------------------------------------------------
\* What the source ever hands over.
Input == IF err = "noprogress" THEN SubSeq(content, 1, pos) ELSE content

FirstRecordAt == IF origin = 0 THEN StartOf(Input) ELSE origin

(***************************************************************************)
(* The type invariant: buf keeps 0 <= r <= w <= len(data), the buffer never*)
(* outgrows the cap, and the resolved format is one of the five.           *)
(***************************************************************************)
TypeOK ==
  /\ pos \in 0..Len(content)
  /\ data \in Seq({"n", "q", "s", "d", "x", "b"}) /\ r \in 0..Len(data)
  /\ cap \in InitialBuffer..MaxRecord
  /\ Len(data) <= cap
  /\ err \in {"none", "EOF", "broken", "noprogress"}
  /\ atEOF \in BOOLEAN /\ skipping \in BOOLEAN /\ bomChecked \in BOOLEAN
  /\ format \in Formats \cup {"auto"}
  /\ perr \in {"none", "broken", "noprogress"}
  /\ pc \in Busy \cup {"idle", "ended"}

(***************************************************************************)
(* IFC-006: consumed is the stream position of the first buffered byte, so *)
(* the offset of a record is a true file position whatever was slid, grown *)
(* or skipped before it.                                                   *)
(***************************************************************************)
BufferMirrorsStream ==
  /\ consumed + Have = pos
  /\ Window = SubSeq(content, consumed + 1, pos)

(***************************************************************************)
(* The records are those of the input, each once, in order, at its offset, *)
(* however the source cuts its answers: only the size cap decides what is  *)
(* skipped (PERF-008, E18), and a stream that has ended was read to its    *)
(* end.                                                                    *)
(***************************************************************************)
RecordsAreThoseOfTheInput ==
  format # "auto" /\ pc \notin {"seekformat", "resync", "drop"} =>
    LET offsets == RecordOffsets(format, Input, FirstRecordAt, emitTail)
    IN /\ {out[i].offset : i \in 1..Len(out)} = {o \in offsets : o < consumed}
       /\ \A i, j \in 1..Len(out) : i < j => out[i].offset < out[j].offset
       /\ \A i \in 1..Len(out) :
            out[i].raw = TokenAt(format, Input, out[i].offset, emitTail)
       /\ pc = "ended" =>
            /\ consumed = Len(Input)
            /\ truncated = Skipped(format, Input, FirstRecordAt, emitTail)

(***************************************************************************)
(* IFC-003: a source that failed is not taken for one that ended.          *)
(* (The format is known.)                                                  *)
(***************************************************************************)
FailureIsReported ==
  pc = "ended" /\ format # "auto" /\ err # "EOF" => perr = err

(***************************************************************************)
(* Seek loses and repeats nothing: from wherever it lands the parser       *)
(* returns exactly the records of the whole input that begin at or after   *)
(* the offset asked for, be it a record start, the inside of a multi-line  *)
(* record, or any other byte.  (A run of blank lines as long as the peek   *)
(* of resync is taken for a record boundary, inside a quoted field too.)   *)
(***************************************************************************)
SeekKeepsEveryRecord ==
  pc \in {"idle", "read", "ended"} /\ sought > 0 /\ format = actual
  /\ err # "noprogress" /\ lines < MaxResyncLines
  /\ Regular(format, content, emitTail) /\ ~BlankRun(content) =>
    RecordOffsets(format, content, origin, emitTail) =
      {o \in RecordOffsets(format, content, StartOf(content), emitTail) : o >= sought}

(***************************************************************************)
(* Seek lands where Landing says, however the source cuts its answers,     *)
(* unless blank lines fill all that it looks at.                           *)
(***************************************************************************)
SeekLandsAtBoundary ==
  pc \in {"idle", "read", "ended"} /\ sought > 0 /\ format # "auto"
  /\ err # "noprogress" /\ ~BlankRun(content) => origin = Landing(content, sought)

\* What is left to do before the parser must return.
Weight(b) == IF b THEN 1 ELSE 0

WorkLeft ==
  4 * (Len(content) - consumed) + 2 * (Len(content) - pos)
  + Weight(~atEOF) + Weight(~bomChecked) + 2 * Weight(format = "auto")
  + Weight(pc = "resync")

(***************************************************************************)
(* Next and Seek return, whatever the source does: every step inside one   *)
(* of them leaves less work.  An over-long record, a source that fails and *)
(* one that answers with nothing (maxEmptyReads) are no exception.         *)
(***************************************************************************)
CallsReturn == [][(pc \in Busy /\ pc' \in Busy) => WorkLeft' < WorkLeft]_vars
=============================================================================
