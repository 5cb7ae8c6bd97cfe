------------------------------ MODULE StderrLog ------------------------------
(***************************************************************************)
(* The stderr log format (stderr.go): what the server writes of an entry,  *)
(* how lines are framed into records, and the fields a record is read      *)
(* into.  A line is a sequence of symbols, as in Prefix; a text of several *)
(* lines is a sequence of lines.                                           *)
(***************************************************************************)
EXTENDS Prefix

(***************************************************************************)
(* The server: log_line_prefix before every section of an entry, a tab     *)
(* before every further line of a section.  An entry is                    *)
(*   [session, fields, sections]                                           *)
(* where session tells a client backend from a background process, fields  *)
(* holds the values of the escapes, and the sections, [label, text], begin *)
(* with the message under its severity.                                    *)
(***************************************************************************)
Spaces(n) == [k \in 1..Max({n, 0}) |-> " "]

Padded(value, width) ==
  IF width > 0 THEN Spaces(width - Len(value)) \o value
  ELSE value \o Spaces(-width - Len(value))

\* The segments of a prefix that a process writes.
Written(t, entry) ==
  SubSeq(t, 1, IF entry.session THEN Len(t) ELSE OptionalFrom(t) - 1)

LogPrefix(t, entry) ==
  FoldLeft(LAMBDA line, seg :
             line \o (IF seg.esc \in {"", "q"} THEN seg.lit
                      ELSE Padded(entry.fields[FieldOf(seg.esc)], seg.width)),
           <<>>, Written(t, entry))

SectionLines(t, entry, section) ==
  [k \in DOMAIN section.text |->
     IF k > 1 THEN <<"\t">> \o section.text[k]
     ELSE LogPrefix(t, entry) \o <<section.label, ":", " ", " ">> \o section.text[1]]

LogLines(t, entry) ==
  FlattenSeq([k \in DOMAIN entry.sections |->
                SectionLines(t, entry, entry.sections[k])])
-----------------------------------------------------------------------------
(***************************************************************************)
(* Framing: a record is a line and the continuation lines after it.  split *)
(* is Config.SplitContinuations.                                           *)
(***************************************************************************)
\* scanPrefixOrAll: without a prefix all of the line remains.
MatchPrefix(t, line) ==
  IF t = NoPrefix THEN [NoMatch EXCEPT !.ok = TRUE] ELSE ScanPrefix(t, line)

Indented(line) == At(line, 1, Blanks)

\* Mutant: a labelled line with the prefix always begins a record.
IsContinuationLine_NoLabels(t, line, split) ==
  /\ line # <<>>
  /\ \/ Indented(line)
     \/ /\ t # NoPrefix
        /\ \E m \in {ScanPrefix(t, line)} : ~m.ok \/ ~SplitLabel(line, m.pos).ok

\* A line without the prefix or a label belongs to the record above, and so
\* does one whose label is no severity but a further section.
IsContinuationLine(t, line, split) ==
  /\ line # <<>>
  /\ \/ Indented(line)
     \/ /\ t # NoPrefix
        /\ \E m \in {ScanPrefix(t, line)} : \E l \in {SplitLabel(line, m.pos)} :
             ~m.ok \/ ~l.ok \/ (IsContinuation(l.label) /\ ~split)

\* Where the record that begins with line i ends.
RecordEnd(t, lines, i, split) ==
  LET stops == {j \in (i + 1)..Len(lines) : ~IsContinuationLine(t, lines[j], split)}
  IN IF stops = {} THEN Len(lines) + 1 ELSE Min(stops)
-----------------------------------------------------------------------------
(***************************************************************************)
(* parseStderrInto: the lines of a record in order, each opening a field   *)
(* or extending the open one.                                              *)
(***************************************************************************)
\* continuationTarget.
Target(label) ==
  CASE label = <<"DETAIL">> -> "detail"  [] label = <<"HINT">> -> "hint"
    [] label = <<"STATEMENT">> -> "statement"
    [] label = <<"QUERY">> -> "internal_query"
    [] label = <<"CONTEXT">> -> "context"

\* A line as match m of the prefix with label l, which opens a field.
Opened(m, l) ==
  LET open == IF IsContinuation(l.label) THEN Target(l.label) ELSE "message"
  IN [ok |-> m.ok, open |-> open,
      fields |-> [m.fields EXCEPT !.severity = l.label, ![open] = l.text]]

FirstLine(t, line) ==
  LET Labelled(m) == Opened(m, SplitLabel(line, m.pos))
  IN Labelled(MatchPrefix(t, line))

\* labelledContinuation
Continued(read, line, m, l) ==
  IF line # <<>> /\ ~Indented(line) /\ m.ok /\ IsContinuation(l.label)
  THEN [read EXCEPT !.open = Target(l.label),
                    !.fields[Target(l.label)] = l.text]
  ELSE [read EXCEPT !.fields[read.open] = @ \o <<"\n">> \o line]

FurtherLine(t, read, line) ==
  LET Labelled(m) == Continued(read, line, m, SplitLabel(line, m.pos))
  IN Labelled(MatchPrefix(t, line))

\* ok: does the first line match the prefix?  The statement is the query too.
WithQuery(read) ==
  [ok |-> read.ok,
   fields |-> [read.fields EXCEPT !.query = read.fields.statement]]

ParseStderr(t, record) ==
  WithQuery(FoldLeft(LAMBDA acc, line : FurtherLine(t, acc, line),
                     FirstLine(t, record[1]), Tail(record)))

\* scanRecordDuration: the milliseconds a message begins with, or -1.
DurationOf(fields) ==
  LET m == fields.message
      end == RunOf(m, 3, Digits)
  IN IF StandsAt(m, 1, <<"duration:", " ">>) /\ end > 3
     THEN NumberOf(Slice(m, 3, end)) ELSE -1
-----------------------------------------------------------------------------
(***************************************************************************)
(* What a log says, read off its entries: the reference for framing and    *)
(* parsing.                                                                *)
(***************************************************************************)
\* The text of a section, its lines joined the way the server wrote them.
Joined(text) ==
  FoldLeft(LAMBDA acc, line : acc \o <<"\n", "\t">> \o line, text[1], Tail(text))

PrefixValues(t, entry) ==
  LET named == {FieldOf(seg.esc) : seg \in {s \in ToSet(Written(t, entry)) :
                                              s.esc \notin {"", "q"}}}
  IN [f \in PrefixFields \cup TextFields |->
        IF f \in named THEN entry.fields[f] ELSE <<>>]

WithSection(fields, section) ==
  LET field == IF IsContinuation(<<section.label>>) THEN Target(<<section.label>>)
               ELSE "message"
      put == [fields EXCEPT ![field] = Joined(section.text)]
  IN [put EXCEPT !.query = put.statement]

\* The records of an entry: one, or one of every section.
RecordsOf(t, entry, split) ==
  LET Labelled(k) ==
        [PrefixValues(t, entry) EXCEPT !.severity = <<entry.sections[k].label>>]
  IN IF split
     THEN [k \in DOMAIN entry.sections |->
             WithSection(Labelled(k), entry.sections[k])]
     ELSE << FoldLeft(WithSection, Labelled(1), entry.sections) >>
=============================================================================
