------------------------------- MODULE Prefix -------------------------------
(***************************************************************************)
(* log_line_prefix (prefix.go, stderr.go, prefix_detect.go): compiled into *)
(* segments, matched against a line, and found out from the first lines of *)
(* a log when it is not configured.                                        *)
(*                                                                         *)
(* A line is a sequence of symbols: a byte, a word, a label, or a whole    *)
(* timestamp.  log_line_prefix itself is read byte by byte, with the words *)
(* between its escapes as symbols.  Positions count from 1.                *)
(***************************************************************************)
EXTENDS Integers, Sequences, FiniteSetsExt, SequencesExt

CONSTANTS
  DetectLines, \* Config.DetectLines
  MaxLabel     \* maxLabelBytes, in symbols

ASSUME PrefixAssumption == DetectLines \in Nat \ {0} /\ MaxLabel \in Nat \ {0}

Digits == {"0", "1", "2"}
HexDigits == Digits \cup {"a"}
Blanks == {" ", "\t"}

\* Timestamps without and with a fraction of a second.
WholeStamps == {"T1", "T2", "T3"}
FractionStamps == {"M1", "M2"}
Stamps == WholeStamps \cup FractionStamps

At(s, i, set) == i \in 1..Len(s) /\ s[i] \in set

\* The first position from i on whose symbol is not in set.
RunOf(s, i, set) ==
  LET stops == {j \in i..Len(s) : s[j] \notin set}
  IN IF stops = {} THEN Max({i, Len(s) + 1}) ELSE Min(stops)

Slice(s, i, end) == SubSeq(s, i, end - 1)

From(s, i) == SubSeq(s, i, Len(s))

\* Does text stand in s at i?
StandsAt(s, i, text) ==
  /\ i + Len(text) <= Len(s) + 1
  /\ \A k \in DOMAIN text : s[i + k - 1] = text[k]

\* The first position from i on where text stands, or 0.
IndexOf(s, i, text) ==
  LET places == {j \in i..(Len(s) + 1 - Len(text)) : StandsAt(s, j, text)}
  IN IF places = {} THEN 0 ELSE Min(places)

DigitValue(c) == CHOOSE n \in 0..2 : <<"0", "1", "2">>[n + 1] = c
NumberOf(digits) == FoldLeft(LAMBDA n, c : 10 * n + DigitValue(c), 0, digits)

TrimSpace(s) ==
  LET kept == {i \in 1..Len(s) : s[i] \notin Blanks}
  IN IF kept = {} THEN <<>> ELSE SubSeq(s, Min(kept), Max(kept))
-----------------------------------------------------------------------------
(***************************************************************************)
(* compilePrefix.  A segment is literal text or one escape; "bad" ends a   *)
(* prefix that does not compile.                                           *)
(***************************************************************************)
TextEscapes    == {"a", "u", "d", "r", "h", "b", "i"}
IntegerEscapes == {"p", "P", "l", "x", "Q"}
TimeEscapes    == {"m", "t", "s"}
KnownEscapes   == TextEscapes \cup IntegerEscapes \cup TimeEscapes
                  \cup {"n", "e", "c", "v"}

Literal(text)    == [esc |-> "", lit |-> text, width |-> 0]
Escape(c, width) == [esc |-> c, lit |-> <<>>, width |-> width]
Bad              == Escape("bad", 0)

\* The escape at j whose padding, left aligned if neg, has its digits from
\* first on.
EscapeAt(format, neg, first, j) ==
  LET width == NumberOf(Slice(format, first, j))
  IN IF j > Len(format) \/ (neg /\ j = first) THEN Bad
     ELSE IF format[j] = "%" THEN Literal(<<"%">>)
     ELSE IF format[j] = "q" THEN Escape("q", 0)
     ELSE IF format[j] \in KnownEscapes
     THEN Escape(format[j], IF neg THEN -width ELSE width)
     ELSE Bad

\* The segment that starts at i of a log_line_prefix, and where it ends.
SegmentAt(format, i) ==
  LET neg   == At(format, i + 1, {"-"})
      first == IF neg THEN i + 2 ELSE i + 1
      EscapedBy(j) == [seg |-> EscapeAt(format, neg, first, j), end |-> j + 1]
  IN IF format[i] # "%" \/ i = Len(format)
     THEN [seg |-> Literal(<<format[i]>>), end |-> i + 1]
     ELSE EscapedBy(RunOf(format, first, Digits))

\* Literal text that follows literal text is one segment with it.
Prepend(seg, segs) ==
  IF seg.esc = "bad" THEN <<Bad>>
  ELSE IF seg.esc = "" /\ segs # <<>> /\ segs[1].esc = ""
  THEN <<Literal(seg.lit \o segs[1].lit)>> \o Tail(segs)
  ELSE <<seg>> \o segs

Compile(format) ==
  LET segs[i \in 1..(Len(format) + 2)] ==
        IF i > Len(format) THEN <<>>
        ELSE LET at == SegmentAt(format, i)
             IN Prepend(at.seg, segs[at.end])
  IN segs[1]

Compiles(t) == \A i \in DOMAIN t : t[i].esc # "bad"

\* The segment of %q: what follows it is left out without a session.
OptionalFrom(t) ==
  LET marks == {i \in DOMAIN t : t[i].esc = "q"}
  IN IF marks = {} THEN Len(t) + 1 ELSE Max(marks)
-----------------------------------------------------------------------------
(***************************************************************************)
(* Matching a line.  The fields of a record, empty when not set.  Numbers  *)
(* stay as they are written.                                               *)
(***************************************************************************)
FieldOf(esc) ==
  CASE esc = "a" -> "app"        [] esc = "u" -> "user"
    [] esc = "d" -> "database"   [] esc \in {"r", "h"} -> "from"
    [] esc = "b" -> "backend"    [] esc = "i" -> "command"
    [] esc = "p" -> "pid"        [] esc = "P" -> "leader"
    [] esc = "l" -> "line"       [] esc = "x" -> "xid"
    [] esc = "Q" -> "queryid"    [] esc \in {"m", "t", "n"} -> "time"
    [] esc = "s" -> "start"      [] esc = "e" -> "state"
    [] esc = "c" -> "session"    [] esc = "v" -> "vxid"

PrefixFields == {FieldOf(esc) : esc \in KnownEscapes}
TextFields == {"severity", "message", "detail", "hint", "statement", "query",
               "internal_query", "context"}
NoFields == [f \in PrefixFields \cup TextFields |-> <<>>]

NoMatch == [ok |-> FALSE, pos |-> 1, fields |-> NoFields]

\* Two runs joined by sep: a session id, a virtual transaction id, an epoch.
PairEnd(s, i, set, sep) ==
  LET j == RunOf(s, i, set)
      k == RunOf(s, j + 1, set)
  IN IF j > i /\ At(s, j, {sep}) /\ k > j + 1 THEN k ELSE 0

\* Free text: up to the next literal, or to a space when an escape or nothing
\* follows; 0 when the literal is not there.
TextEnd(t, i, to, s, start) ==
  LET next == {j \in (i + 1)..to : t[j].esc # "q"}
      space == IndexOf(s, start, <<" ">>)
  IN IF next # {} /\ t[Min(next)].esc = ""
     THEN IndexOf(s, start, t[Min(next)].lit)
     ELSE IF space = 0 THEN Len(s) + 1 ELSE space

\* Where the value of segment i ends that starts at start; 0: it is none.
ValueEnd(t, i, to, s, start) ==
  LET esc == t[i].esc
      digits == RunOf(s, start, Digits)
  IN CASE esc \in TimeEscapes -> IF At(s, start, Stamps) THEN start + 1 ELSE 0
       [] esc \in IntegerEscapes -> IF digits > start THEN digits ELSE 0
       [] esc = "n" -> IF At(s, digits, {"."}) \/ digits = start
                       THEN PairEnd(s, start, Digits, ".") ELSE digits
       [] esc = "e" -> IF start <= Len(s) THEN start + 1 ELSE 0
       [] esc = "c" -> PairEnd(s, start, HexDigits, ".")
       [] esc = "v" -> PairEnd(s, start, Digits, "/")
       [] esc \in TextEscapes -> TextEnd(t, i, to, s, start)

\* The value from start to end assigned; padding is not part of it.
Assign(seg, s, m, start, end) ==
  LET value == Slice(s, start, end)
      fill  == IF seg.width < 0
               THEN Min({RunOf(s, end, {" "}), Max({end, start - seg.width})})
               ELSE end
  IN IF end = 0 THEN NoMatch
     ELSE [m EXCEPT !.pos = fill,
                    !.fields[FieldOf(seg.esc)] =
                      IF seg.width # 0 THEN TrimSpace(value) ELSE value]

MatchValue(t, i, to, s, m, start) ==
  Assign(t[i], s, m, start, ValueEnd(t, i, to, s, start))

\* Segment i matched at m.pos.
MatchSegment(t, i, to, s, m) ==
  IF ~m.ok \/ t[i].esc = "q" THEN m
  ELSE IF t[i].esc # ""
  THEN MatchValue(t, i, to, s, m,
                  IF t[i].width > 0 THEN RunOf(s, m.pos, {" "}) ELSE m.pos)
  ELSE IF StandsAt(s, m.pos, t[i].lit) THEN [m EXCEPT !.pos = @ + Len(t[i].lit)]
  ELSE NoMatch

ScanSegments(t, from, to, s, m) ==
  FoldLeft(LAMBDA acc, i : MatchSegment(t, i, to, s, acc), m,
           [k \in 1..Max({to + 1 - from, 0}) |-> from + k - 1])

\* What follows %q is there if it matches.
WholeOrHead(head, whole) == IF head.ok /\ whole.ok THEN whole ELSE head

ScanOptional(t, s, head) ==
  WholeOrHead(head, ScanSegments(t, OptionalFrom(t) + 1, Len(t), s, head))

ScanPrefix(t, s) ==
  ScanOptional(t, s, ScanSegments(t, 1, OptionalFrom(t) - 1, s,
                                  [NoMatch EXCEPT !.ok = TRUE]))

\* A single word before ":" among the first symbols after the prefix.
SplitLabel(s, pos) ==
  LET colon == IndexOf(SubSeq(s, 1, Min({Len(s), pos + MaxLabel - 1})), pos, <<":">>)
      label == Slice(s, pos, colon)
  IN IF colon <= pos \/ \E k \in DOMAIN label : label[k] = " "
     THEN [ok |-> FALSE, label |-> <<>>, text |-> From(s, pos)]
     ELSE [ok |-> TRUE, label |-> label,
           text |-> From(s, RunOf(s, colon + 1, Blanks))]

ContinuationLabels == {"DETAIL", "HINT", "STATEMENT", "QUERY", "CONTEXT"}
IsContinuation(label) == \E c \in ContinuationLabels : label = <<c>>

\* The severities of the messages language, least serious first.
SeverityOrder == <<"LOG", "WARNING", "ERROR", "FATAL">>
Severity(label) ==
  Max({0} \cup {i \in DOMAIN SeverityOrder : label = <<SeverityOrder[i]>>})
LabelIsKnown(label) == Severity(label) > 0 \/ IsContinuation(label)
-----------------------------------------------------------------------------
(***************************************************************************)
(* detectPrefix.                                                           *)
(***************************************************************************)
\* Mutant: a value may be anything the delimiters leave.
Plausible_Always(fields) == TRUE

\* matchIsPlausible: names without blanks and brackets.
Plausible(fields) ==
  /\ \A f \in {"user", "database"} : \A i \in DOMAIN fields[f] :
       fields[f][i] \notin {" ", "[", "]"}
  /\ \A f \in {"app", "backend", "command", "session", "vxid"} :
       \A i \in DOMAIN fields[f] : fields[f][i] \notin {"[", "]"}

\* Match m of a line has a known label after it.
IsLabelled(m, label) == m.ok /\ label.ok /\ LabelIsKnown(label.label)

Explained(m, sample) ==
  {k \in DOMAIN sample :
     Plausible(m[k].fields) /\ IsLabelled(m[k], SplitLabel(sample[k], m[k].pos))}

\* scorePrefix: the lines a template explains, and how much of them.
ScoreOf(m, explained) ==
  IF 2 * Cardinality(explained) <= Len(m) THEN [lines |-> 0, symbols |-> 0]
  ELSE [lines |-> Cardinality(explained),
        symbols |-> MapThenSumSet(LAMBDA k : m[k].pos - 1, explained)]

MatchesScore(m, sample) == ScoreOf(m, Explained(m, sample))

Score(t, sample) ==
  MatchesScore([k \in DOMAIN sample |-> ScanPrefix(t, sample[k])], sample)

\* The escape whose form the first timestamp of the sample has.
ObservedStamp(sample) ==
  LET stamped == {k \in DOMAIN sample : At(sample[k], 1, Stamps)}
  IN IF stamped = {} THEN "" ELSE
     IF sample[Min(stamped)][1] \in FractionStamps THEN "m" ELSE "t"

UsesOtherStamp(format, stamp) ==
  /\ stamp # ""
  /\ IndexOf(format, 1, <<"%", IF stamp = "t" THEN "m" ELSE "t">>) > 0

\* The prefixes PostgreSQL and the distributions ship.
Candidates == <<
  <<"%", "m", " ", "[", "%", "p", "-", "%", "l", "]", " ",
    "%", "q", "%", "u", "@", "%", "d", " ">>,
  <<"%", "m", " ", "[", "%", "p", "]", " ", "%", "q", "%", "u", "@", "%", "d", " ">>,
  <<"%", "t", " ", "[", "%", "p", "-", "%", "l", "]", " ",
    "%", "q", "%", "u", "@", "%", "d", " ">>,
  <<"%", "t", " ", "[", "%", "p", "]", ":", " ", "[", "%", "l", "-", "1", "]", " ",
    "user=", "%", "u", ",", "db=", "%", "d", ",", "app=", "%", "a", ",",
    "client=", "%", "h", " ">>,
  <<"%", "t", " ", "[", "%", "p", "]", ":", " ",
    "user=", "%", "u", ",", "db=", "%", "d", ",", "app=", "%", "a", ",",
    "client=", "%", "h", " ">>,
  <<"%", "m", " ", "[", "%", "p", "]", " ",
    "%", "q", "%", "u", "@", "%", "d", " ", "%", "a", " ">>,
  <<"%", "m", " ", "[", "%", "p", "]", " ",
    "%", "q", "%", "u", "@", "%", "d", " ", "%", "r", " ">>,
  <<"%", "m", " ", "[", "%", "p", "-", "%", "l", "]", " ">>,
  <<"%", "t", " ", "[", "%", "p", "-", "%", "l", "]", " ">>,
  <<"%", "m", " ", "[", "%", "p", "]", ":", " ">>,
  <<"%", "t", " ", "[", "%", "p", "]", ":", " ">>,
  <<"%", "m", " ", "[", "%", "p", "]", " ">>,
  <<"%", "t", " ", "[", "%", "p", "]", " ">>,
  <<"%", "m", " ", "%", "q", "%", "u", "@", "%", "d", " ">>,
  <<"%", "t", " ", "%", "q", "%", "u", "@", "%", "d", " ">>,
  <<"%", "p", " ">>, <<"%", "m", " ">>, <<"%", "t", " ">> >>

CompiledCandidates == [k \in DOMAIN Candidates |-> Compile(Candidates[k])]

\* No prefix: a segment list no log_line_prefix compiles to.
NoPrefix == <<Escape("none", 0)>>

Nobody == [t |-> NoPrefix, score |-> [lines |-> 0, symbols |-> 0]]

\* Is b a better choice than a?  Of equal ones the first stays.
Better(a, b) ==
  \/ b.score.lines > a.score.lines
  \/ /\ b.score.lines = a.score.lines /\ b.score.lines > 0
     /\ \/ b.score.symbols > a.score.symbols
        \/ b.score.symbols = a.score.symbols /\ Len(b.t) < Len(a.t)

\* The part of a line before the word of its first "WORD: ".
PrefixRegion(s) ==
  LET start(i) == Max({0} \cup {j \in 1..i : s[j] \in Blanks})
      colons == {i \in 1..(Len(s) - 1) :
                   s[i] = ":" /\ s[i + 1] \in Blanks /\ start(i) > 0}
  IN IF colons = {} THEN <<>> ELSE SubSeq(s, 1, start(Min(colons)))

\* A region as a log_line_prefix.
Describe(region) ==
  LET from[i \in 1..(Len(region) + 1)] ==
        IF i > Len(region) THEN <<>>
        ELSE IF region[i] \in FractionStamps THEN <<"%", "m">> \o from[i + 1]
        ELSE IF region[i] \in WholeStamps THEN <<"%", "t">> \o from[i + 1]
        ELSE IF region[i] \in Digits
        THEN <<"%", "p">> \o from[RunOf(region, i, Digits)]
        ELSE IF region[i] = "%" THEN <<"%", "%">> \o from[i + 1]
        ELSE <<region[i]>> \o from[i + 1]
  IN from[1]

HasValue(region) == \E i \in DOMAIN region : region[i] \in Stamps \cup Digits

\* The templates that the regions of the sample make.
Proposals(regions) ==
  [k \in DOMAIN regions |->
     IF HasValue(regions[k]) THEN Compile(Describe(regions[k])) ELSE <<Bad>>]

Fitting(templates, sample) ==
  SelectSeq(templates, LAMBDA t : Compiles(t) /\ Score(t, sample).lines > 0)

FirstOf(templates) == IF templates = <<>> THEN NoPrefix ELSE templates[1]

Reconstruct(sample) ==
  FirstOf(Fitting(Proposals([k \in DOMAIN sample |-> PrefixRegion(sample[k])]), sample))

Scored(t, sample) == [t |-> t, score |-> Score(t, sample)]
BetterOf(a, b) == IF Better(a, b) THEN b ELSE a

\* Of the candidates with timestamps of the form observed, the best.
BestOf(sample, stamp) ==
  FoldLeft(LAMBDA best, k :
             IF UsesOtherStamp(Candidates[k], stamp) THEN best
             ELSE BetterOf(best, Scored(CompiledCandidates[k], sample)),
           Nobody, [k \in DOMAIN Candidates |-> k])

Settled(best, sample) == IF best # Nobody THEN best.t ELSE Reconstruct(sample)

DetectIn(sample) == Settled(BestOf(sample, ObservedStamp(sample)), sample)

\* lines are whole and not empty.
DetectPrefix(lines) == DetectIn(SubSeq(lines, 1, Min({DetectLines, Len(lines)})))
=============================================================================
