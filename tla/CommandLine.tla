----------------------------- MODULE CommandLine -----------------------------
(***************************************************************************)
(* One run of cmd/pglogwatch over stderr logs: the inputs are opened one   *)
(* after the other, each is read by a parser of its own, every record in   *)
(* the time window goes to the command's handler, and the report is        *)
(* written at the end (main.go, options.go, cmd_*.go, topk.go).            *)
(*                                                                         *)
(* stats is the serial scan here; its workers are ParallelScan.            *)
(***************************************************************************)
EXTENDS Reports, TopK

CONSTANT Jobs \* bound: the command lines and the logs, in families

VARIABLES
  job,      \* the command, its options and its inputs
  opened,   \* how many inputs were opened
  reading,  \* is the last of them being read?
  template, \* the prefix its parser uses
  rest,     \* the lines of it not yet read
  counts,   \* what was counted, a bag
  counters, \* [name -> counter]
  events,   \* the records kept by the system command
  number,   \* recordNo of grep, the records of parse
  ring,     \* numbers of the last records without a hit, at most -B
  pending,  \* trailing context still owed
  shown,    \* the records written: [number, hit]
  report,   \* the groups written at the end: [name -> keys]
  exit,     \* the exit code, Running before
  \* history
  parsed,   \* the records of the inputs: [input, fields]
  malformed, \* the inputs of the records that were not read
  hits      \* the numbers of the records that grep found

parser  == <<opened, reading, template, rest>>
tally   == <<counts, counters, events>>
search  == <<number, ring, pending, shown>>
history == <<parsed, malformed, hits>>
vars    == <<job, parser, tally, search, report, exit, history>>

Running == -1
Detected == <<"detect">> \* --line-prefix is not given

Commands == {"parse", "stats", "errors", "slow", "locks", "connections",
             "peaks", "system", "grep"}
CounterNames == {"message", "state", "statement", "slowest", "database",
                 "target", "user", "app", "client"}

\* An input is a file that is there, is missing or cannot be opened, with what
\* a server logged to it.
Inputs ==
  [state : {"ok", "missing", "unreadable"}, written : Seq(STRING),
   head : {"", "torn", "blank"},
   entries : Seq([session : BOOLEAN, fields : [PrefixFields -> Seq(STRING)],
                  sections : Seq([label : STRING, text : Seq(Seq(STRING))])])]

\* normalize: --top is 10 unless it is positive.  A negative -A or -B works as
\* 0, and without a path there is one input, the standard input.
IsJob(j) ==
  /\ j.command \in Commands
  /\ j.inputs \in Seq(Inputs) /\ j.inputs # <<>>
  /\ j.top \in Nat \ {0} /\ j.before \in Nat /\ j.after \in Nat

ASSUME JobsAssumption == \A family \in Jobs : \A j \in family : IsJob(j)
-----------------------------------------------------------------------------
(***************************************************************************)
(* The inputs.  A log is written under one log_line_prefix; rotation may   *)
(* have cut off its first line, or left a blank one before it.             *)
(***************************************************************************)
LinesOf(input) ==
  LET t == Compile(input.written)
      whole == FlattenSeq([k \in DOMAIN input.entries |->
                             LogLines(t, input.entries[k])])
  IN CASE input.head = "torn" -> Tail(whole)
       [] input.head = "blank" -> <<<<>>>> \o whole
       [] OTHER -> whole

BadPrefix == job.prefix # Detected /\ ~Compiles(Compile(job.prefix))

\* ensureFormat.  What is not configured is found out from the lines.
ChosenTemplate(lines) ==
  IF job.prefix = Detected
  THEN DetectPrefix(SelectSeq(lines, LAMBDA line : line # <<>>))
  ELSE Compile(job.prefix)

\* The error of the parser at the end: a prefix that does not compile, or a
\* source that fails; the latter is taken for an empty log while the format
\* is still to be detected.
ParserFails ==
  \/ BadPrefix
  \/ job.inputs[opened].state = "unreadable" /\ job.format # "auto"

\* eachRecordWithFormat: the next input, if all of them exist.
AllExist == \A i \in DOMAIN job.inputs : job.inputs[i].state # "missing"

OpenNext ==
  /\ exit = Running /\ ~reading /\ AllExist
  /\ opened < Len(job.inputs)
  /\ opened' = opened + 1
  /\ reading' = TRUE
  /\ \E lines \in {IF job.inputs[opened + 1].state = "unreadable" \/ BadPrefix
                   THEN <<>> ELSE LinesOf(job.inputs[opened + 1])} :
       /\ rest' = lines
       /\ template' = IF BadPrefix THEN NoPrefix ELSE ChosenTemplate(lines)
  /\ UNCHANGED <<job, tally, search, report, exit, history>>

NoInputMatched ==
  /\ exit = Running /\ opened = 0 /\ ~AllExist
  /\ exit' = 2
  /\ UNCHANGED <<job, parser, tally, search, report, history>>
-----------------------------------------------------------------------------
(***************************************************************************)
(* The handlers of the commands.                                           *)
(***************************************************************************)
CountingCommands == Commands \ {"parse", "grep", "system"}

Handled(fields) ==
  CASE job.command = "stats" -> OnStats(fields)
    [] job.command = "errors" -> OnErrors(fields)
    [] job.command = "slow" -> OnSlow(job, fields)
    [] job.command = "locks" -> OnLocks(fields)
    [] job.command = "connections" -> OnConnections(fields)
    [] job.command = "peaks" -> OnPeaks(job, fields)
    [] job.command = "system" -> OnSystem(fields)

\* What the counters may be after the additions; they are one per counter.
AfterAdding(keyed) ==
  LET May(k) == Added(counters[k.counter], k.key, k.value, Limit(job.top))
      For(name) == {k \in keyed : k.counter = name}
  IN {[name \in CounterNames |-> IF For(name) = {} THEN counters[name]
                                 ELSE left[CHOOSE k \in For(name) : TRUE]] :
      left \in {f \in [keyed -> UNION {May(k) : k \in keyed}] :
                 \A k \in keyed : f[k] \in May(k)}}

Count(fields) ==
  /\ job.command \in CountingCommands
  /\ counts' = counts (+) Handled(fields).counted
  /\ counters' \in AfterAdding(Handled(fields).keyed)
  /\ UNCHANGED <<events, search, hits>>

\* runSystem
Keep(fields) ==
  /\ job.command = "system"
  /\ counts' = counts (+) Handled(fields).counted
  /\ events' = IF IsSystemEvent(fields) /\ Len(events) < Limit(job.top)
               THEN Append(events, fields) ELSE events
  /\ UNCHANGED <<counters, search, hits>>

\* The i-th smallest of a set of numbers.
Nth(S, i) == CHOOSE k \in S : Cardinality({m \in S : m <= k}) = i

\* emit: once for every number.
Emit(lines) ==
  LET fresh == {k \in DOMAIN lines :
                  \A j \in DOMAIN shown : shown[j].number # lines[k].number}
  IN shown' = shown \o [i \in 1..Cardinality(fresh) |-> lines[Nth(fresh, i)]]

Shown(record, n, hit) == [record |-> record, number |-> n, hit |-> hit]

\* runParse
Write ==
  /\ job.command = "parse"
  /\ number' = number + 1
  /\ shown' = Append(shown, Shown(number', number', FALSE))
  /\ UNCHANGED <<tally, ring, pending, hits>>

\* runGrep: a record is searched as it stands in the log.
IsHit(record) ==
  (\E k \in DOMAIN record : job.pattern \in ToSet(record[k])) # job.invert

\* The records of the ring are numbered backwards from the record at hand.
LeadingContext(n) ==
  [i \in DOMAIN ring |-> Shown(ring[i], n - (Len(ring) + 1 - i), FALSE)]

\* Mutant: a hit within the trailing context does not renew it.
ShowHit_KeepsPending(n) ==
  /\ Emit(LeadingContext(n) \o <<Shown(n, n, TRUE)>>)
  /\ ring' = <<>>
  /\ pending' = IF pending > 0 THEN pending ELSE job.after

ShowHit(n) ==
  /\ Emit(LeadingContext(n) \o <<Shown(n, n, TRUE)>>)
  /\ ring' = <<>>
  /\ pending' = job.after

ShowTrailing(n) ==
  /\ Emit(<<Shown(n, n, FALSE)>>)
  /\ pending' = pending - 1
  /\ UNCHANGED ring

\* Mutant: the ring is never full.
Remember_Unbounded(n) ==
  /\ ring' = IF job.before = 0 THEN ring ELSE Append(ring, n)
  /\ UNCHANGED <<pending, shown>>

\* A ring of the last records.
Remember(n) ==
  /\ ring' = IF job.before = 0 THEN ring
             ELSE Append(IF Len(ring) = job.before THEN Tail(ring) ELSE ring, n)
  /\ UNCHANGED <<pending, shown>>

Search(record) ==
  /\ job.command = "grep"
  /\ number' = number + 1
  /\ hits' = hits \cup {n \in {number'} : IsHit(record)}
  /\ \/ IsHit(record) /\ ShowHit(number')
     \/ ~IsHit(record) /\ pending > 0 /\ ShowTrailing(number')
     \/ ~IsHit(record) /\ pending = 0 /\ Remember(number')
  /\ UNCHANGED tally

Handle(fields, record) ==
  Count(fields) \/ Keep(fields) \/ Write \/ Search(record)
-----------------------------------------------------------------------------
SkipBlank ==
  /\ exit = Running /\ reading /\ rest # <<>>
  /\ rest[1] = <<>>
  /\ rest' = Tail(rest)
  /\ UNCHANGED <<job, opened, reading, template, tally, search, report, exit, history>>

\* The next record: one whose first line has not the prefix is counted as
\* malformed and passed over.
ReadRecord ==
  /\ exit = Running /\ reading /\ rest # <<>>
  /\ rest[1] # <<>>
  /\ \E end \in {RecordEnd(template, rest, 1, job.split)} :
     \E read \in {ParseStderr(template, SubSeq(rest, 1, end - 1))} :
       /\ rest' = SubSeq(rest, end, Len(rest))
       /\ \/ /\ ~read.ok
             /\ malformed' = Append(malformed, opened)
             /\ UNCHANGED <<tally, search, parsed, hits>>
          \/ /\ read.ok
             /\ parsed' = Append(parsed, [input |-> opened, fields |-> read.fields])
             /\ \/ /\ InRange(job, read.fields)
                   /\ Handle(read.fields, SubSeq(rest, 1, end - 1))
                \/ ~InRange(job, read.fields) /\ UNCHANGED <<tally, search, hits>>
             /\ UNCHANGED malformed
  /\ UNCHANGED <<job, opened, reading, template, report, exit>>

\* Mutant: the error of the parser is not looked at.
EndOfInput_Silent ==
  /\ exit = Running /\ reading /\ rest = <<>>
  /\ reading' = FALSE
  /\ UNCHANGED <<job, opened, template, rest, tally, search, report, exit, history>>

\* p.Err after the last record.
EndOfInput ==
  /\ exit = Running /\ reading /\ rest = <<>>
  /\ reading' = FALSE
  /\ exit' = IF ParserFails THEN 1 ELSE Running
  /\ UNCHANGED <<job, opened, template, rest, tally, search, report, history>>

\* The groups a report shows: by count, but slow ranks by time; peaks shows
\* its buckets.
Buckets == {n[2] : n \in {m \in DOMAIN counts : m[1] = "records"}}

Ranked(name) ==
  CASE name = "slowest" -> BySlowest(counters[name], job.top)
    [] name = "statement" -> ByTotal(counters[name], job.top)
    [] name = "bucket" ->
         Foremost(Buckets, job.top, LAMBDA b : counts[<<"records", b>>])
    [] OTHER -> Top(counters[name], job.top)

\* The parts of the report that have something to show.
Sections ==
  {name \in CounterNames : Keys(counters[name]) # {}}
    \cup {name \in {"bucket"} : Buckets # {}}

NothingReported == [name \in CounterNames \cup {"bucket"} |-> {}]

Report ==
  /\ exit = Running /\ ~reading /\ AllExist
  /\ opened = Len(job.inputs)
  /\ exit' = 0
  /\ report' \in FoldSet(LAMBDA name, all :
                          UNION {{[r EXCEPT ![name] = keys] : keys \in Ranked(name)} :
                                 r \in all},
                        {NothingReported}, Sections)
  /\ events' = SubSeq(events, 1, Min({Len(events), job.top}))
  /\ UNCHANGED <<job, parser, counts, counters, search, history>>
-----------------------------------------------------------------------------
Init ==
  /\ \E family \in Jobs : job \in family
  /\ opened = 0 /\ reading = FALSE /\ template = NoPrefix /\ rest = <<>>
  /\ counts = EmptyBag
  /\ counters = [name \in CounterNames |-> NewCounter]
  /\ events = <<>>
  /\ number = 0 /\ ring = <<>> /\ pending = 0 /\ shown = <<>>
  /\ report = NothingReported
  /\ exit = Running
  /\ parsed = <<>> /\ malformed = <<>> /\ hits = {}

Next == \/ NoInputMatched \/ OpenNext \/ SkipBlank \/ ReadRecord
        \/ EndOfInput \/ Report

Spec == Init /\ [][Next]_vars
-----------------------------------------------------------------------------
(***************************************************************************)
(* What the inputs hold, read off the entries of the server.               *)
(***************************************************************************)
EntriesOf(input) ==
  IF input.head = "torn" THEN Tail(input.entries) ELSE input.entries

TruthOf(input) ==
  LET t == Compile(input.written)
  IN FlattenSeq([k \in DOMAIN EntriesOf(input) |->
                   RecordsOf(t, EntriesOf(input)[k], job.split)])

SymbolsOf(entry) ==
  UNION {UNION {ToSet(section.text[k]) : k \in DOMAIN section.text} :
         section \in ToSet(entry.sections)}

\* The values a prefix shows end where its next literal, or a blank, begins.
ValuesEnd(t, entry) ==
  \A i \in DOMAIN Written(t, entry) : t[i].esc \in TextEscapes =>
    LET value == entry.fields[FieldOf(t[i].esc)]
        stop == IF i < Len(t) /\ t[i + 1].esc = "" THEN t[i + 1].lit ELSE <<" ">>
    IN IndexOf(value, 1, stop) = 0

\* A log of which each line tells what wrote it: no text of a background
\* process reads like the part of the prefix that it leaves out.
IsUnambiguous(input) ==
  LET t == Compile(input.written)
  IN \A entry \in ToSet(input.entries) :
       /\ ValuesEnd(t, entry)
       /\ ~entry.session => "@" \notin SymbolsOf(entry)

\* The first lines of a log show its prefix: most begin a section with a label
\* that is known, and one was written by a client backend.
ShowsPrefix(input) ==
  LET t == Compile(input.written)
      Labels(line) == \E m \in {ScanPrefix(t, line)} :
                        m.ok /\ LabelIsKnown(SplitLabel(line, m.pos).label)
      FromSession(line) == \E entry \in ToSet(input.entries) :
                             entry.session /\ StandsAt(line, 1, LogPrefix(t, entry))
  IN \E lines \in {SelectSeq(LinesOf(input), LAMBDA line : line # <<>>)} :
     \E sample \in {SubSeq(lines, 1, Min({DetectLines, Len(lines)}))} :
     \E labelled \in {{k \in DOMAIN sample : Labels(sample[k])}} :
       /\ 2 * Cardinality(labelled) > Len(sample)
       /\ \E k \in labelled : FromSession(sample[k])

\* A prefix made of timestamps, one number and fixed text can be rebuilt.
CanBeRebuilt(input) ==
  LET t == Compile(input.written)
  IN \A i \in DOMAIN t :
       /\ t[i].esc \in {"", "m", "t", "p"} \cup TextEscapes
       /\ t[i].esc \in TextEscapes =>
            \A e, f \in ToSet(input.entries) :
              e.fields[FieldOf(t[i].esc)] = f.fields[FieldOf(t[i].esc)]

PrefixIsShipped(input) == input.written \in ToSet(Candidates)

IsLegible(input) ==
  /\ input.state = "ok" /\ IsUnambiguous(input)
  /\ \/ job.prefix = input.written /\ Compiles(Compile(job.prefix))
     \/ /\ job.prefix = Detected /\ ShowsPrefix(input)
        /\ PrefixIsShipped(input) \/ CanBeRebuilt(input)

\* With a prefix that was rebuilt the values in it are not told apart.
Readable(input, fields) ==
  IF job.prefix = Detected /\ ~PrefixIsShipped(input)
  THEN [f \in TextFields |-> fields[f]] ELSE fields

ParsedOf(i) ==
  LET own == SelectSeq(parsed, LAMBDA p : p.input = i)
  IN [k \in DOMAIN own |-> own[k].fields]

\* What is left of a torn entry may be records of its further sections.
WithoutFragment(input, records) ==
  LET whole == {k \in DOMAIN records : ~IsContinuation(records[k].severity)}
  IN IF input.head # "torn" THEN records
     ELSE IF whole = {} THEN <<>>
     ELSE SubSeq(records, Min(whole), Len(records))
-----------------------------------------------------------------------------
(***************************************************************************)
(* Properties.                                                             *)
(***************************************************************************)
\* The records that a command was given.
Read == {k \in DOMAIN parsed : InRange(job, parsed[k].fields)}

\* The totals there are, whatever is read (severityOrder, kind).
Totals ==
  {"total", "count", "undated", "failure", "unrecognised", "temp bytes"}
    \cup {SeverityOrder[i] : i \in DOMAIN SeverityOrder}
    \cup {"deadlock", "lock wait", "system", "connection", "disconnection",
          "checkpoint", "autovacuum", "temp file", "conflict", "slow", "other"}

\* The emitted map of runGrep has a number for each record written; the
\* buckets of runPeaks are those in which a record was written to the log.
Emitted == {shown[k].number : k \in DOMAIN shown}
BucketsRead ==
  {"records", "problems", "slow"}
    \X {TimeOf(parsed[k].fields) \div job.bucket : k \in Read}

\* What a command keeps while it reads.  However long the inputs are, the ring of
\* grep stays within -B, the events of system and the groups of a counter within
\* --top, unless the empty key is among them, which is never given up; and the
\* totals are a fixed set.  Two things grow with the inputs, where PERF-026 asks
\* for O(1): the emitted map of grep with its hits, by 1 + -B + -A for each at
\* most, and the buckets of peaks with the time the records cover.
WithinBounds ==
  /\ Len(ring) <= job.before /\ pending <= job.after
  /\ Len(events) <= Limit(job.top)
  /\ \A name \in CounterNames :
       NoKey \notin Keys(counters[name]) => Cardinality(Keys(counters[name])) <= Limit(job.top)
  /\ DOMAIN counts \subseteq
       {<<n>> : n \in Totals} \cup {b \in BucketsRead : job.command = "peaks"}
  /\ job.command = "grep" =>
       Cardinality(Emitted) + pending <= Cardinality(hits) * (1 + job.before + job.after)

\* The type invariant, with what each command keeps.
TypeOK ==
  /\ job.command \in Commands
  /\ opened \in 0..Len(job.inputs) /\ reading \in BOOLEAN
  /\ IsABag(counts)
  /\ \A name \in CounterNames : IsCounter(counters[name])
  /\ number \in Nat /\ pending \in Nat
  /\ ring \in Seq(1..number) /\ hits \subseteq 1..number
  /\ exit \in {Running, 0, 1, 2}
  /\ WithinBounds

\* The records of a whole run, in order.
ExactlyKnown ==
  \A i \in DOMAIN job.inputs :
    /\ IsLegible(job.inputs[i]) /\ job.inputs[i].head # "torn"
    /\ job.prefix = Detected => PrefixIsShipped(job.inputs[i])

Due == SelectSeq(FlattenSeq([i \in DOMAIN job.inputs |-> TruthOf(job.inputs[i])]),
                 LAMBDA fields : InRange(job, fields))

\* What a counting command counts of them.
TotalsOfRun ==
  FoldLeft(LAMBDA bag, fields : bag (+) Handled(fields).counted, EmptyBag, Due)

\* The entries that grep goes through, and those it finds: one of their lines
\* has the pattern, of whatever section it is.
EntriesInRange ==
  SelectSeq(FlattenSeq([i \in DOMAIN job.inputs |-> job.inputs[i].entries]),
            LAMBDA entry : InRange(job, entry.fields))
Matching(entries) ==
  {n \in DOMAIN entries :
     (\E line \in ToSet(LogLines(Compile(job.prefix), entries[n])) :
        job.pattern \in ToSet(line)) # job.invert}

\* What the server logged is what is read (FMT-003, FMT-004, FMT-006): one
\* record of each entry, or of each section, in order, with its texts whole and
\* the values of its prefix, whether the prefix is configured or found out.  A
\* first entry that was cut costs one malformed record and no other.  The totals
\* of a whole run are those of its entries, and so are the matches of grep.
RecordsAreWhatTheServerLogged ==
  /\ opened > 0 /\ ~reading /\ exit = Running /\ IsLegible(job.inputs[opened]) =>
       LET input == job.inputs[opened]
           got == WithoutFragment(input, ParsedOf(opened))
           due == TruthOf(input)
       IN /\ Len(got) = Len(due)
          /\ \A k \in DOMAIN got : Readable(input, got[k]) = Readable(input, due[k])
          /\ Len(SelectSeq(malformed, LAMBDA i : i = opened))
               <= IF input.head = "torn" THEN 1 ELSE 0
  /\ exit = 0 /\ ExactlyKnown =>
       /\ job.command \in CountingCommands \cup {"system"} => counts = TotalsOfRun
       /\ job.command = "grep" /\ job.prefix # Detected =>
            number = Len(EntriesInRange) /\ hits = Matching(EntriesInRange)

\* The records of which one thing was counted, of which one group was added to,
\* and the values that were added.
Noting(note) == {k \in Read : BagIn(note, Handled(parsed[k].fields).counted)}
AddsTo(k, name, key) ==
  {a \in Handled(parsed[k].fields).keyed : a.counter = name /\ a.key = key}
Adding(name, key) == {k \in Read : AddsTo(k, name, key) # {}}
ValuesAdded(name, key) == {a.value : a \in UNION {AddsTo(k, name, key) : k \in Read}}

Bytes == <<"temp bytes">> \* the one total that is no number of records

\* A report counts what was read (PERF-028).  Totals are exact; a counter that
\* gave up no group is exact, with every group; one that did never counts more
\* than there was, nor a value that was not.
CountsAreHonest ==
  job.command \in CountingCommands \cup {"system"} =>
    LET made == [k \in Read |-> Handled(parsed[k].fields)]
        notes == DOMAIN counts \cup UNION {DOMAIN made[k].counted : k \in Read}
        added == UNION {made[k].keyed : k \in Read}
    IN /\ \A note \in notes \ {Bytes} :
            BagIn(note, counts) /\ counts[note] = Cardinality(Noting(note))
       /\ \A name \in CounterNames : LET c == counters[name] IN
            /\ c.dropped = 0 => \A a \in added : a.counter = name => a.key \in Keys(c)
            /\ \A key \in Keys(c) :
                 /\ c.groups[key].count <= Cardinality(Adding(name, key))
                 /\ c.dropped = 0 => c.groups[key].count = Cardinality(Adding(name, key))
                 /\ c.groups[key].worst \in ValuesAdded(name, key)

\* The records of the context of the hits there are so far.
Window ==
  {n \in 1..number : \E h \in hits : n \in (h - job.before)..(h + job.after)}

\* Of the records read so far grep has shown each one that matched, and marked
\* it, and -B before and -A after it: no other, each once and in order, across
\* inputs.
GrepShowsTheWindow ==
  job.command = "grep" =>
    /\ \A n \in Window : \E k \in DOMAIN shown : shown[k].record = n
    /\ \A k \in DOMAIN shown :
         /\ shown[k].record \in Window
         /\ shown[k].hit <=> shown[k].record \in hits
         /\ \A j \in 1..(k - 1) : shown[j].record < shown[k].record

\* The exit code tells what happened (IFC-012).  0: every input was read to its
\* end and reported; only a file that cannot be opened while the format is left
\* to detection passes for an empty one.  1: the input read last failed, or no
\* prefix could be compiled, and nothing was reported.  2: something was
\* missing, and nothing was opened.
ExitTellsTheOutcome ==
  /\ exit = 0 =>
       /\ opened = Len(job.inputs) /\ rest = <<>> /\ ~BadPrefix
       /\ \A i \in DOMAIN job.inputs :
            \/ job.inputs[i].state = "ok"
            \/ job.inputs[i].state = "unreadable" /\ job.format = "auto"
  /\ exit = 1 => /\ opened > 0 /\ AllExist
                 /\ BadPrefix \/ job.inputs[opened].state = "unreadable"
                 /\ report = NothingReported
  /\ exit = 2 => opened = 0 /\ shown = <<>> /\ ~AllExist
=============================================================================
