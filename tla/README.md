# A TLA+ model of pglogwatch

pglogwatch reads PostgreSQL server logs: it turns a directory of log files (local, or remote over
a connection) into a byte stream, frames the stream into records, parses them, and can do so with
several workers at once. This directory holds TLA+ modules for the parts of it where order,
failure and offsets matter, TLC configurations that check them on small instances, and proofs
checked by TLAPS.

Paths below are relative to the repository. The specification document quoted as COR-007, IFC-005
and so on is `spec/tool-pglogwatch-zero-alloc-parser.md`.

## 1. Inventory

| Component | State it keeps | Operations | Talks to |
|---|---|---|---|
| offset store (`offsets.go`) | recency list and map, at most `max` entries | `Get`, `Set` | called by every log source |
| FileSet (`fileset.go`) | `Offsets`, `ids` (identity last seen per path) | `Open` | the file system; its readers |
| FileSet reader (`fileset_open.go`, `source_file.go`) | open file, its path, identity and position, `done`, `pending`, `flush` | `Read`, `Close` | directory and files the server writes; the store; the caller's context |
| remote reader (`pgremote/`) | listing, current file and offset, `pending`, `flush` | `Open`, `Read`, `Close` | server through queries; the store; the caller's context |
| read buffer (`buf.go`) | window, `consumed`, `err`, `atEOF`, `skipping`, `bomChecked` | `next`, `peek`, `fill`, `grow`, `discardToNewline` | an `io.Reader` |
| parser (`parser_api.go`, `dispatch.go`, `detect.go`, `seek.go`) | resolved format, `err`, `done`, counters | `Next`, `Seek`, `Reset` | the buffer; the split functions |
| framing (`csv.go`, `stderr.go`, `json.go`) | none | the split functions, `isRecordStart` | pure |
| ParallelScan (`parallel.go`) | shard plan, shared cursor, first error, context | the call itself | one parser per worker; the caller's `fn` |
| stderr prefixes (`prefix.go`, `prefix_detect.go`) | compiled template | compile, scan, detect | the head of a stream, through `peek` |
| field scanners (`csv.go`, `json.go`, `stderr.go`, `unquote.go`, `timestamp.go`, `tzcache.go`, `severity*.go`) | the zone cache | per-record parsing | pure, but for the cache |
| message templates (`template.go`) | scratch buffer | mask one message | pure |
| compress (`compress/open.go`) | two closers | open, read, close | libraries |
| CLI (`cmd/pglogwatch/`) | bounded counters, grep window, buckets, exit code | one command per report | one parser per input, or ParallelScan for stats |

Where it is hard:

- **Interleaving with the server.** A reader looks at a directory, identifies a file, opens it,
  reads it and looks at the directory again in separate system calls; the server appends, rotates,
  truncates and reuses names in between.
- **What was read is not what was delivered.** Partial lines are held back, callers' slices are
  short, and the parser reads ahead. The stored offset has to count the right one, across
  cancellation, failed queries and process restarts.
- **Identity.** A path is not a file: size, inode and the first bytes each tell only some
  replacements apart.
- **Framing in pieces.** A record may be cut anywhere by a read, may be longer than the cap, may
  contain newlines, and may be entered in its middle by `Seek`.
- **Workers.** Shards are cut at arbitrary bytes; the end of one and the start of the next are
  decided by different tests in different goroutines, while errors and cancellation stop them.
- **Text that says what it is only by matching.** Whether a stderr line begins a record, and where
  its prefix ends, is decided by trying a template on it; the template itself may be a guess.
- **Rules that meet.** A template is made by rules about numbers, quotes, lists, markers, paths and
  a length limit, each simple, whose order and overlap decide whether two messages form one group.
- **Bounded memory.** Counters, the context window of grep and the events of system keep a part of
  what was read; what is reported must be true of all of it.

What makes each part correct: the store is bounded and evicts only the least recently used path; a
log source delivers every byte at most once, in order, holds back partial lines, and can be resumed
from its offsets with nothing skipped; the parser returns exactly the records of its input at their
true offsets however the input arrives, reports failures and always returns; a seek keeps every
record after its target; a parallel scan that returns nil has handed over each record exactly once,
unless a source failed before its format was known (section 6), and one that was stopped says by whom;
a prefix that is found out reads the log as one that is configured; a template depends on the words
of a message and not on its values; a report counts what the inputs hold, or less where it had to
give groups up, and its exit code tells whether it read them all.

`PROJECT.json` lists the hazards one by one, at the line where each bites, with the properties that
cover it or the reason why none does.

## 2. Modules

    LogStream                 what a log source promises (abstract)
      ^ implemented by FileSet and RemoteReader (PROPERTY ImplementsLogStream)
    OffsetStore               the store as a value: pure operators
      OffsetStoreUse          the store as a component
      FileSet                 directory, server, FileSet, reader, restarts
    RemoteReader              server, pgremote reader, both of its stores
    Framing                   split functions; the records of a whole input: pure
      Parser                  buffer and parser over a source that cuts, fails, stalls
      ParallelScan            shard plan and workers
        MCParallelScan        its sources and symmetry for TLC
    Scan                      what a parallel scan promises (abstract)
      ^ implemented by ParallelScan (PROPERTY ImplementsScan)
    Prefix                    log_line_prefix: compiled, matched, found out: pure
      StderrLog               what the server writes; framing and parsing of it: pure
        Reports               what each command makes of a record: pure
    TopK                      the bounded counter: pure
      CommandLine             one run of the command line program, over Reports and TopK
        MCCommandLine         its logs and jobs for TLC
    Tokens                    the tokenizer of message templates: pure
      Template                AppendTemplate, rule by rule
        MCTemplate            its messages for TLC
    OffsetStoreProofs, LogStreamProofs, FileSetProofs, RemoteReaderProofs, CommandLineProofs   theorems
    FramingProofs             lemmas about Framing, with their proofs
      ParserProofs, ParallelScanProofs                                    theorems

**OffsetStore / OffsetStoreUse** (`offsets.go`). A store is a record of a recency sequence and an
offset per path. `AfterGet` and `AfterSet` are the whole methods. FileSet uses the same operators,
so the lemmas about them serve both. No caller looks at the second result of `Get`, so an untracked
path has offset 0. `since`, a history variable, is the set of other paths used since a path was.

**FileSet** (`fileset.go`, `fileset_open.go`, `source_file.go`). The reader is one goroutine, so an
action is what happens between two system calls: `StartScan` is the glob of `openNext`, `ScanPath`
one turn of its loop (the store's `Get` included, which moves the entry to the front),
`OpenTarget` the `openFileAt` that follows and that may find the file gone or grown, `FillBlock`
and `FillEnd` one read of `fill`, `AtEndOfFile` the follower's look at the directory, `Deliver`
`drainPending` with its `Set`, `CloseCurrent` `closeCurrent`. `Cancel` may come at any point and is
noticed where `ctx.Err()` is looked at. `Restart` forgets the identities and, unless the store is
persistent, the offsets. A byte carries the order in which it was written and whether it is a
newline; no property looks at more. `out`, the bytes delivered over all sessions, is history.
The server's actions are external: they are what a PostgreSQL logging collector and its
housekeeping do, each enabled by a member of `Events`.

**RemoteReader** (`pgremote/open.go`, `conn.go`). A query is one action, so the listing may be
stale when a file is fetched. `QueryFails` is a failed or cancelled query; the parser latches its
error and the caller closes and opens again. The store is the caller's, which keeps everything, or
the fallback, which empties itself when full (`SetOffset`). The server may truncate the newest
file; `shrunk` remembers that it did.

**Framing** (`csv.go`, `stderr.go`, `json.go`, `dispatch.go`, `detect.go`, `seek.go`). A byte is its
class: newline, quote, first byte of a record start, first byte of a labelled continuation, byte
order mark, other. `Split` is the split function of each format over a window; `RecordOffsets` is
the reference: the record starts of a whole input, defined without a buffer. `Landing` is `resync`.

**Parser** (`buf.go`, `parser_api.go`, `dispatch.go`, `detect.go`, `seek.go`). The window, the
positions and flags of `buf` are state, and one action is one decision of the loops in `next`,
`peek` and `resync`, or one call of the source, which may return any number of bytes, its error
with the last bytes or after them, or `(0, nil)` for ever (`maxEmptyReads` calls are one step).
The format of a stderr log's prefix is taken as known.

**ParallelScan** (`parallel.go`). `Shards` is `planShards`; `Draw` is the atomic increment and the
test after it, `HandOver` one record and the occasional look at the context, `WorkerFails` an error
of `fn`, or of the source while records are read. A worker's parser is reduced to its position, which
`RecordsAreThoseOfTheInput` and `SeekLandsAtBoundary` of Parser justify. They take the format as known,
and for stderr the prefix. `scanShard` finds both out at the head of the source, ignores what that
look returns, and `Seek` clears the error behind it, so a source that fails there is entered all the
same. A shard entered like that is in `blind`, also when the peek (`FormatPeek`, `MaxRecord`) ends
before the line the format is decided by (`HeadTells`). Its worker is over-approximated: it may take a
record to begin anywhere, it may end with nil at any point, which is what `Next` does when the format
cannot be found again, and what it hands over is not counted in `handed`. `MaxBlind` bounds how many
shards are blind because their source failed. `stopped`, history, is who made the context done. With no
shards the call returns nil at once and does not look at the context.

**Scan** is the contract: records are handed over in any order, none twice, and nil is returned only
when all were that are not in `unread`, the parts of a source nothing is promised of. A part gets there
by `LoseSight`, and only before anything of it was handed over. ParallelScan puts the shards entered
blind there, and nothing else. It implements it with `handed` restricted to the sources whose record
starts can be told apart (`clear`) and the shards not entered blind, and `records` the positions at
which one parser that reads each
of these from its head finds its records. Both are fixed by `Init`.

**Prefix** (`prefix.go`, `stderr.go`, `prefix_detect.go`). A line is a sequence of symbols: a byte
where bytes matter, a whole word, label or timestamp where they do not. `Compile` is
`compilePrefix`, with `%%`, a trailing `%`, both paddings and the escapes that do not exist;
`ScanPrefix` tries the part after `%q` and falls back to what comes before it; `ValueEnd` is
`scanValue` of every escape. `DetectPrefix` is the loop over the eighteen shipped prefixes, with
`Score`, `Plausible` and the form of the timestamps, then `Reconstruct`. Positions are counted in
symbols, so the tie-breaker of `detectPrefix`, bytes explained, is symbols explained here.

**StderrLog** (`stderr.go`). `LogLines` is what the server writes of an entry: its sections under
one prefix, later lines of a text indented by a tab. `RecordEnd` is the framing, `ParseStderr` the
fields read from the lines of a record. `RecordsOf` is the reference, read off the entry.

**Reports** and **TopK** (`cmd_*.go`, `classify.go`, `normalize.go`, `topk.go`). For each command an
operator says what one record adds: a bag of what is counted and the keys it goes under. A counter
is a function from keys to counts; `Added` is the *set* of what `addBytes` may leave, since Go's map
order chooses among the least frequent groups. The words of a message that `classify` and
`lockTarget` look for are symbols, one or a few of each kind.

**CommandLine** (`main.go`, `options.go`, `cmd_*.go`). `OpenNext` opens the next input and chooses the
prefix, `ReadRecord` is `Parser.Next` with the window of `--begin` and `--end` and the handler of the
command, `EndOfInput` looks at `Err`, `Report` ranks the groups. A job is a command line and the
logs it is run over; `IsJob` is what `normalize` leaves of it. stats is taken on its serial path; its
workers are ParallelScan. `TypeOK` states what a command keeps while it reads, and what that depends on:
the ring, the context owed, the events and the counters on the options; the emitted map of grep on the
hits, by `1 + after + before` for each; the buckets of peaks on the times read. Three history variables
keep what the program does not: the records that were
parsed, the inputs of those that were malformed, and the numbers of the records that grep found.

**Tokens** and **Template** (`template.go`). `TokenAt` is `tokenizer.next`; one action of Template is one
branch of the loop in `AppendTemplate`, in the order of the code, with the list state, the pending
placeholder and the statement marker as state. A behaviour masks a message, then the template it
gave, then a second message made from the first by changing its values, and the properties compare
the three. Symbols are bytes, or words the rules know (`in`, `values`, `for`, `statement`, ...), or the two
halves of a character that must not be parted. The number of hex digits on either side of a WAL
position, 8 in the code, is the constant `MaxHexDigits`.

## 3. Runs

| Run | Module | What is asked | Bounds |
|---|---|---|---|
| OffsetStoreUse | OffsetStoreUse | the list and the map agree, the bound holds, a path used recently keeps its offset | 4 paths, room for 2, 2 offsets |
| FileSetGrowing | FileSet | a follower with cancellation, closing and crashes over files that grow and rotate | 2 paths, 4 bytes, blocks of 2, slices of 1 and 2 |
| FileSetPasses | FileSet | passes over files renamed, truncated, reused, removed in between | 2 paths, 3 bytes, heads of 2 |
| FileSetLive | FileSet | liveness of followers and of passes | 2 paths, 3 bytes |
| RemoteFollower | RemoteReader | a follower with the fallback store, failing queries, cancellation | 2 files, 6 bytes, chunks of 2, 1 failure |
| RemoteLive | RemoteReader | passes and followers with the caller's store, rotation and truncation, safety and liveness | 2 files, 3 bytes, 1 failure |
| ParserReads | Parser | every input, every cut, every failure, one Seek | 5 bytes, cap of 4, buffer from 3, reads of 1 and 3 |
| ParallelScanCuts | MCParallelScan | two workers, failure and cancellation, against Scan; what the return says | 5 bytes, or 4 and a second source, up to 3 shards, a peek of 4 for the format, 1 shard blind by failure, 3 lines before `resync` gives up, a look at the context after each record |
| TemplateMasks | MCTemplate | a template is masked again, and compared with that of other values | up to 3 of 12 symbols or 10 pieces, statements of up to 4 pieces, up to 5 pieces after a `VALUES` tuple, WAL positions of up to 6 symbols with halves of 2, up to 6 pieces around limits of 3 and 5 |
| CommandLine | MCCommandLine | nine commands over the logs a server may write | logs of up to 4 entries, 11 prefixes, up to 3 inputs, counters of 2 groups, windows of up to 2 |
| FileSetReplaced, RemoteInterrupted | | runs that TLC refutes, see section 6 | |

Why the bounds are enough for the cases that matter. Two files are one finished and one active,
and a rotation between them. With blocks and slices of one and two bytes, a line of three bytes is
cut by a block, delivered in two calls, and held back in part. Chunks of two and six bytes give a
line longer than the held-back bound and lines that straddle chunks. A cap of four over inputs of
five gives records that fit, that just fit, and that are skipped with their newline in a later
window; a buffer that starts at three slides and grows. A record after one that was skipped does not fit
five bytes: there the theorem `RecordsAreThoseOfInput` speaks. Up to three
shards over up to five bytes (`BothLen`: four where a second source has something in it) cut inside records, inside quoted fields and at record starts, and leave a
remainder; a line that a peek of four cuts leaves the format open. Two hex digits in each half of a WAL
position let six symbols hold one that fits, one that does not, and one that touches a word. Pieces after
a `VALUES` tuple reach the rule by which a closed list absorbs the one after it. In the store, four
paths for two places give hits, misses, updates and evictions in every order. A counter with room for two
is filled by three or four different keys, so that a group is given up, comes back and starts again,
and equal ones compete. Windows of two before and after over two inputs of up to three records make
contexts overlap, touch and cross from one input into the next. Limits of three and five are
reached by messages of six pieces inside words, placeholders, lists and two-byte characters.
Detection samples eight lines of logs of up to three entries, an entry being one line or several, so
that the majority of a sample is labelled in some and not in others; among the prefixes are shipped
ones, one that only reconstruction finds, one with every escape and one that does not compile.

`CHECK_DEADLOCK FALSE` is set for what ends: Parser, when it has ended and may seek no more,
ParallelScan, when it has returned, Template, after its passes, and CommandLine, when the program has
exited. The other systems never stop.

Conditions that a reader of the results should know:

- `AtMostOnce` and `ImplementsLogStream` need room in the store for every path: an eviction makes
  the reader deliver a file again, by design. `RecentlyUsedSurvives` is the exact condition.
- A replaced file is recognised while its identity is known, and a pass is checked against
  replacements between passes. A replacement in the middle of a pass, or before a restart that lost
  the identities, is a limitation of the code and outside the runs.
- `SeekKeepsEveryRecord` and `ImplementsScan` are stated for inputs in which
  record starts can be told apart in the middle of a stream (`Regular`, `Comparable`): no quoted
  line that looks like a record, no labelled continuation without its record, no record over the
  cap. The comment of `startsCSVRecord` (`seek.go:183-189`) accepts the first of these. Two more
  conditions come from what `resync` looks at. A run of blank lines as long as its peek is taken for a
  boundary, even inside a quoted field (`BlankRun`): then a landing in the middle of a csvlog record
  inverts its quotes. And it gives up after `maxResyncLines` lines: `GivesUp` says that so many lines in
  a row begin no record. `Comparable` adds that the head of the source tells its format (`HeadTells`).
  Neither `BlankRun` nor `GivesUp` can be dropped: without `BlankRun` the proof of `SeekKeepsEveryRecord`
  fails on inputs longer than the run's, and without `GivesUp` TLC refutes `ImplementsScan` when the bound is 1.
- `ImplementsScan` promises nothing of a shard entered without the head of its source: there nil may
  hide records that were never handed over (section 6). `NilOfSoundSources` is the theorem about the
  scans without such shards: those in which nothing fails, and those with a configured format other
  than stderr, whatever fails.
- `StopIsReported` leaves open what a caller that cancels gets when a worker fails before it has noticed:
  the error of that worker or the one of the context. The code prefers the worker's.
- `TypeOK` of CommandLine does not say that memory is bounded. It bounds by the options what the code bounds
  by them, and for the two maps that grow it says by what (section 6).
- `RecordsAreWhatTheServerLogged` is stated for logs whose lines can be told apart
  (`IsUnambiguous`): no value of the prefix contains what ends it, and no message of a process without
  a session looks like the part of the prefix after `%q`. When the prefix is not configured, most
  lines of the sample must carry a known label and one must be of a session (`ShowsPrefix`). Without
  any one of these conditions TLC finds records read wrongly. The first entry of a log may have lost
  its first line; what is left of it costs one malformed record at most.
- Between a log and a report there are two questions. That the records read are those the server logged, and
  that the totals and matches at the end of a run are those of its entries, is asked by
  `RecordsAreWhatTheServerLogged`, under the conditions above. `CountsAreHonest` and `GrepShowsTheWindow`
  compare what a command keeps with the records it was given, in every state and for every log, legible or not.
- A prefix that was reconstructed has the user and database of its first line as literal text. Only
  the texts of a record are compared then (`Readable`).
- `CompleteLineDelivered` speaks of files that were not truncated: the remote reader sees sizes
  only, as its documentation says.

**Fairness.** `FairSpec` of FileSet and of RemoteReader has weak fairness of one action: the
disjunction of opening, calling `Read`, a step inside `Read`, and closing after the end. It stands
for a collector that calls `Read` until it returns the end of the stream, and opens again, with
system calls and queries that return. Nothing is assumed of the server, which may stop for ever or
act at any moment, nor of cancellation or of failures, which are not fair. Parser needs no fairness:
`CallsReturn` is an action property over a decreasing measure of the work left.

## 4. Proofs

TLC's bounds do not appear here: the theorems hold for every value of the constants that the named
assumptions allow (`TrackedAssumption`, `OffsetAssumption`, `FileSetAssumption`, `RemoteAssumption`,
`FramingAssumption`, `ParserAssumption`, `ScanAssumption`, `TopKAssumption`: sets are finite or
indexed from 1, sizes are positive; `JobsAssumption`: a command line as `normalize` leaves it;
`HexAssumption` of Tokens is TLC's only). A theorem that needs more says so in an ASSUME of its own, and
what it needs is a configuration (which events the server shows, whose store is used), never a
fact about a state. The inductive invariants named here were first checked by TLC over the runs' instances,
as far as their quantifiers are bounded.

**OffsetStoreProofs.** `StoreTypeCorrect`, `StoreIsBounded` and `StoreKeepsRecent` prove the three
properties of the run, for any set of paths and any bound. `RecentlyUsedSurvives` is not inductive:
nothing in it says why the evicted path is an old one. The invariant `IInv` adds that the
recency list is injective and agrees with the map (`Consistent`), that a tracked path's offset is
the last one set (`TrackedIsLatest`), that every path ahead of another in the list was used since
that one was (`AheadWasUsed`), and that a path off the list was overtaken by at least `MaxTracked`
others (`EvictedIsOld`). `StoreInvariant` proves it; the eviction case counts the paths ahead of
the last place.

**FileSetProofs.** `FileSetTypeCorrect` proves `TypeOK` with all events enabled. The strengthening
`TypeInv` says that a session holds no more than it read and that its path and its inode are there
together or not at all. `ResumePointIsExact` proves `ResumePointIsFirstHeldByte` for the
environments of the first run (`Events` within append, rotate and crash): `GrowInv` adds that
stored offsets and the offset about to be opened lie within their files, that the identities held
are those of the current files (a head is a prefix of the content, which is why a file that grows is
still recognised), and that what is held back is in place. It rests on lemmas about `SubSeq` of a
sequence that is appended to.

Of what reaches the parser, over any number of sessions, cancellations and crashes, while files only
grow and rotate (`OnlyGrow`):

- `FileSetImplementsLogStream` proves the refinement `ImplementsLogStream`, and `NoByteTwice` carries
  `HandedOverOnce` over to `AtMostOnce`. They need a store that remembers (`StoreRemembers`: room for
  every path, and offsets that survive a crash or no crash), which is what the code documents.
  `AtMostOnce` says nothing of where an offset stands, so it is far from inductive. `StreamInv` adds that
  the bytes of all files are numbered in the order written (`BytesAreNumbered`), that no file has
  two names, that what is held has not been delivered and is in order, and `BeyondOffsetIsNew`:
  nothing at or beyond a stored offset has been delivered or is held elsewhere. A byte is then new when
  it is read, because reading begins at the offset, and new when it is delivered.
- `SkipsNoLineEnd` proves `StoredOffsetSkipsNoLineEnd` whatever the store forgets, as forgetting only lowers
  offsets. Below the offset of a file every newline is delivered (`LineEndsDelivered`), and what is held
  at the end of a file is no complete line (`HeldAtEndIsPartial`), so `closeCurrent`, which stores the
  position in the file, skips none.
- `FollowerEndsWithLines` proves `FollowerWithholdsPartialLine` for callers that only follow.
  `FollowInv` has to follow the tail of a finished file, which may be delivered without its newline: such
  bytes are never in the newest file (`TailIsElsewhere`).

For a directory in which anything happens between passes (renamed and created again, truncated, reused,
removed) the question is another one: whether the bytes below a stored offset are those that were read.
The condition is `ReadInPasses`: the server acts between passes, the caller drains each of them, and the
store has room. Each part is needed. A replacement in the middle of a pass is a limitation of the
code; a cancelled pass leaves a tail behind and a restart forgets the identities, after which a
file of the same name and no smaller is taken for the one before it.

- `PassDeliversAll` and `PassLeavesNoGap` prove `PassIsComplete` and `NoGapWithinFile`. The invariant `PassInv` says
  in `HeadsTellApart` that beside every stored offset there is a remembered head, and that the file now
  under the name is either the one it was taken from, at least as long as the offset (`Continues`),
  or one whose first byte is another (`Replaced`). `Consumed(p)` is how much of the file now named p was
  read, zero if it replaced another, and `BytesAreAccountedFor` that exactly these bytes are delivered or held.
  `TargetIsChosen` carries the decision of the scan over to the open that follows it, `ReadToTheEnd`
  what is done. A server step between passes may turn `Continues` into `Replaced` and never back,
  since no byte number is used twice; appending to an empty file needs `HeadOfContent`.
- `PassesImplementLogStream` and `PassesRepeatNothing` prove `ImplementsLogStream` and `AtMostOnce` again, here
  with every event and with identities instead of the assumption that files only grow.

**LogStreamProofs.** `StreamHandsOverOnce`: the abstract stream hands over no byte twice. With the two
refinements, FileSet's above and RemoteReader's below, this is COR-007 for both log sources.

**RemoteReaderProofs.** With every event of the server, failed queries and cancellation:

- `RemoteTypeCorrect` and `ReaderHoldsLittle` prove `TypeOK` and `HeldBackBounded` (fewer than three
  chunks held) from `TypeInv`, which adds `SessionShape`: while a file is open what is held was fetched
  of it, so an offset stored at a delivery is not negative, and a chunk is fetched only below the bound.
- `RemoteImplementsLogStream` (with the caller's store) and `FollowerNeverRepeats` (also with the
  fallback store while the directory has fewer files than it has entries). The hard part of `StreamInv` is
  truncation, of which `pgremote` sees only sizes, and may see it late: all bytes of a file shorter than
  its offset are new (`BeyondOffsetIsNew`), which has to survive a stale listing (`ShrunkSinceListed`)
  and a handle that is already open (`BeyondHandleIsNew`).
- `RemoteFollowerEndsWithLines`: `InPlace` says that what is held of a file that was not truncated stands before
  the handle's position, `TailOnLine` that what is held between two files are complete lines. A line too
  long to be held back is delivered in parts, as the code says. `FollowsGrowing`: no truncation, no passes.
- `RemoteOffsetIsAccountedFor` proves `StoredOffsetIsAccountedFor` for callers that do not cancel, the
  condition that the run `RemoteInterrupted` shows to be necessary.

**FramingProofs.** What the two layers above the framing need of it, for any bytes:

- A cut made before the end of the input is seen does not depend on what follows (`SplitIsStable`), and
  what a cut looks like in each format (`StepHasShape`).
- `Positions` and `Landing` are recursive functions, and no induction theorem can be used on them. The
  positions are therefore shown to be the least set that contains the start and is closed under
  `NextPosition` (`PositionsArePath`), by the least counterexample; two such paths that meet go on together
  (`GoOnTogether`), so what is found from a position is the tail of what is found from the head
  (`TailOfPath`). `Landing` is shown to solve its equations (`LandingIs`) and to pass over no start of a
  record unless it gives up (`LandingLands`).
- `FromLandingOn` is the lemma about cutting an input anywhere: from a place where `resync` stops, having
  passed over no start of a record, exactly the records are found that one reading from the head finds at
  or after the offset asked for. A place that looks like a start is one, because a regular input has no
  look-alike inside quotes and a cut ends outside them; a run of blank lines that ends inside a quoted
  field is shorter than the peek, so `resync` does not stop in it; and a record that begins with a label,
  which `resync` does not know as a start, stands only where no record is before it, at the head.

**ParserProofs.** No assumption but positive sizes: any input over the bytes of the framing, any cap, any
buffer, any answers of the source, any number of calls of `Next` and `Seek`.

- `ParserTypeCorrect`, `OffsetsAreTrue` (`BufferMirrorsStream`) and `EndIsReported` rest on `BufInv`: the
  window is a copy of the stream at the reported position through every slide, growth, discard and failed
  read. `EndIsReported` also proves that an end without an error means that the whole input was read.
- `CallsComeToAnEnd` proves `CallsReturn` and that the measure `WorkLeft` is a natural number, which
  together exclude an endless call. The measure is a weighted sum; `LessSum` does its arithmetic once.
- `RecordsAreThoseOfInput` proves that what the parser returned are the records of the reference
  framing of the *whole* input, although the parser decides on a window and cannot know what follows.
  `WalkInv` therefore quantifies over every input that agrees with what was read so far (`Possible`): for
  each of them the parser stands on its path, having returned the records before. The step rests on
  `SplitIsStable` and `PositionsArePath`.
- `SeekLandsThere` proves `SeekLandsAtBoundary`: while a seek is under way, the place the reference lands
  at from where the parser stands, with the lines still allowed, is that from the offset asked for (`Headed`).
- `SeekLosesNoRecord` proves `SeekKeepsEveryRecord`. `KeepInv` adds that a seek has passed over no start
  of a record in any input that agrees with what was read (`NoneMissed`), and `FromLandingOn` does the rest.

**ParallelScanProofs.** For any number of workers, sources of any bytes the framing knows, and any
failure and cancellation: `ScanStopsSoon` and `ScanReportsItsStop` prove `StopsSoon` and
`StopIsReported`; `NoShardIsShared` and `NilMeansUndisturbed` prove the part of `ImplementsScan` that does not
look into a source: no shard is scanned by two workers, and nil means that all were drawn, without an
error reported and with the context never done. `Stopped` is the invariant behind `ScanReportsItsStop`:
the context is done if and only if somebody stopped the scan, and a worker that did is the first error
for good, since `fail` keeps the first and a worker that fails later finds it taken. The invariant `ScanInv` is the conjunction of `Control` (who is
where, and that an error implies a cancelled context), `ShardsExclusive` (a shard being scanned was
drawn, by one worker), `Prompt` (a worker's late records are bounded by the records since it last
looked at the context, which is why `StopsSoon` holds) and `NilIsUndisturbed` (while the context is not
done, shards that are left are left to a worker that still runs).

`ScanIsAsPromised` proves the refinement `ImplementsScan` step by step: handing over a record of a
comparable source is a HandOver of Scan, returning is Complete or GiveUp, all else a stutter.
`ShardsArePlanned` shows that each place of a source is in exactly one shard, by the division in
`planShards`. `Tally` then says how far the work has come: a worker finds, of its source, exactly the
records at or after its position, and has handed over, of its shard, exactly those before it (`OnTrack`);
nothing of a shard not drawn has been handed over, and all of one that was drawn and left, unless the
context is done or the shard is blind (`Tallied`). A shard becomes blind when it is drawn, so nothing of
it was handed over before, which is what `LoseSight` asks. At a draw this is `LandingLands` with `FromLandingOn`, at each record
`TailOfPath`. A nil return finds every shard drawn and left. `ScanTypeCorrect` proves `TypeOK`: the cursor
passes the plan only by workers that are done.
`NilMeansExactlyOnce` is the promise of `parallel.go:11-31` for any implementation of Scan, and
`EachRecordOnce` draws the conclusion: a parallel scan that has returned nil has handed over every record
once that is not in a blind shard, and however it ends none twice. `NilOfSoundSources` gets rid of the
exception where it can be: if nothing fails, or the format is configured and not stderr, every blind
shard belongs to a source whose head does not tell its format (`BlindByFailure`), so none belongs to a
comparable one, and nil means every record of those.

**CommandLineProofs.** For any family of command lines and logs, legible or not; what the prefix code makes
of a line is left open, so these hold whatever the records are.

- `ExitCodeIsTrue` proves `ExitTellsTheOutcome`. `ExitInv` says of each input whether it was read to its end
  (`Finished`) and that one that failed has ended the run.
- `GrepShowsItsWindow` proves `GrepShowsTheWindow`. The set of records to be shown is defined from all hits;
  grep remembers -B records and a number. `SearchInv` says why that is enough: the ring holds just the
  last records, none of them shown or a hit (`LinesInOrder`), what may still become leading context is shown
  or in the ring (`ContextHeld`), and the context owed is counted from the last hit (`ContextOwed`).
  `HitKeepsWindow`, `TrailingKeepsWindow` and `RememberKeepsWindow` are the three branches of the code.
- `ReportsAreHonest` proves `CountsAreHonest`. `TallyInv` compares, for every thing counted and every key, the
  state with the set of the records read that count it or add it (`TotalsAreExact`, `IsHonest`). It rests
  on two facts: a handler counts a thing at most once per record and adds to a counter at most once, which
  is proved of each handler (`HandlersHandle`), and the three ways in which an addition leaves a counter
  (`AddedCounter`), whichever of the least frequent groups Go's map order gives up.
- `WhatACommandKeeps` proves `TypeOK`. The bounds by the options follow from the three invariants. `KeptInv`
  adds that what grep has written and what it still owes is at most `1 + after + before` for each hit, which
  bounds the emitted map by the hits; and that the totals of every handler are of a fixed set
  (`HandledIsTotal`), so only the buckets of peaks grow, with the times read (`BucketsRead`).
- `CounterIsHonest` is about a counter alone, to which anything may be added in any order, with `seen`, what was
  really added, beside it: no count exceeds the truth, a counter with `dropped = 0` is exact and
  complete, and the bound holds while the empty key is not in it.

Only model-checked:

- Liveness (`ActiveLineDelivered`, `PassesMissNothing`, `CompleteLineDelivered`, `TruncatedFileRestarts`):
  fairness and ENABLED are out of the prover's reach.
- What recursive functions and folds over sequences compute for every input: `RecordsAreWhatTheServerLogged`
  (prefixes, stderr records, the totals of a run), `Idempotent` and `ValuesDoNotMatter` (templates). The induction they
  need is over data. Framing is the exception, as its two recursions are solved by hand in FramingProofs.
- `TypeOK` of Template: that each token ends within the message is a fact about the recursive functions of
  Tokens, and its bound of eight symbols past the limit holds for the numerals of short messages, which are
  what the run has; the length of a numeral grows with the limit.

Passes that are cancelled, or that a crash interrupts, are covered while files only grow (`NoByteTwice`);
together with files that are replaced they are neither checked nor proved, for the reason given at `ReadInPasses`.

## 5. Plan

Order of work, most important behaviour first:

1. Done: OffsetStore, FileSet, RemoteReader, Framing, Parser, ParallelScan with the abstract LogStream
   and Scan; prefixes and their detection, stderr records, the reports and counters of the command
   line, grep; message templates; the theorems of section 4.
2. Done since: the passes of FileSet with all events, and the bounds, counts, windows and exit codes of
   CommandLine, as theorems. Of the invariants the runs check, those left to TLC are listed at the end of section 4.
3. `Parser.Reset`, a parser used for several streams, and a parser over the FileSet model: records per
   session when both layers read ahead.
4. The sums `stats` takes of its workers' counts, over Scan.
5. The columns of csvlog and the keys of jsonlog at the level of fields.

## 6. Disagreements between the code and what is said of it

Two runs expect a violation, each of one property:

- **FileSetReplaced** (`fileset_open.go:154-155`): `closeCurrent` empties `curPath` before
  `delete(r.done, r.curPath)`. A follower whose newest file is replaced under its name never reads the
  new one.
- **RemoteInterrupted** (`pgremote/open.go:323-325`, `:333-335`): the offset of a finished file is
  stored while its last lines are still pending; a reader cancelled there skips them for good.

Others that the models contain, as the code has them, and that properties name as exceptions:

- Bytes appended between a follower's read at the end of a file and its look at the directory are left
  out of its stream if a rotation falls in the same gap (`fileset_open.go:136-160`), although
  `fileset.go:96-97` promises one continuous stream. A later session delivers them.
- A source that fails before its first line leaves `Err` nil when the format is left to detection
  (`dispatch.go:20-24`, `parser_api.go:24-27`, against `parser_api.go:64-65`). On the command line an input
  that exists and cannot be opened then passes for an empty log and the exit code is 0, although
  `errReader` (`options.go:245-247`) is there so that it "reports as an error". `ExitTellsTheOutcome`
  names this case. An input that does fail ends the run, so the inputs after it are not read, which
  the same comment says it avoids.
- The same failure under `ParallelScan` is worse: `scanShard` ignores what `ensureFormat` returns
  (`parallel.go:226`), `Seek` clears the error it left (`seek.go:73-78`), and if the format cannot be found
  where the shard starts either, `Next` ends with `Err` nil (`parser_api.go:24-27`) and so does the shard
  (`parallel.go:253`). The scan then returns nil with a shard, or a whole source, unread, where the error of a
  source is said to be reported (`parser_api.go:61-66`). `ImplementsScan` names the exception. A configured
  format other than stderr rules it out (`NilOfSoundSources`).
- A caller that cancels may get the error of a worker that failed afterwards instead of `ctx.Err`
  (`parallel.go:142-145`), and a call with nothing to read returns nil although its context is done
  (`parallel.go:77-79`), while `parallel.go:68-69` says that cancelling stops the scan "and that error is
  returned".
- PERF-026 asks that the memory of any streaming workload does not depend on the size of the input. The `emitted`
  map of grep has an entry for every record written and is never emptied (`cmd_grep.go:60`, `:71`), although
  only the last `-B` numbers can come up again; the buckets of peaks (`cmd_peaks.go:43`) grow with the time
  covered, as `topk_test.go:75-76` admits. `TypeOK` of CommandLine says how far each may grow.
- The note printed when groups were discarded says that "counts of frequent groups are exact"
  (`cmd_errors.go:128`). A group that was given up and returns starts at one, however often it had been
  seen, so a group shown may count less than there was; `CountsAreHonest` claims no more.
- Reports that gave up groups may differ between two runs over one log: ties are broken by the order of
  a map (`topk.go:113-117`), while the rows shown are sorted "so the output is deterministic"
  (`topk.go:126`).
- A counter may hold one group more than its bound: the empty key stands for "no victim"
  (`topk.go:117`), so once it is the least frequent nothing is given up.

By reading only: the decompressor of a zstd input is wrapped in `io.NopCloser` (`compress/open.go`), so
closing the input does not close it, against the comment of `closer`; `cmd/pglogwatch/parallel.go:11-16`
names the commands that use `--jobs`, of which stats alone does; in JSON, grep renders a record kept
from an earlier input with the format of the current one (`cmd_grep.go:87`).

## 7. Not modelled

The columns of csvlog, the keys of jsonlog, unquoting, number widths and the digits of a timestamp are
sequential pure functions of the bytes of one record, with golden, fuzz and differential tests of their
own; the models keep whether a csvlog or jsonlog record parses, and of a stderr record its fields. The
zone cache saves lookups in a fixed table and gives nothing up. The severity labels of other languages
and the names the reports print are data. `compress` chooses a library by the first bytes of a file and
keeps no state. `TruncateOnRotation` is a field no code reads. Two readers of one FileSet at a time
share only a map under a mutex. Flag parsing, tables and JSON output of the command line, its bench
command, and the benchmark tooling are outside: formatting and measurement. Text encodings, which
decide whether `pg_read_file` fails and how long its answer is, belong to the server. Not one of the
models reads carriage returns.
