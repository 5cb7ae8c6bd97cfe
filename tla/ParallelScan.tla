---------------------------- MODULE ParallelScan ----------------------------
(***************************************************************************)
(* ParallelScan (parallel.go): several workers draw shards of the sources  *)
(* from a shared cursor, each seeks to the start of its shard and hands    *)
(* over the records that begin before its end.                             *)
(*                                                                         *)
(* The sources do not change during a scan, and Parser shows that what a   *)
(* parser returns depends on the bytes of its source only, so a worker's   *)
(* parser is its position: Landing for Seek, RecordOffsets for Next.       *)
(* That takes the format, and for stderr the prefix, which the worker      *)
(* finds out at the head of the source before it seeks.  A worker that     *)
(* could not is blind: nothing is said of what it finds in its shard, and  *)
(* a source that fails before it knows the format is an empty one to it.   *)
(***************************************************************************)
EXTENDS Framing

CONSTANTS
  Workers,      \* the goroutines
  ScanFormats,  \* the formats of the sources
  AutoModes,    \* is Config.Format left to detection?
  LastSources,  \* what the second source may be
  TargetShard,  \* targetShardBytes
  MinShard,     \* minShardBytes
  MaxShards,    \* maxShardsPerSource
  CheckEvery,   \* cancelCheckInterval
  FormatPeek,   \* formatPeekBytes
  MaxBlind,     \* bound: shards whose source fails when its head is read
  MayFail,      \* may a source or fn fail?
  MayCancel     \* may the caller cancel the context?

ASSUME ScanAssumption ==
  /\ IsFiniteSet(Workers) /\ Workers # {}
  /\ Workers \cap {"none", "nil", "cancelled", "running", "nobody", "caller"} = {}
  /\ \A last \in LastSources :
       /\ last.bytes \in Seq(Byte) /\ Len(last.bytes) <= MaxLen
       /\ StartsLines(last.bytes) /\ last.sized \in BOOLEAN
  /\ ScanFormats \subseteq Formats /\ AutoModes \subseteq BOOLEAN
  /\ TargetShard \in Nat \ {0} /\ MinShard \in Nat \ {0}
  /\ MaxShards \in Nat \ {0} /\ CheckEvery \in Nat \ {0}
  /\ FormatPeek \in Nat \ {0} /\ MaxBlind \in Nat
  /\ MayFail \in BOOLEAN /\ MayCancel \in BOOLEAN

VARIABLES
  srcs,      \* the sources: their bytes, and whether sizeOf knows the size
  actual,    \* the format they are written in
  auto,      \* is the format detected?
  next,      \* the shared cursor: shards drawn so far
  cancelled, \* ctx is done, by the caller or by fail
  firstErr,  \* firstErr, "none" for nil
  state,     \* [worker -> "draw", "scan" or "done"]
  shard,     \* [worker -> the index of the shard it scans]
  at,        \* [worker -> the position of its parser]
  count,     \* [worker -> n, the records of this shard]
  blind,     \* the shards entered without the head of their source
  result,    \* what ParallelScan returned, "running" before
  \* history
  clear,     \* the sources whose record starts can be told apart from anywhere
  records,   \* where one parser finds the records of these, from their heads
  handed,    \* how often a worker that was not blind gave fn the record at
             \* [source, offset]
  late,      \* [worker -> records handed over after ctx was done]
  stopped    \* who made ctx done: "nobody", "caller" or a worker

input  == <<srcs, actual, auto, clear, records>>
worker == <<state, shard, at, count, blind>>
vars   == <<input, next, cancelled, firstErr, worker, result, handed, late, stopped>>

\* The places of the sources, of which there are two.
Positioned == (1..2) \X (0..MaxLen)
-----------------------------------------------------------------------------
(***************************************************************************)
(* planShards.                                                             *)
(***************************************************************************)
Larger(a, b) == IF a > b THEN a ELSE b

Parts(size) ==
  Larger(Shorter(Shorter((size + TargetShard - 1) \div TargetShard,
                         size \div MinShard),
                 MaxShards),
         1)

\* Mutant: the last shard ends where the even division does.
EndOf_Even(i, parts, per) == (i + 1) * per

\* The last shard is open, so the remainder of the division is in it.
EndOf(i, parts, per) == IF i = parts - 1 THEN MaxLen + 1 ELSE (i + 1) * per

\* An open end is written as an offset past every input.
ShardsOf(s) ==
  LET size  == Len(srcs[s].bytes)
      parts == Parts(size)
      per   == size \div parts
  IN IF ~srcs[s].sized THEN <<[src |-> s, start |-> 0, end |-> MaxLen + 1]>>
     ELSE IF size = 0 THEN <<>>
     ELSE [i \in 1..parts |-> [src |-> s, start |-> (i - 1) * per,
                               end |-> EndOf(i - 1, parts, per)]]

Shards == ShardsOf(1) \o ShardsOf(2)

\* A worker that could never draw a shard is not started.
HowManyStart == Shorter(Cardinality(Workers), Len(Shards))
-----------------------------------------------------------------------------
(***************************************************************************)
(* The workers.                                                            *)
(***************************************************************************)
\* The head of the source decides, wherever the shard starts.
ShardFormat(s) ==
  LET content == SubSeq(srcs[s.src].bytes, StartOf(srcs[s.src].bytes) + 1,
                        Len(srcs[s.src].bytes))
      i       == FirstNonEmptyLine(content)
  IN IF auto /\ i # 0 THEN ClassifyLine(actual, LineAt(content, i)) ELSE actual

(***************************************************************************)
(* detectFormat peeks at the head of source s: is the line it decides by   *)
(* in sight, to its end?  What is left out of sight may be read as another *)
(* format, and blank lines alone as the end of the source.                 *)
(***************************************************************************)
HeadTells(s) ==
  LET content == SubSeq(srcs[s].bytes, StartOf(srcs[s].bytes) + 1, Len(srcs[s].bytes))
      peeked  == SubSeq(content, 1, Shorter(Shorter(FormatPeek, MaxRecord), Len(content)))
      i       == FirstNonEmptyLine(peeked)
  IN \/ ~auto \/ peeked = content
     \/ i # 0 /\ \E k \in i..Len(peeked) : peeked[k] = "n"

\* The head is read only to find out the format, or the prefix of stderr.
HeadMayFail ==
  /\ MayFail /\ Cardinality(blind) < MaxBlind
  /\ auto \/ actual = "stderr"

\* Seek to the start of the shard.
ShardStart(s) ==
  IF s.start = 0 THEN StartOf(srcs[s.src].bytes)
  ELSE Landing(srcs[s.src].bytes, s.start)

(***************************************************************************)
(* scanShard up to its loop.  What the look at the head returns is ignored *)
(* and Seek forgets its error: the shard is entered all the same, and the  *)
(* format is looked for once more where the shard starts.                  *)
(***************************************************************************)
Enter(w, i) ==
  /\ state' = [state EXCEPT ![w] = "scan"]
  /\ shard' = [shard EXCEPT ![w] = i]
  /\ count' = [count EXCEPT ![w] = 0]
  /\ \/ /\ HeadTells(Shards[i].src)
        /\ at' = [at EXCEPT ![w] = ShardStart(Shards[i])]
        /\ UNCHANGED blind
     \/ /\ HeadMayFail \/ ~HeadTells(Shards[i].src)
        /\ at' = [at EXCEPT ![w] = Shards[i].start]
        /\ blind' = blind \cup {Shards[i]}

\* Mutant: the cursor is read and advanced in two steps.
Draw_Torn(w) ==
  /\ state[w] = "draw"
  /\ IF next >= Len(Shards) \/ cancelled
     THEN /\ state' = [state EXCEPT ![w] = "done"]
          /\ next' = next + 1
          /\ UNCHANGED <<shard, at, count, blind>>
     ELSE /\ Enter(w, next + 1)
          /\ next' \in {next, next + 1}
  /\ UNCHANGED <<input, cancelled, firstErr, result, handed, late, stopped>>

\* Mutant: a worker that finds no shard left draws again.
Draw_Again(w) ==
  /\ state[w] = "draw"
  /\ next' = next + 1
  /\ IF next >= Len(Shards) \/ cancelled
     THEN UNCHANGED worker
     ELSE Enter(w, next + 1)
  /\ UNCHANGED <<input, cancelled, firstErr, result, handed, late, stopped>>

\* The cursor moves even when there is no shard left or ctx is done.
Draw(w) ==
  /\ state[w] = "draw"
  /\ next' = next + 1
  /\ IF next >= Len(Shards) \/ cancelled
     THEN /\ state' = [state EXCEPT ![w] = "done"]
          /\ UNCHANGED <<shard, at, count, blind>>
     ELSE Enter(w, next + 1)
  /\ UNCHANGED <<input, cancelled, firstErr, result, handed, late, stopped>>

\* Did w enter its shard without the head of its source?
Blind(w) == Shards[shard[w]] \in blind

\* Where the parser of w finds its next record; past every input if nowhere.
NextRecord(w) ==
  LET s == Shards[shard[w]]
  IN Min({MaxLen + 1} \cup
         RecordOffsets(ShardFormat(s), srcs[s.src].bytes, at[w], TRUE))

\* A blind parser takes a record to begin anywhere.
NextRecords(w) ==
  IF Blind(w)
  THEN {o \in 0..MaxLen : at[w] <= o /\ o < Len(srcs[Shards[shard[w]].src].bytes)}
  ELSE {NextRecord(w)}

\* Where the parser of w goes on after the record at offset, at the earliest.
GoesOn(w, offset) ==
  LET s == Shards[shard[w]]
  IN IF Blind(w) THEN offset + 1
     ELSE NextPosition(ShardFormat(s), srcs[s.src].bytes, offset, TRUE)

\* A worker owns every record whose first byte is before its end.
Owns(s, offset) == offset < s.end

\* Mutant: ctx is looked at between shards only.
LooksAtContext_Never(n) == FALSE

LooksAtContext(n) == n % CheckEvery = 0

\* The return of scanShard: its locals are gone.
Leave(w, then) ==
  /\ state' = [state EXCEPT ![w] = then]
  /\ shard' = [shard EXCEPT ![w] = 0]
  /\ at' = [at EXCEPT ![w] = 0] /\ count' = [count EXCEPT ![w] = 0]
  /\ UNCHANGED blind

(***************************************************************************)
(* scanShard hands the next record to fn, and looks at ctx now and then.   *)
(***************************************************************************)
HandOver(w) ==
  LET s == Shards[shard[w]]
  IN /\ state[w] = "scan"
     /\ \E offset \in NextRecords(w) :
          /\ Owns(s, offset)
          /\ handed' = IF Blind(w) THEN handed
                       ELSE [handed EXCEPT ![<<s.src, offset>>] = @ + 1]
          /\ IF LooksAtContext(count[w] + 1) /\ cancelled
             THEN Leave(w, "draw")
             ELSE /\ at' = [at EXCEPT ![w] = GoesOn(w, offset)]
                  /\ count' = [count EXCEPT ![w] = @ + 1]
                  /\ UNCHANGED <<state, shard, blind>>
     /\ late' = [late EXCEPT ![w] = @ + (IF cancelled THEN 1 ELSE 0)]
     /\ UNCHANGED <<input, next, cancelled, firstErr, result, stopped>>

(***************************************************************************)
(* No record left, or the next one belongs to the next shard.  A blind     *)
(* parser whose source fails again before it has a format is at its end,   *)
(* with a nil Err.                                                         *)
(***************************************************************************)
ShardDone(w) ==
  /\ state[w] = "scan"
  /\ Blind(w) \/ ~Owns(Shards[shard[w]], NextRecord(w))
  /\ Leave(w, "draw")
  /\ UNCHANGED <<input, next, cancelled, firstErr, result, handed, late, stopped>>

\* Mutant: the error of a worker that was not the first is the one kept.
Fail_LastWins(w) ==
  /\ firstErr' = w
  /\ cancelled' = TRUE
  /\ stopped' = IF cancelled THEN stopped ELSE w

\* fail: the first error is kept, and the other workers are told to stop.
Fail(w) ==
  /\ firstErr' = IF firstErr = "none" THEN w ELSE firstErr
  /\ cancelled' = (cancelled \/ firstErr = "none")
  /\ stopped' = IF cancelled THEN stopped ELSE w

\* fn returns an error, or the source one while records are read.
WorkerFails(w) ==
  /\ MayFail
  /\ state[w] = "scan"
  /\ Fail(w)
  /\ Leave(w, "done")
  /\ UNCHANGED <<input, next, result, handed, late>>

CallerCancels ==
  /\ MayCancel /\ result = "running" /\ ~cancelled
  /\ cancelled' = TRUE
  /\ stopped' = "caller"
  /\ UNCHANGED <<input, next, firstErr, worker, result, handed, late>>

\* The first error, else that of ctx; with nothing to read ctx is not asked.
Outcome == IF Len(Shards) = 0 THEN "nil"
           ELSE IF firstErr # "none" THEN firstErr
           ELSE IF cancelled THEN "cancelled" ELSE "nil"

\* wg.Wait, and the return.
Return ==
  /\ result = "running"
  /\ \A w \in Workers : state[w] = "done"
  /\ result' = Outcome
  /\ UNCHANGED <<input, next, cancelled, firstErr, worker, handed, late, stopped>>

\* What one parser finds that reads source s from its head.
InOrder(s) ==
  RecordOffsets(ShardFormat([src |-> s, start |-> 0, end |-> 0]), srcs[s].bytes,
                StartOf(srcs[s].bytes), TRUE)

\* Sources whose head tells the format, and in which record starts can be told
\* apart from anywhere.
Comparable(s) ==
  LET format == ShardFormat([src |-> s, start |-> 0, end |-> 0])
  IN /\ HeadTells(s)
     /\ Regular(format, srcs[s].bytes, TRUE)
     /\ ~BlankRun(srcs[s].bytes) /\ ~GivesUp(srcs[s].bytes)

Init ==
  /\ actual \in ScanFormats
  /\ auto \in AutoModes
  /\ \E c \in Contents(actual), last \in LastSources :
       srcs = <<[bytes |-> c, sized |-> TRUE], last>>
  /\ clear = {s \in 1..2 : Comparable(s)}
  /\ records = {p \in Positioned : p[1] \in clear /\ p[2] \in InOrder(p[1])}
  /\ next = 0 /\ cancelled = FALSE /\ firstErr = "none"
  /\ \E W \in kSubset(HowManyStart, Workers) :
       state = [w \in Workers |-> IF w \in W THEN "draw" ELSE "done"]
  /\ shard = [w \in Workers |-> 0]
  /\ at = [w \in Workers |-> 0] /\ count = [w \in Workers |-> 0] /\ blind = {}
  /\ result = "running"
  /\ handed = [p \in Positioned |-> 0]
  /\ late = [w \in Workers |-> 0] /\ stopped = "nobody"

Next ==
  \/ \E w \in Workers : Draw(w) \/ HandOver(w) \/ ShardDone(w) \/ WorkerFails(w)
  \/ CallerCancels \/ Return

Spec == Init /\ [][Next]_vars
-----------------------------------------------------------------------------
(***************************************************************************)
(* The type invariant: the shared cursor is drawn past the last shard at   *)
(* most once by each worker, and a worker that scans has a shard.          *)
(***************************************************************************)
TypeOK ==
  /\ next \in 0..(Len(Shards) + Cardinality(Workers))
  /\ cancelled \in BOOLEAN
  /\ firstErr \in Workers \cup {"none"}
  /\ state \in [Workers -> {"draw", "scan", "done"}]
  /\ \A w \in Workers : state[w] = "scan" => shard[w] \in 1..Len(Shards)
  /\ at \in [Workers -> 0..MaxLen] /\ count \in [Workers -> Nat]
  /\ blind \subseteq {Shards[i] : i \in 1..Len(Shards)}
  /\ result \in Workers \cup {"running", "cancelled", "nil"}

\* The places of the shards that were entered blind.
Unseen == UNION {{s.src} \X (s.start .. s.end - 1) : s \in blind}

\* What was handed over of the sources and the shards something is promised of.
Kept == LET unseen == Unseen
        IN [p \in Positioned |-> IF p[1] \in clear /\ p \notin unseen THEN handed[p] ELSE 0]

(***************************************************************************)
(* The scan is one of those Scan allows: no record is handed over twice    *)
(* (parallel.go:19), wherever the sources are cut and whoever draws which  *)
(* shard, and a scan that returns nil has handed over exactly the records  *)
(* one parser finds reading each source from its head: none lost at a cut, *)
(* none made up from the middle of another, no shard left out because of a *)
(* cancellation or an error, and nothing after the return.  The exception  *)
(* is a shard whose source failed while its format was looked for: of that *)
(* nil says nothing.                                                       *)
(***************************************************************************)
Promised == INSTANCE Scan WITH
  Places   <- Positioned,
  Failures <- Workers \cup {"cancelled"},
  unread   <- Unseen,
  handed   <- Kept

ImplementsScan == Promised!Spec

(***************************************************************************)
(* An error stops the scan: after ctx is done a worker hands over at most  *)
(* CheckEvery more records.                                                *)
(***************************************************************************)
StopsSoon == \A w \in Workers : late[w] <= CheckEvery

(***************************************************************************)
(* The call returns what stopped it (parallel.go:68-69): nil if nobody     *)
(* did, and the error of the worker that did, whoever failed after it and  *)
(* although the caller cancelled afterwards.  Only a cancellation by the   *)
(* caller may give way to the error of a worker that had not noticed it.   *)
(***************************************************************************)
StopIsReported ==
  result # "running" /\ Len(Shards) # 0 =>
    \/ stopped = "nobody" /\ result = "nil"
    \/ stopped \in Workers /\ result = stopped
    \/ stopped = "caller" /\ result # "nil"
=============================================================================
