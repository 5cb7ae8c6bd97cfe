---------------------------- MODULE RemoteReader ----------------------------
(***************************************************************************)
(* The remote log reader of pglogwatch (pgremote/open.go, pgremote/conn.go)*)
(* which reads a server's log directory through pg_ls_logdir() and         *)
(* pg_read_file(): a listing with sizes, then fixed-size chunks by offset. *)
(*                                                                         *)
(* An action is what happens between two queries, or between two calls of  *)
(* Read.  The server writes, rotates and truncates in between.             *)
(***************************************************************************)
EXTENDS Naturals, Sequences, FiniteSets, FiniteSetsExt

CONSTANTS
  Files,         \* the names in the log directory, in the order of the listing
  FollowModes,   \* the values of Config.Follow
  CallerOffsets, \* does the caller pass an OffsetStore? else Config.Offsets is nil
  MaxTracked,    \* maxTrackedFiles, the bound of the fallback store
  ChunkSize,     \* Config.chunkSize()
  BufSizes,      \* lengths of the slices passed to Read
  CanCancel,     \* may the caller cancel its context?
  Truncates,     \* may the server truncate and reuse a file?
  MaxFailures,   \* bound: queries that fail
  MaxBytes       \* bound: bytes the server writes

ASSUME RemoteAssumption ==
  /\ IsFiniteSet(Files) /\ Files = 1..Cardinality(Files) /\ 1 \in Files
  /\ FollowModes \subseteq BOOLEAN
  /\ CallerOffsets \in BOOLEAN /\ CanCancel \in BOOLEAN /\ Truncates \in BOOLEAN
  /\ MaxTracked \in Nat \ {0} /\ ChunkSize \in Nat \ {0}
  /\ BufSizes \subseteq Nat \ {0}
  /\ MaxFailures \in Nat /\ MaxBytes \in Nat

VARIABLES
  \* the server
  content,   \* the bytes of each file
  newest,    \* files 1..newest exist, the server writes to the newest
  written,   \* how many bytes were ever written
  shrunk,    \* history: the files that were truncated
  \* the caller's or the fallback offset store: [path -> offset], 0 if none
  offsets,
  tracked,   \* the paths the store has an entry for
  \* the reader
  pc,        \* where it is
  follow,    \* cfg.Follow
  cancelled, \* ctx.Err() # nil
  listing,   \* names[idx..]: the listed files not yet looked at, with sizes
  cur,       \* curPath (0 between files) and curOff
  pending,   \* pending
  flush,     \* flush
  failures,  \* how many queries have failed
  \* history
  out        \* the serial numbers of the bytes delivered, in order, for as
             \* long as the offset store remembers

server == <<content, newest, written, shrunk>>
store  == <<offsets, tracked>>
reader == <<pc, follow, cancelled, listing, cur, pending, flush, failures>>
vars   == <<server, store, reader, out>>

Byte == [id : 1..MaxBytes, nl : BOOLEAN]
NoFile == [path |-> 0, off |-> 0]
Existing == 1..newest
MinOf(a, b) == IF a < b THEN a ELSE b
-----------------------------------------------------------------------------
(***************************************************************************)
(* The server.                                                             *)
(***************************************************************************)
Append1 ==
  /\ written < MaxBytes
  /\ \E nl \in BOOLEAN :
       content' = [content EXCEPT ![newest] =
                     Append(@, [id |-> written + 1, nl |-> nl])]
  /\ written' = written + 1
  /\ UNCHANGED <<newest, shrunk, store, reader, out>>

\* A new file, whether or not the old one ends with a complete line.
Rotate ==
  /\ newest + 1 \in Files
  /\ newest' = newest + 1
  /\ UNCHANGED <<content, written, shrunk, store, reader, out>>

Truncate ==
  /\ Truncates
  /\ content[newest] # <<>>
  /\ content' = [content EXCEPT ![newest] = <<>>]
  /\ shrunk' = shrunk \cup {newest}
  /\ UNCHANGED <<newest, written, store, reader, out>>

Server == Append1 \/ Rotate \/ Truncate
-----------------------------------------------------------------------------
(***************************************************************************)
(* The offset store.  The caller's is taken to keep everything; the        *)
(* fallback, memOffsets, is emptied when it is full, and a follower that   *)
(* was given none gets a new one from every Open.                          *)
(***************************************************************************)
HasStore(fol) == CallerOffsets \/ fol

\* Mutant: the fallback store is emptied one entry early.
SetOffset_Early(p, o) ==
  IF ~CallerOffsets /\ Cardinality(tracked) + 1 >= MaxTracked
  THEN /\ offsets' = [q \in Files |-> IF q = p THEN o ELSE 0]
       /\ tracked' = {p}
  ELSE /\ offsets' = [offsets EXCEPT ![p] = o]
       /\ tracked' = tracked \cup {p}

\* Set empties a full fallback store even when it has an entry for p.
SetOffset(p, o) ==
  IF ~CallerOffsets /\ Cardinality(tracked) >= MaxTracked
  THEN /\ offsets' = [q \in Files |-> IF q = p THEN o ELSE 0]
       /\ tracked' = {p}
  ELSE /\ offsets' = [offsets EXCEPT ![p] = o]
       /\ tracked' = tracked \cup {p}

\* recordOffset, and the same store in finishFile.
Record(p, o) ==
  IF HasStore(follow) /\ p # 0 THEN SetOffset(p, o) ELSE UNCHANGED store
-----------------------------------------------------------------------------
(***************************************************************************)
(* The reader.                                                             *)
(***************************************************************************)
Newlines(bytes) == {i \in 1..Len(bytes) : bytes[i].nl}

LastNewline(bytes) == IF Newlines(bytes) = {} THEN 0 ELSE Max(Newlines(bytes))

MaxHeldBack == 2 * ChunkSize

\* Mutant: no bound on what is held back for want of a newline.
Eligible_Unbounded(bytes, finished) ==
  IF LastNewline(bytes) > 0 THEN LastNewline(bytes)
  ELSE IF finished THEN Len(bytes) ELSE 0

(***************************************************************************)
(* drain: complete lines; the rest of a finished file; and a line too long *)
(* to hold back.                                                           *)
(***************************************************************************)
Eligible(bytes, finished) ==
  IF LastNewline(bytes) > 0 THEN LastNewline(bytes)
  ELSE IF finished \/ Len(bytes) >= MaxHeldBack THEN Len(bytes)
  ELSE 0

Deliverable == Eligible(pending, flush)

\* pg_ls_logdir(): the names and their sizes at that moment.
Listed == {[path |-> p, size |-> Len(content[p])] : p \in Existing}

(***************************************************************************)
(* Open lists the directory; a query that fails opens no session.          *)
(***************************************************************************)
Open ==
  /\ pc = "none"
  /\ pc' = "idle"
  /\ follow' \in FollowModes
  /\ IF CallerOffsets THEN UNCHANGED store
     ELSE offsets' = [p \in Files |-> 0] /\ tracked' = {}
  /\ listing' = Listed
  /\ out' = IF CallerOffsets THEN out ELSE <<>>
  /\ cancelled' = FALSE /\ cur' = NoFile /\ pending' = <<>> /\ flush' = FALSE
  /\ UNCHANGED <<server, failures>>

ReadCall ==
  /\ pc = "idle"
  /\ pc' = "loop"
  /\ UNCHANGED <<server, store, follow, cancelled, listing, cur, pending, flush,
                 failures, out>>

Cancel ==
  /\ CanCancel
  /\ pc \notin {"none", "ended"} /\ ~cancelled
  /\ cancelled' = TRUE
  /\ UNCHANGED <<server, store, pc, follow, listing, cur, pending, flush,
                 failures, out>>

\* Cancelled at the head of the loop: io.EOF for a follower, else an error.
ReadCancelled ==
  /\ pc = "loop" /\ cancelled
  /\ pc' = IF follow THEN "ended" ELSE "failed"
  /\ UNCHANGED <<server, store, follow, cancelled, listing, cur, pending, flush,
                 failures, out>>

\* Mutant: recordOffset counts what is still held back.
OffsetAfterDelivery_AllFetched(off, rest) == off

\* recordOffset: everything fetched, less whatever is still held back.
OffsetAfterDelivery(off, rest) == off - Len(rest)

Deliver(size) ==
  LET n    == MinOf(size, Deliverable)
      rest == SubSeq(pending, n + 1, Len(pending))
  IN /\ pc = "loop" /\ ~cancelled
     /\ Deliverable > 0
     /\ out' = out \o [i \in 1..n |-> pending[i].id]
     /\ pending' = rest
     /\ Record(cur.path, OffsetAfterDelivery(cur.off, rest))
     /\ pc' = "idle"
     /\ UNCHANGED <<server, follow, cancelled, listing, cur, flush, failures>>

\* Mutant: a file shorter than its offset is read on from the offset.
StartOffset_NoShrinkTest(f, off) == off

\* Rotation is seen by size only: a file that shrank starts over.
StartOffset(f, off) == IF f.size < off THEN 0 ELSE off

\* Mutant: a file that was read before is passed over for good.
PassedOver_SeenBefore(f, off) == off > 0

\* Nothing new since last time.
PassedOver(f, off) == off > 0 /\ f.size = off

\* nextFile looks at the next listed file.
NextFile ==
  /\ pc = "loop" /\ ~cancelled
  /\ Deliverable = 0 /\ cur.path = 0 /\ listing # {}
  /\ LET f   == CHOOSE g \in listing : \A h \in listing : g.path <= h.path
         off == IF HasStore(follow) THEN offsets[f.path] ELSE 0
     IN /\ listing' = listing \ {f}
        /\ IF PassedOver(f, off)
           THEN UNCHANGED <<pc, cur, flush>>
           ELSE /\ cur' = [path |-> f.path, off |-> StartOffset(f, off)]
                /\ flush' = FALSE
                /\ pc' = "fetch"
  /\ UNCHANGED <<server, store, follow, cancelled, pending, failures, out>>

\* Every listed file was looked at: a pass is done, a follower waits.
ListingDone ==
  /\ pc = "loop" /\ ~cancelled
  /\ Deliverable = 0 /\ cur.path = 0 /\ listing = {}
  /\ pc' = IF follow THEN "relist" ELSE "ended"
  /\ UNCHANGED <<server, store, follow, cancelled, listing, cur, pending, flush,
                 failures, out>>

Relist ==
  /\ pc = "relist" /\ ~cancelled
  /\ listing' = Listed
  /\ pc' = "loop"
  /\ UNCHANGED <<server, store, follow, cancelled, cur, pending, flush,
                 failures, out>>

\* The open file has more to give and nothing can be delivered yet.
FetchMore ==
  /\ pc = "loop" /\ ~cancelled
  /\ Deliverable = 0 /\ cur.path # 0
  /\ pc' = "fetch"
  /\ UNCHANGED <<server, store, follow, cancelled, listing, cur, pending, flush,
                 failures, out>>

\* Mutant: a follower keeps the partial line and the offset behind it.
KeptOfFollower_All(bytes) == Len(bytes)

\* finishFile of a follower drops what follows the last newline.
KeptOfFollower(bytes) == LastNewline(bytes)

\* Mutant: finishFile forgets to store the offset.
FinishFile_NoRecord(bytes, off) ==
  LET kept == IF follow THEN KeptOfFollower(bytes) ELSE Len(bytes)
  IN /\ pending' = SubSeq(bytes, 1, kept)
     /\ flush' = ~follow
     /\ cur' = NoFile
     /\ UNCHANGED store

(***************************************************************************)
(* finishFile.  The offset stored is that of everything fetched, less, for *)
(* a follower, the partial line it gives up and will fetch again.          *)
(***************************************************************************)
FinishFile(bytes, off) ==
  LET kept == IF follow THEN KeptOfFollower(bytes) ELSE Len(bytes)
  IN /\ Record(cur.path, off - (Len(bytes) - kept))
     /\ pending' = SubSeq(bytes, 1, kept)
     /\ flush' = ~follow
     /\ cur' = NoFile

\* Mutant: the offset advances by a whole chunk, however short the answer.
Advance_WholeChunk(off, n) == off + ChunkSize

Advance(off, n) == off + n

\* A short chunk, or none at all, means that the file ended.
EndsFile(n) == n < ChunkSize

Fetch ==
  /\ pc = "fetch" /\ ~cancelled
  /\ LET avail == content[cur.path]
         n     == IF cur.off < Len(avail) THEN MinOf(ChunkSize, Len(avail) - cur.off)
                  ELSE 0
         bytes == pending \o SubSeq(avail, cur.off + 1, cur.off + n)
     IN IF EndsFile(n)
        THEN FinishFile(bytes, Advance(cur.off, n))
        ELSE /\ pending' = bytes
             /\ cur' = [cur EXCEPT !.off = Advance(@, n)]
             /\ UNCHANGED <<store, flush>>
  /\ pc' = "loop"
  /\ UNCHANGED <<server, follow, cancelled, listing, failures, out>>

(***************************************************************************)
(* A query fails, because the connection does or because the context was   *)
(* cancelled while it ran: Read returns the error and the parser, which    *)
(* latches it, is done with the session.                                   *)
(***************************************************************************)
QueryFails ==
  /\ pc \in {"fetch", "relist"}
  /\ \/ cancelled /\ UNCHANGED failures
     \/ failures < MaxFailures /\ failures' = failures + 1
  /\ pc' = "failed"
  /\ UNCHANGED <<server, store, follow, cancelled, listing, cur, pending, flush, out>>

\* The wait between two listings ends early when the context is cancelled.
WaitCancelled ==
  /\ pc = "relist" /\ cancelled
  /\ pc' = "ended"
  /\ UNCHANGED <<server, store, follow, cancelled, listing, cur, pending, flush,
                 failures, out>>

Close ==
  /\ pc \in {"ended", "failed"}
  /\ pc' = "none"
  /\ cancelled' = FALSE /\ follow' = FALSE
  /\ listing' = {} /\ cur' = NoFile /\ pending' = <<>> /\ flush' = FALSE
  /\ UNCHANGED <<server, store, failures, out>>

ReadStep ==
  \/ ReadCancelled
  \/ \E size \in BufSizes : Deliver(size)
  \/ NextFile \/ ListingDone \/ Relist \/ FetchMore \/ Fetch \/ WaitCancelled

Init ==
  /\ content = [p \in Files |-> <<>>]
  /\ newest = 1 /\ written = 0 /\ shrunk = {}
  /\ offsets = [p \in Files |-> 0] /\ tracked = {}
  /\ pc = "none" /\ follow = FALSE /\ cancelled = FALSE
  /\ listing = {} /\ cur = NoFile /\ pending = <<>> /\ flush = FALSE
  /\ failures = 0
  /\ out = <<>>

Next ==
  \/ Server
  \/ Open \/ ReadCall \/ ReadStep \/ QueryFails
  \/ Cancel \/ Close

Spec == Init /\ [][Next]_vars

(***************************************************************************)
(* Fairness: the collector keeps reading and reopens after the end or an   *)
(* error; queries return.  Nothing is assumed of the server.               *)
(***************************************************************************)
FairSpec == Spec /\ WF_vars(Open \/ ReadCall \/ ReadStep \/ Close)
-----------------------------------------------------------------------------
Delivered == {out[i] : i \in 1..Len(out)}

(***************************************************************************)
(* The type invariant of the server, the offset store and the reader.      *)
(***************************************************************************)
TypeOK ==
  /\ content \in [Files -> Seq(Byte)]
  /\ newest \in Files /\ written \in 0..MaxBytes /\ shrunk \subseteq Files
  /\ offsets \in [Files -> 0..MaxBytes] /\ tracked \subseteq Files
  /\ pc \in {"none", "idle", "loop", "fetch", "relist", "ended", "failed"}
  /\ follow \in BOOLEAN /\ cancelled \in BOOLEAN /\ flush \in BOOLEAN
  /\ listing \subseteq [path : Files, size : 0..MaxBytes]
  /\ cur \in [path : {0} \cup Files, off : 0..MaxBytes]
  /\ pending \in Seq(Byte)
  /\ failures \in 0..MaxFailures
  /\ out \in Seq(1..MaxBytes)

(***************************************************************************)
(* COR-007 for the remote reader: every chunk it delivers is new and in    *)
(* the order of writing, over any number of sessions, failed queries and   *)
(* truncations, when the caller's store keeps every offset.                *)
(***************************************************************************)
Stream == INSTANCE LogStream

ImplementsLogStream == Stream!Spec

(***************************************************************************)
(* conn.go:77: a follower that was given no store never delivers a byte    *)
(* twice, as long as the directory holds fewer files than the fallback     *)
(* store has entries.                                                      *)
(***************************************************************************)
FollowerDeliversOnce == \A i, j \in 1..Len(out) : out[i] = out[j] => i = j

\* Bytes i..k of the content hold no newline.
Unbroken(bytes, i, k) == \A j \in i..k : ~bytes[j].nl

(***************************************************************************)
(* open.go:56: what a follower has delivered ends with complete lines,     *)
(* whatever the chunk boundaries and the lengths of the caller's slices,   *)
(* except for a line too long to be held back.                             *)
(***************************************************************************)
FollowerWithholdsPartialLine ==
  \A p \in Files : \A i \in 1..Len(content[p]) :
    content[p][i].id \in Delivered =>
      \/ ~Unbroken(content[p], i, Len(content[p]))
      \/ \E a \in 1..i : /\ a + MaxHeldBack - 1 <= Len(content[p])
                         /\ Unbroken(content[p], a, a + MaxHeldBack - 1)

(***************************************************************************)
(* PERF-026: what is held back for want of a newline stays below two       *)
(* chunks, and no chunk is fetched before everything deliverable has gone, *)
(* so the reader never holds three chunks.                                 *)
(***************************************************************************)
HeldBackBounded == Len(pending) < 3 * ChunkSize

(***************************************************************************)
(* AC-025 for the remote path: every complete line below a stored offset   *)
(* has been delivered or is held by a running session that will deliver    *)
(* it.  (Of files that were never truncated.)                              *)
(***************************************************************************)
StoredOffsetIsAccountedFor ==
  \A p \in Files \ shrunk :
    \A i \in 1..MinOf(offsets[p], Len(content[p])) :
      ~Unbroken(content[p], i, offsets[p]) =>
        \/ content[p][i].id \in Delivered
        \/ \E k \in 1..Len(pending) : pending[k] = content[p][i]

\* Byte n is part of a complete line of file p.
OnLine(n, p) ==
  \E i \in 1..Len(content[p]) :
    content[p][i].id = n /\ ~Unbroken(content[p], i, Len(content[p]))

(***************************************************************************)
(* Every complete line of a file that is never truncated is delivered, by  *)
(* a follower or by some pass, although queries fail now and then and the  *)
(* server rotates at any moment.                                           *)
(***************************************************************************)
CompleteLineDelivered ==
  \A p \in Files : \A n \in 1..MaxBytes :
    OnLine(n, p) ~> (n \in Delivered \/ p \in shrunk)

(***************************************************************************)
(* E15: a file that was truncated below the stored offset is noticed and   *)
(* read again from its start.                                              *)
(***************************************************************************)
TruncatedFileRestarts ==
  \A p \in Files :
    (Len(content[p]) < offsets[p]) ~> (offsets[p] <= Len(content[p]))
=============================================================================
