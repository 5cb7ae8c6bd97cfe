------------------------------ MODULE FileSet ------------------------------
(***************************************************************************)
(* The FileSet reader of pglogwatch (fileset.go, fileset_open.go,          *)
(* source_file.go): a directory of log files presented as one stream,      *)
(* resumable by byte offset, while a PostgreSQL server writes to, rotates  *)
(* and reuses the files.                                                   *)
(*                                                                         *)
(* The reader is one goroutine.  What interleaves with it is the server    *)
(* and the caller's cancellation, so an action is what happens between two *)
(* system calls: looking at one path of the directory, opening a file,     *)
(* reading a block, comparing the open file with the directory.            *)
(***************************************************************************)
EXTENDS OffsetStore, FiniteSets, FiniteSetsExt

CONSTANTS
  FollowModes,       \* the values of FileSet.Follow the callers use
  ReadSize,          \* len(scratch), the most one file read returns
  BufSizes,          \* lengths of the slices callers pass to Read
  HeadSize,          \* fingerprintBytes
  Persistent,        \* is Offsets a store that survives a process restart?
  Abandon,           \* may the caller cancel, stop early or crash?
  Events,            \* what the server and its housekeeping may do
  ServerDuringPass,  \* may the server act while a session is open?
  MaxBytes,          \* bound: bytes the server writes
  MaxInodes          \* bound: files the server creates

EventKinds ==
  {"append", "rotate", "crash", "rename", "truncate", "reuse", "remove"}

ASSUME FileSetAssumption ==
  /\ Paths = 1..Cardinality(Paths) /\ IsFiniteSet(Paths) /\ 1 \in Paths
  /\ FollowModes \subseteq BOOLEAN
  /\ ReadSize \in Nat \ {0} /\ HeadSize \in Nat \ {0}
  /\ BufSizes \subseteq Nat \ {0}
  /\ Persistent \in BOOLEAN /\ Abandon \in BOOLEAN
  /\ ServerDuringPass \in BOOLEAN
  /\ Events \subseteq EventKinds
  /\ MaxBytes \in Nat /\ MaxInodes \in Nat \ {0}

VARIABLES
  \* the file system, written by the server
  dir,       \* the file each path names, 0 if there is none
  disk,      \* the content of each file, deleted ones included
  active,    \* the path the server writes to
  written,   \* how many bytes were ever written: the next byte is written+1
  \* the FileSet, which outlives its readers
  store,     \* fs.Offsets
  ids,       \* fs.ids, with NoId for a path not yet opened
  \* the reader
  pc,        \* where the session is
  follow,    \* fs.Follow for this session
  cancelled, \* ctx.Err() # nil
  cur,       \* cur, curPath, curID and curPos; NoFile between files
  done,      \* done
  pending,   \* pending
  flush,     \* flush
  todo,      \* openNext: the globbed paths not yet looked at
  target,    \* openNext: the path, offset and identity about to be opened
  \* history
  out        \* the serial numbers of the bytes delivered, in order

server  == <<dir, disk, active, written>>
fileSet == <<store, ids>>
reader  == <<pc, follow, cancelled, cur, done, pending, flush, todo, target>>
vars    == <<server, fileSet, reader, out>>

Inodes == 1..MaxInodes

(***************************************************************************)
(* A byte is told apart from every other by the order in which the server  *)
(* wrote it; of its value only whether it is a newline matters.            *)
(***************************************************************************)
Byte == [id : 1..MaxBytes, nl : BOOLEAN]

\* fileIdentity: os.FileInfo is the inode, head the first bytes.
NoId == [ino |-> 0, head |-> <<>>]

NoFile   == [path |-> 0, ino |-> 0, id |-> NoId, pos |-> 0]
NoTarget == [path |-> 0, offset |-> 0, id |-> NoId]

Existing == {p \in Paths : dir[p] # 0}

ContentOf(p) == disk[dir[p]]

MinOf(a, b) == IF a < b THEN a ELSE b
-----------------------------------------------------------------------------
(***************************************************************************)
(* source_file.go                                                          *)
(***************************************************************************)
Identify(p) ==
  [ino |-> dir[p], head |-> SubSeq(ContentOf(p), 1, MinOf(HeadSize, Len(ContentOf(p))))]

\* Mutant: two files are the same when the directory says so.
SameFile_InodeOnly(a, b) == a.ino = b.ino

\* Mutant: the heads are compared in full, so a file that grew is another file.
SameFile_FullHead(a, b) == a.ino = b.ino /\ a.head = b.head

\* The heads agree over their common prefix, and the inodes agree.
SameFile(a, b) ==
  /\ a.ino # 0 /\ b.ino # 0
  /\ \A i \in 1..MinOf(Len(a.head), Len(b.head)) : a.head[i] = b.head[i]
  /\ a.ino = b.ino

SameFileAsLastTime(p, id) == ids[p] = NoId \/ SameFile(ids[p], id)

\* openFileAt: a file shorter than the offset is read from its start.
StartPosition(content, offset) ==
  IF Len(content) < offset THEN 0 ELSE offset
-----------------------------------------------------------------------------
(***************************************************************************)
(* The server.  It appends to its active file byte by byte, so a reader    *)
(* can see any prefix of a line.                                           *)
(***************************************************************************)
ServerMayAct == ServerDuringPass \/ pc = "none"

FreeInodes == {i \in Inodes : disk[i] = <<>> /\ \A p \in Paths : dir[p] # i /\ cur.ino # i}

EndsWithNewline(content) ==
  content # <<>> => content[Len(content)].nl

Append1 ==
  /\ "append" \in Events /\ ServerMayAct
  /\ written < MaxBytes
  /\ \E nl \in BOOLEAN :
       disk' = [disk EXCEPT ![dir[active]] =
                  Append(@, [id |-> written + 1, nl |-> nl])]
  /\ written' = written + 1
  /\ UNCHANGED <<dir, active, fileSet, reader, out>>

(***************************************************************************)
(* Rotation to the next name, after a complete line; or, with "crash", a   *)
(* server that died mid-line and starts a new file.                        *)
(***************************************************************************)
Rotate ==
  /\ ServerMayAct
  /\ \/ "rotate" \in Events /\ EndsWithNewline(ContentOf(active))
     \/ "crash" \in Events
  /\ active + 1 \in Paths /\ dir[active + 1] = 0
  /\ \E i \in FreeInodes : dir' = [dir EXCEPT ![active + 1] = i]
  /\ active' = active + 1
  /\ UNCHANGED <<disk, written, fileSet, reader, out>>

\* The active file is renamed out of the glob and created again, unless empty.
Rename ==
  /\ "rename" \in Events /\ ServerMayAct
  /\ ContentOf(active) # <<>>
  /\ \E i \in FreeInodes : dir' = [dir EXCEPT ![active] = i]
  /\ UNCHANGED <<disk, active, written, fileSet, reader, out>>

\* log_truncate_on_rotation with a single file name.
Truncate ==
  /\ "truncate" \in Events /\ ServerMayAct
  /\ ContentOf(active) # <<>>
  /\ disk' = [disk EXCEPT ![dir[active]] = <<>>]
  /\ UNCHANGED <<dir, active, written, fileSet, reader, out>>

\* log_truncate_on_rotation with a cycle of names (weekday files).
Reuse ==
  /\ "reuse" \in Events /\ ServerMayAct
  /\ \E p \in Existing \ {active} :
       /\ active' = p
       /\ disk' = [disk EXCEPT ![dir[p]] = <<>>]
  /\ UNCHANGED <<dir, written, fileSet, reader, out>>

\* Housekeeping deletes a file the server no longer writes to.
Remove ==
  /\ "remove" \in Events /\ ServerMayAct
  /\ \E p \in Existing \ {active} : dir' = [dir EXCEPT ![p] = 0]
  /\ UNCHANGED <<disk, active, written, fileSet, reader, out>>

Server == Append1 \/ Rotate \/ Rename \/ Truncate \/ Reuse \/ Remove
-----------------------------------------------------------------------------
(***************************************************************************)
(* The reader.  pc = "idle" between two calls of Read, "ended" once Read   *)
(* has returned io.EOF, "loop" at the head of the loop in Read.            *)
(***************************************************************************)
Newlines(bytes) == {i \in 1..Len(bytes) : bytes[i].nl}

\* lastNewline(pending), one-based, 0 for none.
LastNewline(bytes) == IF Newlines(bytes) = {} THEN 0 ELSE Max(Newlines(bytes))

\* Mutant: everything read may be delivered at once.
Eligible_Everything(bytes, finished) == Len(bytes)

(***************************************************************************)
(* drainPending: the complete lines, or, once the file is finished and     *)
(* nothing else is left, the line that will never gain its newline.        *)
(***************************************************************************)
Eligible(bytes, finished) ==
  IF LastNewline(bytes) > 0 THEN LastNewline(bytes)
  ELSE IF finished THEN Len(bytes) ELSE 0

Deliverable == Eligible(pending, flush)

\* open: a new session over the same FileSet.
Open ==
  /\ pc = "none"
  /\ pc' = "idle"
  /\ follow' \in FollowModes
  /\ cancelled' = FALSE
  /\ done' = {} /\ pending' = <<>> /\ flush' = FALSE
  /\ cur' = NoFile /\ todo' = {} /\ target' = NoTarget
  /\ UNCHANGED <<server, fileSet, out>>

\* Read is called.
ReadCall ==
  /\ pc = "idle"
  /\ pc' = "loop"
  /\ UNCHANGED <<server, fileSet, follow, cancelled, cur, done, pending, flush,
                 todo, target, out>>

\* The caller's context is cancelled, whatever the reader is doing.
Cancel ==
  /\ Abandon
  /\ pc \notin {"none", "ended"} /\ ~cancelled
  /\ cancelled' = TRUE
  /\ UNCHANGED <<server, fileSet, pc, follow, cur, done, pending, flush, todo,
                 target, out>>

\* Read finds the context cancelled: a clean end of the stream.
ReadCancelled ==
  /\ pc = "loop" /\ cancelled
  /\ pc' = "ended"
  /\ UNCHANGED <<server, fileSet, follow, cancelled, cur, done, pending, flush,
                 todo, target, out>>

\* Mutant: the stored offset counts what was read, delivered or not.
OffsetAfterDelivery_AllRead(pos, rest) == pos

\* curPos counts what was read; what is still held back is not delivered.
OffsetAfterDelivery(pos, rest) == pos - Len(rest)

(***************************************************************************)
(* drainPending copies n bytes into the caller's slice and records how far *)
(* the open file has been consumed.  The tail of a closed file is          *)
(* delivered without touching the store: closeCurrent has counted it.      *)
(***************************************************************************)
Deliver(size) ==
  LET n    == MinOf(size, Deliverable)
      rest == SubSeq(pending, n + 1, Len(pending))
  IN /\ pc = "loop" /\ ~cancelled
     /\ Deliverable > 0
     /\ out' = out \o [i \in 1..n |-> pending[i].id]
     /\ pending' = rest
     /\ store' = IF cur.path = 0 THEN store
                 ELSE AfterSet(store, cur.path, OffsetAfterDelivery(cur.pos, rest))
     /\ pc' = "idle"
     /\ UNCHANGED <<server, ids, follow, cancelled, cur, done, flush, todo, target>>

\* Nothing to deliver and no file open: openNext globs the directory.
StartScan ==
  /\ pc = "loop" /\ ~cancelled
  /\ Deliverable = 0 /\ cur.path = 0
  /\ flush' = FALSE
  /\ todo' = Existing
  /\ pc' = "scan"
  /\ UNCHANGED <<server, fileSet, follow, cancelled, cur, done, pending, target, out>>

\* Mutant: the identity of the file behind the name is not looked at.
StartOffset_SizeOnly(p, offset) ==
  IF offset > 0 /\ Len(ContentOf(p)) < offset THEN 0 ELSE offset

(***************************************************************************)
(* The two rotation tests of openNext: a file that was replaced, or that   *)
(* shrank, starts over.                                                    *)
(***************************************************************************)
StartOffset(p, offset) ==
  IF ~SameFileAsLastTime(p, Identify(p)) THEN 0
  ELSE IF offset > 0 /\ Len(ContentOf(p)) < offset THEN 0
  ELSE offset

\* Mutant: a file that was read before is passed over for good.
NothingNew_SeenBefore(p, offset) ==
  SameFileAsLastTime(p, Identify(p)) /\ offset > 0

\* Nothing new since last time: the file is passed over, and not marked done.
NothingNew(p, offset) ==
  /\ SameFileAsLastTime(p, Identify(p))
  /\ offset > 0 /\ Len(ContentOf(p)) = offset

(***************************************************************************)
(* openNext looks at one path: it asks the store (which counts as a use of *)
(* the entry), identifies the file, and either passes it over or settles   *)
(* on it.                                                                  *)
(***************************************************************************)
ScanPath ==
  /\ pc = "scan" /\ todo # {}
  /\ LET p == Min(todo)
         offset == OffsetOf(store, p)
     IN /\ todo' = todo \ {p}
        /\ store' = IF p \in done THEN store ELSE AfterGet(store, p)
        /\ IF p \in done \/ dir[p] = 0 \/ NothingNew(p, offset)
           THEN UNCHANGED <<pc, target>>
           ELSE /\ pc' = "open"
                /\ target' = [path |-> p, offset |-> StartOffset(p, offset),
                              id |-> Identify(p)]
  /\ UNCHANGED <<server, ids, follow, cancelled, cur, done, pending, flush, out>>

(***************************************************************************)
(* No path left.  A pass over the directory ends here; a follower waits    *)
(* one poll interval and goes round.                                       *)
(***************************************************************************)
ScanEnd ==
  /\ pc = "scan" /\ todo = {}
  /\ pc' = IF follow THEN "loop" ELSE "ended"
  /\ UNCHANGED <<server, fileSet, follow, cancelled, cur, done, pending, flush,
                 todo, target, out>>

\* rememberIdentity.
Remember(p, id) == [ids EXCEPT ![p] = id]

\* The file chosen may be gone, or be another one, by the time it is opened.
OpenTarget ==
  /\ pc = "open"
  /\ target' = NoTarget
  /\ LET p == target.path
     IN IF dir[p] = 0
        THEN pc' = "scan" /\ UNCHANGED <<cur, ids, todo>>
        ELSE /\ pc' = "fill"
             /\ cur' = [path |-> p, ino |-> dir[p], id |-> target.id,
                        pos |-> StartPosition(ContentOf(p), target.offset)]
             /\ ids' = Remember(p, target.id)
             /\ todo' = {}
  /\ UNCHANGED <<server, store, follow, cancelled, done, pending, flush, out>>

\* fill is called right after openNext, or when nothing can be delivered.
Filling ==
  \/ pc = "fill"
  \/ pc = "loop" /\ ~cancelled /\ Deliverable = 0 /\ cur.path # 0

\* Mutant: the position is not advanced by what was read.
FillBlock_KeepsPosition ==
  /\ Filling
  /\ LET content == disk[cur.ino]
         n == MinOf(ReadSize, Len(content) - cur.pos)
     IN /\ cur.pos < Len(content)
        /\ pending' = pending \o SubSeq(content, cur.pos + 1, cur.pos + n)
  /\ pc' = "loop"
  /\ UNCHANGED <<server, fileSet, cur, follow, cancelled, done, flush, todo,
                 target, out>>

\* fill reads a block at the position of the handle.
FillBlock ==
  /\ Filling
  /\ LET content == disk[cur.ino]
         n == MinOf(ReadSize, Len(content) - cur.pos)
     IN /\ cur.pos < Len(content)
        /\ pending' = pending \o SubSeq(content, cur.pos + 1, cur.pos + n)
        /\ cur' = [cur EXCEPT !.pos = @ + n]
  /\ pc' = "loop"
  /\ UNCHANGED <<server, fileSet, follow, cancelled, done, flush, todo, target, out>>

\* Mutant: the offset stored stops short of the line that has no newline.
OffsetAtClose_Delivered(pos, held) == pos - Len(held)

\* Mutant: the offset stored is that of the last byte rather than the next.
OffsetAtClose_LastByte(pos, held) == pos - 1

\* The offset closeCurrent stores: everything read, delivered or not.
OffsetAtClose(pos, held) == pos

\* closeCurrent: the file is finished and its last line may go.
CloseCurrent ==
  /\ store' = AfterSet(store, cur.path, OffsetAtClose(cur.pos, pending))
  /\ done' = done \cup {cur.path}
  /\ flush' = TRUE
  /\ cur' = NoFile

\* fill meets the end of the file: a pass is done with it.
FillEnd ==
  /\ Filling
  /\ cur.pos >= Len(disk[cur.ino])
  /\ IF follow
     THEN pc' = "eof" /\ UNCHANGED <<store, done, flush, cur>>
     ELSE pc' = "loop" /\ CloseCurrent
  /\ UNCHANGED <<server, ids, follow, cancelled, pending, todo, target, out>>

\* Mutant: the globbed paths are taken to be sorted newest first.
IsNewestFile_First == Existing # {} /\ cur.path = Min(Existing)

IsNewestFile == Existing # {} /\ cur.path = Max(Existing)

CurrentFileWasReplaced ==
  dir[cur.path] = 0 \/ ~SameFile(cur.id, Identify(cur.path))

(***************************************************************************)
(* A follower at the end of a file looks at the directory.  The newest     *)
(* file stays open and is polled; any other, and one that was replaced, is *)
(* closed.  After a replacement the code also deletes curPath from done,   *)
(* when closeCurrent has already emptied curPath: the path stays in done.  *)
(***************************************************************************)
AtEndOfFile ==
  /\ pc = "eof"
  /\ pc' = "loop"
  /\ IF IsNewestFile /\ ~CurrentFileWasReplaced
     THEN UNCHANGED <<store, done, flush, cur>>
     ELSE CloseCurrent
  /\ UNCHANGED <<server, ids, follow, cancelled, pending, todo, target, out>>

Reset ==
  /\ pc' = "none" /\ cancelled' = FALSE
  /\ done' = {} /\ pending' = <<>> /\ flush' = FALSE
  /\ cur' = NoFile /\ todo' = {} /\ target' = NoTarget
  /\ follow' = FALSE
  /\ UNCHANGED <<server, out>>

(***************************************************************************)
(* Close.  A caller that drains closes after the end of the stream; one    *)
(* that abandons may close between any two reads.                          *)
(***************************************************************************)
Close ==
  /\ pc = "ended" \/ (Abandon /\ pc = "idle")
  /\ Reset
  /\ UNCHANGED fileSet

\* The process dies and starts again: only a persistent store remembers.
Restart ==
  /\ Abandon /\ pc # "none"
  /\ Reset
  /\ ids' = [p \in Paths |-> NoId]
  /\ store' = IF Persistent THEN store ELSE EmptyStore

ReadStep ==
  \/ ReadCancelled
  \/ \E size \in BufSizes : Deliver(size)
  \/ StartScan \/ ScanPath \/ ScanEnd \/ OpenTarget
  \/ FillBlock \/ FillEnd \/ AtEndOfFile

Init ==
  /\ dir = [p \in Paths |-> IF p = 1 THEN 1 ELSE 0]
  /\ disk = [i \in Inodes |-> <<>>]
  /\ active = 1 /\ written = 0
  /\ store = EmptyStore
  /\ ids = [p \in Paths |-> NoId]
  /\ pc = "none" /\ follow = FALSE /\ cancelled = FALSE
  /\ cur = NoFile /\ done = {} /\ pending = <<>> /\ flush = FALSE
  /\ todo = {} /\ target = NoTarget
  /\ out = <<>>

Next ==
  \/ Server
  \/ Open \/ ReadCall \/ ReadStep
  \/ Cancel \/ Close \/ Restart

Spec == Init /\ [][Next]_vars
-----------------------------------------------------------------------------
(***************************************************************************)
(* Fairness.  A collector loop calls Read until it returns io.EOF, closes, *)
(* and opens again (README.md, FileSet.Open); the reader runs until Read   *)
(* returns.  Nothing is assumed of the server.                             *)
(***************************************************************************)
FairSpec == Spec /\ WF_vars(Open \/ ReadCall \/ ReadStep \/ Close)
-----------------------------------------------------------------------------
Delivered == {out[i] : i \in 1..Len(out)}

Identities == [ino : {0} \cup Inodes, head : Seq(Byte)]

(***************************************************************************)
(* The type invariant of the file system, the FileSet and its reader.      *)
(***************************************************************************)
TypeOK ==
  /\ dir \in [Paths -> {0} \cup Inodes]
  /\ disk \in [Inodes -> Seq(Byte)]
  /\ active \in Existing
  /\ written \in 0..MaxBytes
  /\ store.order \in Seq(Paths) /\ store.offset \in [Paths -> Nat]
  /\ ids \in [Paths -> Identities]
  /\ pc \in {"none", "idle", "loop", "scan", "open", "fill", "eof", "ended"}
  /\ follow \in BOOLEAN /\ cancelled \in BOOLEAN /\ flush \in BOOLEAN
  /\ cur \in [path : {0} \cup Paths, ino : {0} \cup Inodes,
              id : Identities, pos : Nat]
  /\ done \in SUBSET Paths /\ todo \in SUBSET Paths
  /\ pending \in Seq(Byte)
  /\ target \in [path : {0} \cup Paths, offset : Nat, id : Identities]
  /\ out \in Seq(Nat)

(***************************************************************************)
(* COR-007, AC-025: no byte is delivered twice, over any number of         *)
(* sessions, cancellations and restarts, while files only grow and rotate  *)
(* to new names and the store has room for every path.                     *)
(***************************************************************************)
AtMostOnce == \A i, j \in 1..Len(out) : out[i] = out[j] => i = j

(***************************************************************************)
(* The reader implements the abstract stream: every chunk it delivers is   *)
(* new, and in the order of writing.  (Under the conditions of AtMostOnce.)*)
(***************************************************************************)
Stream == INSTANCE LogStream

ImplementsLogStream == Stream!Spec

(***************************************************************************)
(* Below a stored offset every complete line has been delivered to its     *)
(* newline, in this session or an earlier one: whatever an interrupted     *)
(* reader skips is the unterminated tail of a file and never a line end.   *)
(***************************************************************************)
StoredOffsetSkipsNoLineEnd ==
  \A p \in Existing :
    \A i \in 1..MinOf(store.offset[p], Len(ContentOf(p))) :
      ContentOf(p)[i].nl => ContentOf(p)[i].id \in Delivered

(***************************************************************************)
(* IFC-005: what a follower has delivered of the file being written ends   *)
(* with complete lines.  (Callers that only follow; a pass that does not   *)
(* follow hands over the tail of the active file as well.)                 *)
(***************************************************************************)
FollowerWithholdsPartialLine ==
  \A i \in 1..Len(ContentOf(active)) :
    ContentOf(active)[i].id \in Delivered =>
      \E j \in i..Len(ContentOf(active)) : ContentOf(active)[j].nl

(***************************************************************************)
(* While a file is open, what is held back is exactly what the handle last *)
(* read of it, and the stored offset is the position of the first byte     *)
(* held back: stopping there neither skips nor repeats anything (IFC-006). *)
(* (While files only grow.)                                                *)
(***************************************************************************)
ResumePointIsFirstHeldByte ==
  cur.path # 0 =>
    /\ Len(pending) <= cur.pos /\ cur.pos <= Len(disk[cur.ino])
    /\ pending = SubSeq(disk[cur.ino], cur.pos - Len(pending) + 1, cur.pos)
    /\ store.offset[cur.path] = cur.pos - Len(pending)

(***************************************************************************)
(* COR-007 for a FileSet that is read in passes: when a pass has ended     *)
(* everything in the directory has been delivered, whatever happened to    *)
(* the files since the last pass -- appended to, renamed and recreated,    *)
(* truncated and grown again past the old offset, or removed.              *)
(***************************************************************************)
PassIsComplete ==
  pc = "ended" /\ ~cancelled =>
    \A p \in Existing : \A i \in 1..Len(ContentOf(p)) :
      ContentOf(p)[i].id \in Delivered

(***************************************************************************)
(* The bytes of one file leave in the order they were written, with no gap.*)
(***************************************************************************)
NoGapWithinFile ==
  \A p \in Existing : \A i, j \in 1..Len(ContentOf(p)) :
    i < j /\ ContentOf(p)[j].id \in Delivered => ContentOf(p)[i].id \in Delivered

\* Byte n is part of a complete line of the file the server writes to.
OnActiveLine(n) ==
  \E i \in 1..Len(ContentOf(active)) :
    /\ ContentOf(active)[i].id = n
    /\ \E j \in i..Len(ContentOf(active)) : ContentOf(active)[j].nl

(***************************************************************************)
(* A complete line of the active file is eventually delivered for as long  *)
(* as it stays there: until the server rotates away from the file, renames *)
(* it out of the directory or truncates it.                                *)
(***************************************************************************)
ActiveLineDelivered ==
  \A n \in 1..MaxBytes : OnActiveLine(n) ~> (n \in Delivered \/ ~OnActiveLine(n))

(***************************************************************************)
(* A collector that reads in passes misses nothing: every byte written is  *)
(* delivered by some pass, even one that was appended to a file after a    *)
(* pass had read its end.                                                  *)
(***************************************************************************)
PassesMissNothing ==
  \A n \in 1..MaxBytes :
    (written >= n) ~> (n \in Delivered \/ (pc # "none" /\ follow))
=============================================================================
