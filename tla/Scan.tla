-------------------------------- MODULE Scan --------------------------------
(***************************************************************************)
(* What ParallelScan (parallel.go:11-31) promises its caller, whatever the *)
(* number of workers and wherever they cut the sources: fn gets records of *)
(* the sources in any order, none of them twice, and the call returns nil  *)
(* only when it got all of them, but for the parts of a source that could  *)
(* not be read when its format was looked for: of those it promises        *)
(* nothing, and does not tell.                                             *)
(***************************************************************************)
EXTENDS Naturals

CONSTANTS
  Places,   \* where a record may begin
  Failures  \* what the call may return besides nil

VARIABLES
  records,  \* where the records of the sources begin
  handed,   \* [place -> how often fn got the record that begins there]
  unread,   \* the places nothing is promised of
  result    \* what the call returned, "running" before

vars == <<records, handed, unread, result>>

Init ==
  /\ records \subseteq Places
  /\ handed = [p \in Places |-> 0]
  /\ unread = {}
  /\ result = "running"

HandOver(p) ==
  /\ result = "running"
  /\ p \notin unread /\ handed[p] = 0
  /\ handed' = [handed EXCEPT ![p] = 1]
  /\ UNCHANGED <<records, unread, result>>

\* A part of a source, of which fn has got nothing, cannot be read.
LoseSight ==
  /\ result = "running"
  /\ unread \subseteq unread' /\ unread' \subseteq Places
  /\ \A p \in unread' \ unread : handed[p] = 0
  /\ UNCHANGED <<records, handed, result>>

Complete ==
  /\ result = "running"
  /\ \A p \in records \ unread : handed[p] = 1
  /\ result' = "nil"
  /\ UNCHANGED <<records, handed, unread>>

GiveUp ==
  /\ result = "running"
  /\ result' \in Failures
  /\ UNCHANGED <<records, handed, unread>>

Next ==
  \/ LoseSight \/ GiveUp \/ Complete
  \/ \E p \in records : HandOver(p)

Spec == Init /\ [][Next]_vars

\* What is handed over is a record.
ScanType ==
  /\ records \subseteq Places
  /\ handed \in [Places -> 0..1]
  /\ \A p \in (Places \ records) \cup (Places \cap unread) : handed[p] = 0

\* No record is handed over twice, and nil says that every one was that is not
\* in a part that could not be read.
ExactlyOnce ==
  /\ \A p \in Places : handed[p] <= (IF p \in records THEN 1 ELSE 0)
  /\ result = "nil" => \A p \in records \ unread : handed[p] = 1
=============================================================================
