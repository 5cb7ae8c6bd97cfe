----------------------------- MODULE LogStream -----------------------------
(***************************************************************************)
(* What a log source promises its parser, whatever it reads from: the      *)
(* server writes bytes 1, 2, 3, ...; the stream hands over chunks of them, *)
(* each chunk in the order of writing, and no byte twice.  It does not say *)
(* that every byte is handed over: see FileSet for when that is so.        *)
(***************************************************************************)
EXTENDS Naturals, Sequences

VARIABLES
  written,  \* how many bytes the server has written
  out       \* the bytes handed over so far

vars == <<written, out>>

Init == written = 0 /\ out = <<>>

Write ==
  /\ written' = written + 1
  /\ UNCHANGED out

(***************************************************************************)
(* A chunk is appended to the stream.                                      *)
(***************************************************************************)
HandOver ==
  /\ out' \in Seq(1..written)
  /\ Len(out) < Len(out')
  /\ \A k \in 1..Len(out) : out'[k] = out[k]
  /\ \A k \in (Len(out) + 1)..Len(out') :
       /\ \A i \in 1..Len(out) : out[i] # out'[k]
       /\ \A i \in (Len(out) + 1)..Len(out') : i < k => out'[i] < out'[k]
  /\ UNCHANGED written

Next == Write \/ HandOver

Spec == Init /\ [][Next]_vars

\* The stream holds bytes that were written.
StreamType == written \in Nat /\ out \in Seq(1..written)

\* No byte is handed over twice.
HandedOverOnce == \A i, j \in 1..Len(out) : out[i] = out[j] => i = j
=============================================================================
