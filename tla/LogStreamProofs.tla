-------------------------- MODULE LogStreamProofs --------------------------
(***************************************************************************)
(* The abstract stream hands over no byte twice.                           *)
(***************************************************************************)
EXTENDS LogStream, TLAPS

\* What one action may do keeps the two parts of the invariant.
LEMMA StreamStep ==
  ASSUME StreamType, HandedOverOnce, [Next]_vars
  PROVE  StreamType' /\ HandedOverOnce'
<1>1. CASE Write
  BY <1>1 DEF Write, StreamType, HandedOverOnce
<1>2. CASE HandOver
  <2>1. /\ written' = written /\ written \in Nat
        /\ out \in Seq(1..written) /\ out' \in Seq(1..written)
        /\ Len(out) \in Nat /\ Len(out') \in Nat
    BY <1>2 DEF HandOver, StreamType
  <2>2. SUFFICES ASSUME NEW i \in 1..Len(out'), NEW j \in 1..Len(out'), i < j
                 PROVE  out'[i] # out'[j]
    BY <2>1 DEF StreamType, HandedOverOnce
  <2>3. CASE j <= Len(out)
    <3>1. i \in 1..Len(out) /\ j \in 1..Len(out) /\ i # j
      BY <2>1, <2>2, <2>3
    <3>2. out'[i] = out[i] /\ out'[j] = out[j]
      BY <1>2, <3>1 DEF HandOver
    <3> QED BY <3>1, <3>2 DEF HandedOverOnce
  <2>4. CASE i <= Len(out) /\ Len(out) < j
    <3>1. i \in 1..Len(out) /\ j \in (Len(out) + 1)..Len(out')
      BY <2>1, <2>2, <2>4
    <3>2. out'[i] = out[i] /\ out[i] # out'[j]
      BY <1>2, <3>1 DEF HandOver
    <3> QED BY <3>2
  <2>5. CASE Len(out) < i
    <3>1. /\ i \in (Len(out) + 1)..Len(out') /\ j \in (Len(out) + 1)..Len(out')
          /\ i \in 1..Len(out') /\ j \in 1..Len(out')
      BY <2>1, <2>2, <2>5
    <3>2. out'[i] < out'[j]
      BY <1>2, <2>2, <3>1 DEF HandOver
    <3>3. out'[i] \in 1..written /\ out'[j] \in 1..written
      BY <2>1, <3>1
    <3> QED BY <2>1, <3>2, <3>3
  <2> QED BY <2>1, <2>2, <2>3, <2>4, <2>5
<1>3. CASE UNCHANGED vars
  BY <1>3 DEF vars, StreamType, HandedOverOnce
<1> QED
  BY <1>1, <1>2, <1>3 DEF Next

(***************************************************************************)
(* The abstract stream is exactly-once towards the parser: whatever        *)
(* implements LogStream never delivers a byte twice (COR-007).             *)
(***************************************************************************)
THEOREM StreamHandsOverOnce == Spec => []HandedOverOnce
<1>1. Init => StreamType /\ HandedOverOnce
  BY DEF Init, StreamType, HandedOverOnce
<1>2. StreamType /\ HandedOverOnce /\ [Next]_vars => (StreamType /\ HandedOverOnce)'
  BY StreamStep
<1> QED
  BY <1>1, <1>2, PTL DEF Spec
=============================================================================
