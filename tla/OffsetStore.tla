---------------------------- MODULE OffsetStore ----------------------------
(***************************************************************************)
(* The bounded in-memory OffsetStore of pglogwatch (offsets.go): byte      *)
(* offsets per log path, at most MaxTracked of them, least recently used   *)
(* evicted first.                                                          *)
(*                                                                         *)
(* This module holds the store as a value with pure operators, so that the *)
(* FileSet model can keep one as part of its own state.  OffsetStoreUse    *)
(* drives the same operators as a component by itself.                     *)
(***************************************************************************)
EXTENDS Naturals, Sequences

CONSTANTS
  Paths,       \* the log file paths the program may ask about
  MaxTracked   \* memoryOffsetStore.max; 2500 in the code by default

ASSUME TrackedAssumption == MaxTracked \in Nat \ {0}

(***************************************************************************)
(* A store value: order is the recency list, front (index 1) most recently *)
(* used; offset gives the stored offset of a path.  Get on an untracked    *)
(* path yields (0, false) and no caller in the package looks at the second *)
(* result, so the offset of an untracked path is 0.                        *)
(***************************************************************************)
EmptyStore == [order |-> <<>>, offset |-> [p \in Paths |-> 0]]

Tracked(s) == {s.order[i] : i \in 1..Len(s.order)}

\* The index of p in the recency list.
Place(s, p) == CHOOSE i \in 1..Len(s.order) : s.order[i] = p

\* list.MoveToFront: p first, those that were ahead of it one place back.
MoveToFront(s, p) ==
  [i \in 1..Len(s.order) |-> IF i = 1 THEN p
                             ELSE IF i <= Place(s, p) THEN s.order[i-1]
                             ELSE s.order[i]]

\* list.PushFront.
PushFront(s, p) ==
  [i \in 1..(Len(s.order) + 1) |-> IF i = 1 THEN p ELSE s.order[i-1]]

OffsetOf(s, p) == s.offset[p]

\* Mutant: a Get that forgets to move its hit to the front.
AfterGet_NoTouch(s, p) == s

(***************************************************************************)
(* What Get leaves behind: a hit is moved to the front, a miss changes     *)
(* nothing.                                                                *)
(***************************************************************************)
AfterGet(s, p) ==
  IF p \in Tracked(s) THEN [s EXCEPT !.order = MoveToFront(s, p)] ELSE s

\* Mutant: Set adds to the stored offset instead of replacing it.
AfterSet_Adds(s, p, o) ==
  [order  |-> IF p \in Tracked(s) THEN MoveToFront(s, p) ELSE PushFront(s, p),
   offset |-> [s.offset EXCEPT ![p] = @ + o]]

\* Mutant: eviction drops the list entry and leaves the map entry behind.
AfterSet_LeavesItem(s, p, o) ==
  [order  |-> IF p \in Tracked(s) THEN MoveToFront(s, p)
              ELSE IF Len(s.order) < MaxTracked THEN PushFront(s, p)
              ELSE [i \in 1..MaxTracked |-> PushFront(s, p)[i]],
   offset |-> [s.offset EXCEPT ![p] = o]]

(***************************************************************************)
(* What Set leaves behind.  A tracked path is updated in place and moved   *)
(* to the front; a new one is pushed and, when the list has grown past the *)
(* bound, the entry at the back goes, and its offset with it.              *)
(***************************************************************************)
AfterSet(s, p, o) ==
  IF p \in Tracked(s)
  THEN [order |-> MoveToFront(s, p), offset |-> [s.offset EXCEPT ![p] = o]]
  ELSE IF Len(s.order) < MaxTracked
  THEN [order |-> PushFront(s, p), offset |-> [s.offset EXCEPT ![p] = o]]
  ELSE [order  |-> [i \in 1..MaxTracked |-> PushFront(s, p)[i]],
        offset |-> [s.offset EXCEPT ![s.order[Len(s.order)]] = 0, ![p] = o]]
=============================================================================
