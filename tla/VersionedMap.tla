---------------------------- MODULE VersionedMap ----------------------------
(***************************************************************************)
(* What the storage engine promises: a map that batches change atomically, *)
(* read snapshots that keep showing the map as it was when they were taken,*)
(* and crashes that lose the open snapshots and nothing else.              *)
(*                                                                         *)
(* The n-th operation ever written puts the value n, so a map also says    *)
(* which write each of its values comes from.                              *)
(***************************************************************************)
EXTENDS Naturals, Sequences

CONSTANTS
  Keys,
  Batches,  \* the batches that may be written: sequences of [key, del]
  Handles   \* what can hold on to a snapshot

VARIABLES
  clock,    \* how many operations have been written
  now,      \* now[k]: the value of k, 0 when k is absent
  pinned    \* pinned[h]: the set of the map h's snapshot shows; empty if h has none

\* The value a batch written after t operations leaves at k: its last operation
\* on k decides.
Written(b, t, k, old) ==
  LET ops == {i \in DOMAIN b : b[i].key = k}
  IN IF ops = {} THEN old
     ELSE LET i == CHOOSE i \in ops : \A j \in ops : j <= i
          IN IF b[i].del THEN 0 ELSE t + i

Init ==
  /\ clock = 0
  /\ now = [k \in Keys |-> 0]
  /\ pinned = [h \in Handles |-> {}]

Write(b) ==
  /\ now' = [k \in Keys |-> Written(b, clock, k, now[k])]
  /\ clock' = clock + Len(b)
  /\ UNCHANGED pinned

Pin(h) ==
  /\ pinned[h] = {}
  /\ pinned' = [pinned EXCEPT ![h] = {now}]
  /\ UNCHANGED <<clock, now>>

Unpin(h) == pinned' = [pinned EXCEPT ![h] = {}] /\ UNCHANGED <<clock, now>>

Crash == pinned' = [h \in Handles |-> {}] /\ UNCHANGED <<clock, now>>

Next ==
  \/ \E b \in Batches : Write(b)
  \/ \E h \in Handles : Pin(h) \/ Unpin(h)
  \/ Crash

Spec == Init /\ [][Next]_<<clock, now, pinned>>
=============================================================================
