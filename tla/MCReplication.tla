--------------------------- MODULE MCReplication ---------------------------
(***************************************************************************)
(* A small instance of Replication for TLC: s1 leads, s2 follows, s3 has   *)
(* helped s1 to commit and is down.                                        *)
(***************************************************************************)
EXTENDS Replication, RaftHistories

CONSTANTS s1, s2, s3, v1

StartIn(S) == \E ns \in S :
  /\ node = [i \in Server |-> TakeOutput(ns[i])]
  /\ queue = [i \in Ends |-> <<>>]
  /\ up = [i \in Ends |-> FALSE]
  /\ faults = 0
  /\ last = Other

\* s2 has led term 1 and has two entries that nobody else has; s1 leads term 2,
\* and its first entry is committed on s1 and s3.
Diverged == Elects(s2, s3) \o <<Proposes(s2, v1), Starts(s1)>>
            \o Elects(s1, s3) \o Replicates(s1, s3, 1)

\* The same, and s1 has compacted its log.
Compacted(ns) == [ns EXCEPT ![s1] = Compact(@, 1, <<>>)]

ReplicationSpec ==
  /\ StartIn(UNION {{ns, Compacted(ns)} : ns \in History(Diverged)})
  /\ [][Next]_vars
  /\ Fairness
=============================================================================
