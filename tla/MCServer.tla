------------------------------ MODULE MCServer ------------------------------
(***************************************************************************)
(* Small instances of Server for TLC: Me is s2 and talks to s1; s3 has     *)
(* played its part before the run starts.                                  *)
(***************************************************************************)
EXTENDS Server, RaftHistories

CONSTANTS s1, s2, s3, k, v1, v2

S1AndMe == {<<s1, s2>>, <<s2, s1>>}

\* Me may start an election for terms 1 and 2.
MeTwice == <<{s2}, {s2}>>

\* One session: a compare-and-swap that creates the key, then a put.
TakeK == [session |-> 1, seq |-> 1,
          op |-> [type |-> "Cas", key |-> k, expect |-> Absent, new |-> v1]]
PutB  == [session |-> 1, seq |-> 2, op |-> [type |-> "Put", key |-> k, value |-> v2]]
Session == {TakeK, PutB}

\* How many of the session's writes es holds.
WritesIn(es) == Cardinality({cmd \in Session : \E j \in DOMAIN es : es[j].arg = cmd})

\* The nodes are in one of the cluster states S, of which Me has persisted its
\* part; l's log is what is chosen; `left` is how much of the bounds is left.
StartIn(S, l, left) == \E ns \in S :
  LET n == ns[Me]
  IN  /\ node = [i \in Server |-> TakeOutput(ns[i])]
      /\ msgs = UNION {Sendable(ns[i].out.messages) : i \in Server}
      /\ store = Persist(NewStore(None, NoSnapshot), n.term, n.votedFor,
                         n.log.entries, n.snapshot)
      /\ chosen = ns[l].log.entries
      /\ core = [NewCore(NoSnapshot) EXCEPT
                   !.kv = Applying(EmptyKv, chosen)[n.commit].kv,
                   !.applied = n.commit, !.sinceSnap = n.commit]
      /\ phase = "drain"
      /\ drained = 0
      /\ client = [x \in Sessions |-> WritesIn(chosen \o n.log.entries)]
      /\ acks = {}
      /\ reads = <<>>
      /\ clean = TRUE
      /\ count = [writes |-> MaxWrites - left.writes,
                  heartbeats |-> MaxHeartbeats - left.heartbeats,
                  reads |-> MaxReads - left.reads,
                  restarts |-> MaxRestarts - left.restarts]

AllLose == <<Loses(s1, {}), Loses(s2, {}), Loses(s3, {})>>

\* Me leads term 1; its first entry is committed and on all servers.
Leading == Elects(s2, s1) \o Replicates(s2, s1, 1) \o Replicates(s2, s3, 1) \o AllLose
LeadingInit == \E left \in {[writes |-> 2, heartbeats |-> 0, reads |-> 0, restarts |-> 0],
                           [writes |-> 1, heartbeats |-> 0, reads |-> 0, restarts |-> 1]} :
                 StartIn(History(Leading), s2, left)

\* Then Me has also committed a write, which it has not answered; s1 has won
\* term 2 with the vote of s3 and committed an entry there.  Me does not know;
\* what s1 sent to it is under way.
Writing == Leading \o <<Proposes(s2, TakeK)>>
           \o Replicates(s2, s1, 2) \o Replicates(s2, s3, 2) \o AllLose
Succeeds == Elects(s1, s3) \o Replicates(s1, s3, 3)
Deposed == Writing \o Succeeds

\* Either the client writes again, or reads.
DeposedInit ==
  StartIn(History(Deposed), s1,
          [writes |-> 1, heartbeats |-> 0, reads |-> 0, restarts |-> 0])
ReadingInit ==
  StartIn(History(Deposed), s1,
          [writes |-> 0, heartbeats |-> 1, reads |-> 1, restarts |-> 0])

\* The same, and the client has sent its write again and written on: Me has two
\* entries that nobody else has.
Ahead == Writing \o <<Proposes(s2, TakeK), Proposes(s2, PutB), Loses(s2, {})>> \o Succeeds
AheadInit ==
  StartIn(History(Ahead), s1,
          [writes |-> 0, heartbeats |-> 0, reads |-> 0, restarts |-> 1])

\* s1 leads term 2.  Its three entries are committed and compacted; Me holds
\* two of them and has not been told that any is committed.  The message that
\* says so, sent before the third was committed, is under way.
Lagging == <<Starts(s1)>> \o Elects(s1, s3) \o Replicates(s1, s2, 1)
           \o <<Proposes(s1, TakeK), Gets("AppendEntries", s1, s2, 1)>>
           \o Replicates(s1, s3, 1) \o Replicates(s1, s3, 2)
           \o <<Proposes(s1, PutB)>> \o Replicates(s1, s3, 3)
           \o <<Loses(s1, {<<"AppendEntries", s1, s2, 2>>}), Loses(s2, {}), Loses(s3, {})>>
Compacted(ns) ==
  [ns EXCEPT ![s1] = Compact(@, 3, Image(Applying(EmptyKv, @.log.entries)[3].kv))]
LaggingInit ==
  StartIn({Compacted(ns) : ns \in History(Lagging)}, s3,
          [writes |-> 1, heartbeats |-> 0, reads |-> 0, restarts |-> 1])

\* s1 has led term 1 and committed a write there.  Me holds it, but has been told
\* only of the entry before.  Me has won term 2 with the vote of s1, and its first
\* entry is under way to s1: a read can be taken in the batch that commits both,
\* when its index is above what Me has applied.
Inheriting == Elects(s1, s3) \o Replicates(s1, s2, 1) \o Replicates(s1, s3, 1)
              \o <<Proposes(s1, TakeK), Gets("AppendEntries", s1, s2, 1)>>
              \o Replicates(s1, s3, 2) \o AllLose \o Elects(s2, s1)
InheritingInit ==
  StartIn(History(Inheriting), s1,
          [writes |-> 0, heartbeats |-> 1, reads |-> 1, restarts |-> 0])

ServerSpec == /\ \/ LeadingInit \/ DeposedInit \/ ReadingInit
                 \/ AheadInit \/ LaggingInit \/ InheritingInit
              /\ [][Next]_vars

\* Me is deposed in the same way and has two writes to append.
RewritingSpec ==
  /\ StartIn(History(Deposed), s1,
             [writes |-> 2, heartbeats |-> 0, reads |-> 0, restarts |-> 0])
  /\ [][Next]_vars
=============================================================================
