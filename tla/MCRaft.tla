------------------------------- MODULE MCRaft -------------------------------
(***************************************************************************)
(* Small instances of Raft for TLC: three servers on a line, s1 - s3 - s2, *)
(* so that every quorum contains s3 and the two ends never hear each       *)
(* other.  That is the topology in which an old and a new leader compete   *)
(* for the same follower, and it keeps the state space small.              *)
(*                                                                         *)
(* Some runs start in the middle of a history; see RaftHistories.          *)
(***************************************************************************)
EXTENDS Raft, RaftHistories

CONSTANTS s1, s2, s3, v1

Line == {<<s1, s3>>, <<s3, s1>>, <<s2, s3>>, <<s3, s2>>}
Star == {<<s1, s3>>, <<s3, s1>>, <<s1, s2>>, <<s2, s1>>}
S3ToS2 == {<<s2, s3>>, <<s3, s2>>}

\* Which servers may start an election for terms 1, 2, ...
EndsSecond  == <<{}, {s1, s2}>>
EndsInTurn  == <<{s1, s2}, {s2}, {s1}, {s2}>>
EndSecond   == <<{s1}, {s2}>>
HubSecond   == <<{s1}, {s3}>>
HubThird    == <<{s1}, {s1}, {s3}>>
HubOnly     == <<{s3}>>

Members == {[kind |-> "AddNode", arg |-> s2], [kind |-> "RemoveNode", arg |-> s1]}

-----------------------------------------------------------------------------
\* The nodes are in one of the cluster states S, their messages under way.
StartIn(S) == \E ns \in S :
  /\ node = [i \in Server |-> TakeOutput(ns[i])]
  /\ msgs = {m \in UNION {ns[i].out.messages : i \in Server} :
               <<m.from, m.to>> \in Links}
  /\ sm = [i \in Server |-> ns[i].snapshot.data \o
             SubSeq(ns[i].log.entries, 1, ns[i].commit - ns[i].log.snapIndex)]
  /\ sinceSnap = [i \in Server |-> ns[i].commit - ns[i].log.snapIndex]
  /\ \E i \in Server : /\ \A j \in Server : ns[j].commit <= ns[i].commit
                       /\ chosen = sm[i]
  /\ reads = <<>>
  /\ heartbeats = 0
  /\ restarts = 0

AllLose == <<Loses(s1, {}), Loses(s2, {}), Loses(s3, {})>>

\* s3 has agreed to s1 and to s2 being candidates of term 1, and none of their
\* requests for votes has arrived.  The answers of s3 may come once more.
Agrees(v, c) == <<Starts(c), Gets("PreVote", c, v, 0), Gets("PreVoteResp", v, c, 0),
                  Loses(c, {})>>
CandidatesSpec == StartIn(History(Agrees(s3, s1) \o Agrees(s3, s2))) /\ [][Next]_vars

\* s1 leads term 1 and its first entry is committed.
Settled == Elects(s1, s3) \o Replicates(s1, s3, 1) \o AllLose
SettledSpec == StartIn(History(Settled)) /\ [][Next]_vars

\* s1 leads term 1 and its first entry is committed on s1 and s2, of which s2
\* does not know; s3 voted for s1 and has nothing.
Unaware == Elects(s1, s3) \o Replicates(s1, s2, 1) \o AllLose
UnawareSpec == StartIn(History(Unaware)) /\ [][Next]_vars

\* Two terms have left one entry each, on s1 and on s2, both at index 1: the
\* start of the history in which counting the replicas of an old term's entry
\* would commit it too early.
Split == Elects(s1, s3) \o <<Starts(s2)>> \o Elects(s2, s3)
         \o <<Gets("AppendEntries", s1, s3, 0), Gets("AppendEntriesResp", s3, s1, 0)>>
         \o AllLose
SplitSpec == StartIn(History(Split)) /\ [][Next]_vars

\* s3 leads term 1 with three entries.  s2 has nothing and has refused the second
\* and the third: s3 answered the first refusal with all three entries in one
\* message, the other refusal is still under way.  Then s1 acknowledged the
\* first entry, which is committed and compacted.  Of the other messages only
\* the one with the first entry is not lost.
Lagging == Elects(s3, s1) \o <<Proposes(s3, v1), Proposes(s3, v1)>>
           \o <<Gets("AppendEntries", s3, s2, 1), Gets("AppendEntriesResp", s2, s3, 0)>>
           \o <<Loses(s2, {}), Gets("AppendEntries", s3, s2, 2)>>
           \o Replicates(s3, s1, 1)
           \o <<Loses(s3, {<<"AppendEntries", s3, s2, 0>>})>>
Compacted(ns) == [ns EXCEPT ![s3] = Compact(@, 1, SubSeq(@.log.entries, 1, 1))]
LaggingSpec == StartIn({Compacted(ns) : ns \in History(Lagging)}) /\ [][Next]_vars

\* s1 led term 1, asked for a read round whose messages are still under way,
\* crashed, and leads again in term 2, where its first entry is committed.
Returned == Settled \o <<AsksToRead(s1, 1), Restarts(s1)>>
            \o Elects(s1, s3) \o Replicates(s1, s3, 2)
ReturnedSpec == StartIn(History(Returned)) /\ [][Next]_vars
=============================================================================
