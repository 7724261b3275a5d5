------------------------------ MODULE RaftNode ------------------------------
(***************************************************************************)
(* The Raft state machine of crates/raft/src/node.rs.  RaftNode is         *)
(* sans-IO: every entry point is a function from a node to a node whose    *)
(* `out` field has gained messages, entries to persist, committed entries  *)
(* and released reads.  This module has no variables; a host (module Raft) *)
(* holds the nodes, calls these operators and empties `out`.               *)
(*                                                                         *)
(* Ticks are abstracted to what the code compares them with:               *)
(*   quiet           election_elapsed >= election_tick_min                 *)
(*   Progress.snap   "sent" while pending_snapshot is set, "overdue" once  *)
(*                   election_tick_min ticks have passed since the send    *)
(* The random timeout lies at or above election_tick_min, and a node's     *)
(* ticks are not tied to anybody else's, so a timeout may fire at any time.*)
(***************************************************************************)
EXTENDS RaftLog

CONSTANTS
  Server,         \* node ids
  None,           \* Option::None, no server
  InitialVoters,  \* the voter set a fresh cluster is started with
  MaxBatch,       \* Config.max_batch_entries
  MaxInflight,    \* Config.max_inflight
  PreVote         \* Config.pre_vote

ASSUME ServerAssumption == IsFiniteSet(Server) /\ None \notin Server
ASSUME VotersAssumption == InitialVoters \subseteq Server
ASSUME ConfigAssumption ==
  /\ MaxBatch \in Nat \ {0}
  /\ MaxInflight \in Nat \ {0}
  /\ PreVote \in BOOLEAN

Least(a, b) == IF a < b THEN a ELSE b
Greatest(a, b) == IF a < b THEN b ELSE a

\* lastIndex = 0 stands for Option::None: the boot configuration, no data.
NoSnapshot ==
  [lastIndex |-> 0, lastTerm |-> 0, voters |-> InitialVoters, data |-> <<>>]

NoOutput ==
  [append |-> <<>>, committed |-> <<>>, snapshot |-> NoSnapshot,
   readStates |-> {}, messages |-> {}]

Progress(next) ==
  [next |-> next, matched |-> 0, inflight |-> 0, snap |-> "none", ackedCtx |-> 0]

NoProgress == [p \in {} |-> Progress(1)]

\* Mutant of NewNode: the vote is not persisted.
NewNodeForgetsVote(id, term, votedFor, snapshot, entries) ==
  [id |-> id, term |-> term, votedFor |-> None,
   role |-> "Follower", leader |-> None,
   log |-> [snapIndex |-> snapshot.lastIndex, snapTerm |-> snapshot.lastTerm,
            entries |-> entries],
   snapshot |-> snapshot, commit |-> snapshot.lastIndex,
   quiet |-> FALSE, votes |-> {}, prs |-> NoProgress,
   readCtx |-> 0, pendingReads |-> {}, out |-> NoOutput]

\* RaftNode::new: everything but term, vote, snapshot and entries is volatile.
NewNode(id, term, votedFor, snapshot, entries) ==
  [id |-> id, term |-> term, votedFor |-> votedFor,
   role |-> "Follower", leader |-> None,
   log |-> [snapIndex |-> snapshot.lastIndex, snapTerm |-> snapshot.lastTerm,
            entries |-> entries],
   snapshot |-> snapshot, commit |-> snapshot.lastIndex,
   quiet |-> FALSE, votes |-> {}, prs |-> NoProgress,
   readCtx |-> 0, pendingReads |-> {}, out |-> NoOutput]

\* Mutant of TakeOutput: entries to persist are handed out again and again.
TakeMessagesOnly(n) == [n EXCEPT !.out.messages = {}, !.out.committed = <<>>]

TakeOutput(n) == [n EXCEPT !.out = NoOutput]

Send(n, ms) == [n EXCEPT !.out.messages = @ \cup ms]

-----------------------------------------------------------------------------
(***************************************************************************)
(* Voters and quorums.  The base configuration rides in the snapshot; the  *)
(* conf entries of the log are layered on it, committed or not.            *)
(***************************************************************************)
ConfKinds == {"AddNode", "RemoveNode"}

VotersAt(n, idx) ==
  LET Changes(v) == {k \in 1 .. Len(n.log.entries) :
                       /\ n.log.entries[k].kind \in ConfKinds
                       /\ n.log.entries[k].arg = v
                       /\ n.log.entries[k].index <= idx}
  IN  {v \in Server : IF Changes(v) = {}
                        THEN v \in n.snapshot.voters
                        ELSE n.log.entries[Max(Changes(v))].kind = "AddNode"}

Voters(n) == VotersAt(n, LastIndex(n.log))

Quorum(n) == Cardinality(Voters(n)) \div 2 + 1

CountGranted(n) == Cardinality(n.votes \cap Voters(n))

\* The values of f that at least a quorum of the voters have reached; the
\* largest is element q-1 of the descending sort in node.rs, and there is none
\* when there are fewer voters than q.
QuorumValues(n, f) ==
  {x \in {f[v] : v \in Voters(n)} :
     Cardinality({v \in Voters(n) : f[v] >= x}) >= Quorum(n)}

\* Mutant of LogUpToDate: the longer log wins whatever its last term.
LongerLog(n, lastIndex, lastTerm) == lastIndex >= LastIndex(n.log)

LogUpToDate(n, lastIndex, lastTerm) ==
  \/ lastTerm > LastTerm(n.log)
  \/ lastTerm = LastTerm(n.log) /\ lastIndex >= LastIndex(n.log)

ResetElectionTimer(n) == [n EXCEPT !.quiet = FALSE]

BecomeFollower(n, term, leader) ==
  [n EXCEPT !.term = Greatest(term, n.term),
            !.votedFor = IF term > n.term THEN None ELSE @,
            !.role = "Follower", !.leader = leader,
            !.prs = NoProgress, !.pendingReads = {}, !.quiet = FALSE]

-----------------------------------------------------------------------------
(***************************************************************************)
(* Replication.                                                            *)
(***************************************************************************)
SyncProgressWithVoters(n) ==
  IF n.role # "Leader" THEN n
  ELSE [n EXCEPT !.prs =
          [p \in Voters(n) \ {n.id} |->
             IF p \in DOMAIN n.prs THEN n.prs[p]
                                   ELSE Progress(LastIndex(n.log) + 1)]]

\* Mutant of AppendTo: a full window stops heartbeats too.
AppendWhenRoom(n, p) ==
  LET pr      == IF n.prs[p].snap = "overdue"
                   THEN [n.prs[p] EXCEPT !.snap = "none"] ELSE n.prs[p]
      prev    == pr.next - 1
      batch   == Slice(n.log, pr.next, MaxBatch)
      full    == batch # <<>> /\ pr.inflight >= MaxInflight
  IN  IF pr.snap = "sent" THEN [pr |-> pr, msgs |-> {}]
      ELSE IF pr.next <= n.log.snapIndex THEN
        [pr   |-> [pr EXCEPT !.snap = "sent"],
         msgs |-> {[type |-> "InstallSnapshot", from |-> n.id, to |-> p,
                    term |-> n.term, snapshot |-> n.snapshot]}]
      ELSE IF full \/ ~HasTerm(n.log, prev) THEN [pr |-> pr, msgs |-> {}]
      ELSE
        [pr   |-> [pr EXCEPT !.next = @ + Len(batch),
                             !.inflight = IF batch # <<>> THEN @ + 1 ELSE @],
         msgs |-> {[type |-> "AppendEntries", from |-> n.id, to |-> p,
                    term |-> n.term, prevIndex |-> prev,
                    prevTerm |-> TermAt(n.log, prev), entries |-> batch,
                    commit |-> n.commit, readCtx |-> n.readCtx]}]

\* send_append to one peer: the peer's new Progress and what is sent to it.
AppendTo(n, p) ==
  LET pr      == IF n.prs[p].snap = "overdue"
                   THEN [n.prs[p] EXCEPT !.snap = "none"] ELSE n.prs[p]
      prev    == pr.next - 1
      batch   == Slice(n.log, pr.next, MaxBatch)
      full    == batch # <<>> /\ pr.inflight >= MaxInflight
      entries == IF full THEN <<>> ELSE batch
  IN  IF pr.snap = "sent" THEN [pr |-> pr, msgs |-> {}]
      ELSE IF pr.next <= n.log.snapIndex THEN
        [pr   |-> [pr EXCEPT !.snap = "sent"],
         msgs |-> {[type |-> "InstallSnapshot", from |-> n.id, to |-> p,
                    term |-> n.term, snapshot |-> n.snapshot]}]
      ELSE IF ~HasTerm(n.log, prev) THEN [pr |-> pr, msgs |-> {}]
      ELSE
        [pr   |-> [pr EXCEPT !.next = @ + Len(entries),
                             !.inflight = IF full THEN @ - 1
                                          ELSE IF entries # <<>> THEN @ + 1
                                          ELSE @],
         msgs |-> {[type |-> "AppendEntries", from |-> n.id, to |-> p,
                    term |-> n.term, prevIndex |-> prev,
                    prevTerm |-> TermAt(n.log, prev), entries |-> entries,
                    commit |-> n.commit, readCtx |-> n.readCtx]}]

SendAppend(n, peers) ==
  [n EXCEPT !.prs = [p \in DOMAIN @ |-> IF p \in peers THEN AppendTo(n, p).pr
                                                       ELSE @[p]],
            !.out.messages = @ \cup UNION {AppendTo(n, p).msgs : p \in peers}]

BroadcastAppend(n) ==
  LET s == SyncProgressWithVoters(n) IN SendAppend(s, DOMAIN s.prs)

\* Mutant of AdvanceCommitTo: a removed leader stays.
AdvanceCommitAndStay(n, newCommit) ==
  [n EXCEPT !.commit = newCommit,
            !.out.committed = @ \o SubSeq(n.log.entries,
                                         n.commit - n.log.snapIndex + 1,
                                         newCommit - n.log.snapIndex)]

\* A leader that committed its own removal steps down.
AdvanceCommitTo(n, newCommit) ==
  LET from    == n.commit - n.log.snapIndex + 1
      to      == newCommit - n.log.snapIndex
      newly   == SubSeq(n.log.entries, from, to)
      removed == \E k \in 1 .. Len(newly) : newly[k].kind = "RemoveNode"
                                            /\ newly[k].arg = n.id
      c       == [n EXCEPT !.commit = newCommit,
                           !.out.committed = @ \o newly]
  IN  IF removed /\ n.role = "Leader" THEN BecomeFollower(c, c.term, None) ELSE c

\* Mutant of MaybeAdvanceCommit: replicas of an old term's entry count.
CountReplicasOfAnyTerm(n) ==
  LET matched == [v \in Voters(n) |->
                    IF v = n.id THEN LastIndex(n.log)
                    ELSE IF v \in DOMAIN n.prs THEN n.prs[v].matched ELSE 0]
      reached == QuorumValues(n, matched)
  IN  IF n.role = "Leader" /\ reached # {} /\ Max(reached) > n.commit
        THEN AdvanceCommitTo(n, Max(reached)) ELSE n

MaybeAdvanceCommit(n) ==
  LET matched   == [v \in Voters(n) |->
                      IF v = n.id THEN LastIndex(n.log)
                      ELSE IF v \in DOMAIN n.prs THEN n.prs[v].matched ELSE 0]
      reached   == QuorumValues(n, matched)
      candidate == Max(reached)
  IN  IF /\ n.role = "Leader"
         /\ reached # {}
         /\ candidate > n.commit
         /\ TermIs(n.log, candidate, n.term)
        THEN AdvanceCommitTo(n, candidate)
        ELSE n

AppendLocal(n, kind, arg) ==
  LET e == [index |-> LastIndex(n.log) + 1, term |-> n.term,
            kind |-> kind, arg |-> arg]
  IN  BroadcastAppend(MaybeAdvanceCommit(
        [n EXCEPT !.log = Push(@, e), !.out.append = Append(@, e)]))

-----------------------------------------------------------------------------
(***************************************************************************)
(* Elections.                                                              *)
(***************************************************************************)
BecomeLeader(n) ==
  LET l == [n EXCEPT !.role = "Leader", !.leader = n.id,
                     !.pendingReads = {}, !.readCtx = 0,
                     !.prs = [p \in Voters(n) \ {n.id} |->
                                Progress(LastIndex(n.log) + 1)]]
  IN  BroadcastAppend(AppendLocal(l, "Noop", None))

Ballots(n, type, term) ==
  {[type |-> type, from |-> n.id, to |-> p, term |-> term,
    lastIndex |-> LastIndex(n.log), lastTerm |-> LastTerm(n.log)] :
     p \in Voters(n) \ {n.id}}

Campaign(n) ==
  LET c == [n EXCEPT !.term = @ + 1, !.votedFor = n.id, !.role = "Candidate",
                     !.leader = None, !.votes = {n.id}]
  IN  IF CountGranted(c) >= Quorum(c) THEN BecomeLeader(c)
      ELSE Send(c, Ballots(c, "RequestVote", c.term))

CampaignPre(n) ==
  LET c == [n EXCEPT !.role = "PreCandidate", !.votes = {n.id}]
  IN  IF CountGranted(c) >= Quorum(c) THEN Campaign(c)
      ELSE Send(c, Ballots(c, "PreVote", c.term + 1))

\* tick() of a node that is not the leader, when election_elapsed reaches the
\* randomized timeout.  A node outside the voter set never campaigns.
ElectionTimeout(n) ==
  LET r == ResetElectionTimer(n)
  IN  IF n.id \notin Voters(n) THEN r
      ELSE IF PreVote THEN CampaignPre(r) ELSE Campaign(r)

-----------------------------------------------------------------------------
(***************************************************************************)
(* Proposals and linearizable reads; the host checks CanX first, as the    *)
(* code returns Err without a change of state otherwise.                   *)
(***************************************************************************)
CanPropose(n) == n.role = "Leader"

Propose(n, v) == AppendLocal(n, "Normal", v)

CanProposeConfChange(n) ==
  /\ n.role = "Leader"
  /\ \A k \in 1 .. Len(n.log.entries) :
       n.log.entries[k].index > n.commit => n.log.entries[k].kind \notin ConfKinds

ProposeConfChange(n, kind, s) == SyncProgressWithVoters(AppendLocal(n, kind, s))

\* Mutant of CanReadIndex: a new leader reads before it has committed.
CanReadAtOnce(n) == n.role = "Leader"

CanReadIndex(n) == n.role = "Leader" /\ TermIs(n.log, n.commit, n.term)

ReleaseReads(n, upToCtx) ==
  LET released == {r \in n.pendingReads : r.ctx <= upToCtx}
  IN  [n EXCEPT !.pendingReads = @ \ released,
                !.out.readStates = @ \cup {[rid |-> r.rid, index |-> r.index] :
                                             r \in released}]

ReadIndex(n, rid) ==
  LET ctx == n.readCtx + 1
      r   == [n EXCEPT !.readCtx = ctx,
                       !.pendingReads = @ \cup {[ctx |-> ctx, rid |-> rid,
                                                 index |-> n.commit]}]
  IN  IF Quorum(n) = 1 THEN ReleaseReads(r, ctx) ELSE BroadcastAppend(r)

ProcessReadAcks(n) ==
  LET acked   == [v \in Voters(n) |->
                    IF v = n.id THEN n.readCtx
                    ELSE IF v \in DOMAIN n.prs THEN n.prs[v].ackedCtx ELSE 0]
      reached == QuorumValues(n, acked)
  IN  IF n.pendingReads # {} /\ reached # {} /\ Max(reached) > 0
        THEN ReleaseReads(n, Max(reached)) ELSE n
=============================================================================
