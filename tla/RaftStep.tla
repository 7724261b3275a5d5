------------------------------ MODULE RaftStep ------------------------------
(***************************************************************************)
(* RaftNode::step and its message handlers (crates/raft/src/node.rs), and  *)
(* RaftNode::compact.  Each HandleX is applied to a node that is already   *)
(* at the message's term: UpToTerm is the first half of step().            *)
(***************************************************************************)
EXTENDS RaftNode

\* A message of a higher term makes any node a follower of that term; only a
\* leader's own messages also name the leader.
UpToTerm(n, m) ==
  IF m.term > n.term
    THEN BecomeFollower(n, m.term,
           IF m.type \in {"AppendEntries", "InstallSnapshot"} THEN m.from ELSE None)
    ELSE n

AppendResp(n, m, success, matchIndex, conflictIndex) ==
  Send(n, {[type |-> "AppendEntriesResp", from |-> n.id, to |-> m.from,
            term |-> n.term, success |-> success, matchIndex |-> matchIndex,
            conflictIndex |-> conflictIndex, readCtx |-> m.readCtx]})

VoteResp(n, m, type, term, granted) ==
  Send(n, {[type |-> type, from |-> n.id, to |-> m.from, term |-> term,
            granted |-> granted]})

SnapshotResp(n, m, lastIndex) ==
  Send(n, {[type |-> "InstallSnapshotResp", from |-> n.id, to |-> m.from,
            term |-> n.term, lastIndex |-> lastIndex]})

\* A message of a lower term: stale leaders and candidates are told the
\* current term, everything else is dropped.
RejectStale(n, m) ==
  CASE m.type = "AppendEntries" -> AppendResp(n, m, FALSE, 0, 0)
    [] m.type = "RequestVote"   -> VoteResp(n, m, "RequestVoteResp", n.term, FALSE)
    [] OTHER                    -> n

-----------------------------------------------------------------------------
\* Pre-votes bypass the term check: they bind nobody and persist nothing.
HandlePreVote(n, m) ==
  LET leaderAlive == n.leader # None /\ ~n.quiet
      granted == /\ m.term > n.term
                 /\ LogUpToDate(n, m.lastIndex, m.lastTerm)
                 /\ ~leaderAlive
  IN  VoteResp(n, m, "PreVoteResp", IF granted THEN m.term ELSE n.term, granted)

\* Mutant of HandlePreVoteResp: the answer is not matched with its round.
CountAnyPreVote(n, m) ==
  LET v == [n EXCEPT !.votes = @ \cup {m.from}]
  IN  IF ~m.granted THEN
        IF m.term > n.term THEN BecomeFollower(n, m.term, None) ELSE n
      ELSE IF n.role # "PreCandidate" THEN n
      ELSE IF CountGranted(v) >= Quorum(v) THEN Campaign(v) ELSE v

HandlePreVoteResp(n, m) ==
  LET v == [n EXCEPT !.votes = @ \cup {m.from}]
  IN  IF ~m.granted THEN
        IF m.term > n.term THEN BecomeFollower(n, m.term, None) ELSE n
      ELSE IF n.role # "PreCandidate" \/ m.term # n.term + 1 THEN n
      ELSE IF CountGranted(v) >= Quorum(v) THEN Campaign(v) ELSE v

HandleRequestVote(n, m) ==
  LET granted == /\ n.votedFor \in {None, m.from}
                 /\ LogUpToDate(n, m.lastIndex, m.lastTerm)
      v == IF granted THEN ResetElectionTimer([n EXCEPT !.votedFor = m.from]) ELSE n
  IN  VoteResp(v, m, "RequestVoteResp", v.term, granted)

\* votes is a map in the code; a later refusal overwrites an earlier grant.
HandleRequestVoteResp(n, m) ==
  LET v == [n EXCEPT !.votes = IF m.granted THEN @ \cup {m.from} ELSE @ \ {m.from}]
  IN  IF n.role # "Candidate" THEN n
      ELSE IF CountGranted(v) >= Quorum(v) THEN BecomeLeader(v) ELSE v

-----------------------------------------------------------------------------
\* The conflict hint: the first index of the term found at idx.
FirstOfTerm(log, idx) ==
  Min({c \in {idx} \cup (FirstIndex(log) .. idx) :
         \A k \in c .. idx : TermAt(log, k) = TermAt(log, idx)})

\* entries[k] is news when the log does not already hold it.
News(log, entries) ==
  {k \in 1 .. Len(entries) : ~TermIs(log, entries[k].index, entries[k].term)}

\* The previous entry matches: keep duplicates, truncate at the first
\* conflict, append the rest, and commit what is verified to match.
AppendMatching(n, m, prev, entries) ==
  LET news    == News(n.log, entries)
      suffix  == SubSeq(entries, Min(news), Len(entries))
      a       == IF news = {} THEN n
                 ELSE [n EXCEPT
                   !.log = [TruncateFrom(n.log, suffix[1].index)
                              EXCEPT !.entries = @ \o suffix],
                   !.out.append = @ \o suffix]
      newLast == prev + Len(entries)
      target  == Least(m.commit, newLast)
      c       == IF target > a.commit THEN AdvanceCommitTo(a, target) ELSE a
  IN  AppendResp(c, m, TRUE, newLast, 0)

\* What is left of a message once the snapshot already covers its head.
AboveBase(n, m) ==
  LET covered == n.log.snapIndex - m.prevIndex
  IN  IF m.prevIndex >= n.log.snapIndex
        THEN [prev |-> m.prevIndex, prevTerm |-> m.prevTerm, entries |-> m.entries]
        ELSE [prev |-> n.log.snapIndex, prevTerm |-> n.log.snapTerm,
              entries |-> SubSeq(m.entries, covered + 1, Len(m.entries))]

AllCovered(n, m) == m.prevIndex + Len(m.entries) <= n.log.snapIndex
                    /\ m.prevIndex < n.log.snapIndex

\* The message would replace an entry at or below the commit point.  This is
\* the executable invariant of handle_append_entries: the code panics on it.
Overwrites(n, m) ==
  LET a == AboveBase(n, m)
      e == a.entries[Min(News(n.log, a.entries))]
  IN  /\ ~AllCovered(n, m)
      /\ TermIs(n.log, a.prev, a.prevTerm)
      /\ News(n.log, a.entries) # {}
      /\ HasTerm(n.log, e.index)
      /\ e.index <= n.commit

\* Mutant of HandleAppendEntries: the term of the previous entry is not compared.
AppendAfterAnything(n, m) ==
  LET f == [n EXCEPT !.role = "Follower", !.leader = m.from, !.quiet = FALSE]
      a == AboveBase(n, m)
  IN  IF AllCovered(n, m)
        THEN AppendResp(f, m, TRUE, n.log.snapIndex, 0)
      ELSE IF ~HasTerm(n.log, a.prev)
        THEN AppendResp(f, m, FALSE, 0, LastIndex(n.log) + 1)
      ELSE AppendMatching(f, m, a.prev, a.entries)

HandleAppendEntries(n, m) ==
  LET f == [n EXCEPT !.role = "Follower", !.leader = m.from, !.quiet = FALSE]
      a == AboveBase(n, m)
  IN  IF AllCovered(n, m)
        THEN AppendResp(f, m, TRUE, n.log.snapIndex, 0)
      ELSE IF ~HasTerm(n.log, a.prev)
        THEN AppendResp(f, m, FALSE, 0, LastIndex(n.log) + 1)
      ELSE IF TermAt(n.log, a.prev) # a.prevTerm
        THEN AppendResp(f, m, FALSE, 0, FirstOfTerm(n.log, a.prev))
      ELSE AppendMatching(f, m, a.prev, a.entries)

HandleAppendResp(n, m) ==
  LET pr   == [n.prs[m.from] EXCEPT !.ackedCtx = Greatest(@, m.readCtx)]
      last == LastIndex(n.log)
      ok   == [pr EXCEPT !.matched = Greatest(@, m.matchIndex),
                         !.next = Greatest(@, m.matchIndex + 1),
                         !.inflight = IF @ > 0 THEN @ - 1 ELSE 0]
      done == ProcessReadAcks(MaybeAdvanceCommit([n EXCEPT !.prs[m.from] = ok]))
      lags == [pr EXCEPT !.next = Least(m.conflictIndex, last + 1),
                         !.inflight = 0]
      back == [n EXCEPT !.prs[m.from] = lags]
  IN  IF n.role # "Leader" \/ m.from \notin DOMAIN n.prs THEN n
      ELSE IF m.success THEN
        IF m.from \in DOMAIN done.prs /\ done.prs[m.from].next <= last
          THEN SendAppend(done, {m.from}) ELSE done
      ELSE IF m.conflictIndex > 0 THEN SendAppend(back, {m.from})
      ELSE [n EXCEPT !.prs[m.from] = pr]

-----------------------------------------------------------------------------
\* Mutant of HandleInstallSnapshot: the suffix that follows the snapshot is lost.
InstallDropsSuffix(n, m) ==
  LET f == [n EXCEPT !.role = "Follower", !.leader = m.from, !.quiet = FALSE]
      s == m.snapshot
  IN  IF s.lastIndex <= n.commit THEN SnapshotResp(f, m, n.commit)
      ELSE SnapshotResp(
             [f EXCEPT !.log = ResetToSnapshot(s.lastIndex, s.lastTerm),
                       !.commit = s.lastIndex, !.snapshot = s,
                       !.out.snapshot = s], m, s.lastIndex)

\* Mutant of HandleInstallSnapshot: a late snapshot is installed all the same.
InstallStale(n, m) ==
  LET f == [n EXCEPT !.role = "Follower", !.leader = m.from, !.quiet = FALSE]
      s == m.snapshot
  IN  SnapshotResp(
        [f EXCEPT !.log = ResetToSnapshot(s.lastIndex, s.lastTerm),
                  !.commit = s.lastIndex, !.snapshot = s,
                  !.out.snapshot = s], m, s.lastIndex)

\* A stale snapshot is answered with the commit point; one whose last entry
\* the log already holds only moves the commit point, keeping the suffix.
HandleInstallSnapshot(n, m) ==
  LET f == [n EXCEPT !.role = "Follower", !.leader = m.from, !.quiet = FALSE]
      s == m.snapshot
  IN  IF s.lastIndex <= n.commit THEN SnapshotResp(f, m, n.commit)
      ELSE IF TermIs(n.log, s.lastIndex, s.lastTerm)
        THEN SnapshotResp(AdvanceCommitTo(f, s.lastIndex), m, s.lastIndex)
      ELSE SnapshotResp(
             [f EXCEPT !.log = ResetToSnapshot(s.lastIndex, s.lastTerm),
                       !.commit = s.lastIndex, !.snapshot = s,
                       !.out.snapshot = s], m, s.lastIndex)

HandleInstallSnapshotResp(n, m) ==
  LET pr == [n.prs[m.from] EXCEPT !.snap = "none",
                                  !.matched = Greatest(@, m.lastIndex),
                                  !.next = Greatest(@, m.lastIndex + 1),
                                  !.inflight = 0]
      c  == MaybeAdvanceCommit([n EXCEPT !.prs[m.from] = pr])
  IN  IF n.role # "Leader" \/ m.from \notin DOMAIN n.prs THEN n
      ELSE SendAppend(c, {m.from} \cap DOMAIN c.prs)

\* RaftNode::step: the whole of it, for a host that does not look inside.
Step(n, m) ==
  LET u == UpToTerm(n, m)
  IN  CASE m.type = "PreVote"             -> HandlePreVote(n, m)
        [] m.type = "PreVoteResp"         -> HandlePreVoteResp(n, m)
        [] OTHER ->
             IF m.term < n.term THEN RejectStale(n, m)
             ELSE CASE m.type = "RequestVote"         -> HandleRequestVote(u, m)
                    [] m.type = "RequestVoteResp"     -> HandleRequestVoteResp(u, m)
                    [] m.type = "AppendEntries"       -> HandleAppendEntries(u, m)
                    [] m.type = "AppendEntriesResp"   -> HandleAppendResp(u, m)
                    [] m.type = "InstallSnapshot"     -> HandleInstallSnapshot(u, m)
                    [] m.type = "InstallSnapshotResp" -> HandleInstallSnapshotResp(u, m)

\* Local compaction at `applied`; the node is unchanged when it returns None.
CanCompact(n, applied) ==
  n.log.snapIndex < applied /\ applied <= n.commit /\ HasTerm(n.log, applied)

\* Mutant of Compact: the snapshot takes the newest configuration.
CompactLatestVoters(n, applied, data) ==
  LET term == TermAt(n.log, applied)
  IN  [n EXCEPT !.log = CompactLog(@, applied, term),
                !.snapshot = [lastIndex |-> applied, lastTerm |-> term,
                              voters |-> Voters(n), data |-> data]]

Compact(n, applied, data) ==
  LET term == TermAt(n.log, applied)
  IN  [n EXCEPT !.log = CompactLog(@, applied, term),
                !.snapshot = [lastIndex |-> applied, lastTerm |-> term,
                              voters |-> VotersAt(n, applied), data |-> data]]
=============================================================================
