-------------------------- MODULE RaftVotesProofs ---------------------------
(***************************************************************************)
(* What every entry point of RaftNode does to the election state of one    *)
(* node: its term, vote, collected votes and role, and the votes and       *)
(* leader's messages it sends.  Three relations between the node before    *)
(* and after: Calm (what a leader does while it leads), Mild (nothing is   *)
(* voted or won) and Hop, the general one, which the cluster-level proof   *)
(* in RaftElectionProofs uses.                                             *)
(***************************************************************************)
EXTENDS RaftProofs, FiniteSetTheorems

\* A vote that was given.
IsGrant(m) == m.type = "RequestVoteResp" /\ m.granted

\* Only a leader sends these.
FromLeader(m) == m.type \in {"AppendEntries", "InstallSnapshot"}

\* More than half of the initial voters are in S.
Majority(S) == 2 * Cardinality(S \cap InitialVoters) > Cardinality(InitialVoters)

\* n won its term: B are servers known to have voted for it in that term.
Led(n, B) == n.votedFor = n.id /\ n.votes \subseteq B \cup {n.id} /\ Majority(n.votes)

\* What the election argument needs of a node in the middle of an event.
Ev(n, B) ==
  /\ n.role \in {"Candidate", "Leader"} =>
       n.votedFor = n.id /\ n.votes \subseteq B \cup {n.id}
  /\ n.role = "Leader" => Led(n, B)
  /\ \A m \in n.out.messages :
       /\ IsGrant(m) => m.from = n.id /\ m.term = n.term /\ m.to = n.votedFor
       /\ FromLeader(m) => m.from = n.id /\ m.term = n.term /\ Led(n, B)

\* From n to r the term may grow; within a term the vote is never changed.
Hop(n, r, B) ==
  /\ r.id = n.id
  /\ \/ /\ r.term = n.term
        /\ n.votedFor # None => r.votedFor = n.votedFor
        /\ Ev(r, B)
     \/ r.term > n.term /\ Ev(r, {})

\* From n to r nothing happens to the election but perhaps a step-down, and
\* only a leader's messages are sent.
Calm(n, r) ==
  /\ r.id = n.id /\ r.term = n.term /\ r.votedFor = n.votedFor /\ r.votes = n.votes
  /\ r.role = n.role \/ r.role = "Follower"
  /\ \A m \in r.out.messages :
       m \in n.out.messages \/ (FromLeader(m) /\ m.from = n.id /\ m.term = n.term)

\* Quiet steps of a leader compose.
LEMMA CalmTrans ==
  ASSUME NEW n, NEW q, NEW r, Calm(n, q), Calm(q, r)
  PROVE  Calm(n, r)
BY DEF Calm

\* A leader that won its term may take any calm step.
LEMMA CalmHop ==
  ASSUME NEW n, NEW r, NEW B, Ev(n, B), Led(n, B), Calm(n, r)
  PROVE  Hop(n, r, B)
<1>1. Led(r, B)
  BY DEF Led, Calm
<1>2. Ev(r, B)
  <2>1. \A m \in r.out.messages : ~(FromLeader(m) /\ IsGrant(m))
    BY DEF FromLeader, IsGrant
  <2> QED BY <1>1, <2>1 DEF Ev, Calm, Led
<1> QED BY <1>2 DEF Hop, Calm

-----------------------------------------------------------------------------
\* sync_progress_with_voters is calm.
LEMMA CalmSync ==
  ASSUME NEW n, NEW a \in Nat, WF(n, a)
  PROVE  Calm(n, SyncProgressWithVoters(n))
BY DEF Calm, SyncProgressWithVoters, WF, NodeOK, NodesOver

\* send_append sends only a leader's messages, in the sender's name and term.
LEMMA CalmAppendTo ==
  ASSUME NEW n, NEW p
  PROVE  \A m \in AppendTo(n, p).msgs : FromLeader(m) /\ m.from = n.id /\ m.term = n.term
<1>1. AppendTo(n, p).msgs = {} \/
      (\E m : AppendTo(n, p).msgs = {m} /\ FromLeader(m) /\ m.from = n.id /\ m.term = n.term)
  BY DEF AppendTo, FromLeader
<1> QED BY <1>1

\* send_append to any set of peers is calm.
LEMMA CalmSend ==
  ASSUME NEW n, NEW a \in Nat, WF(n, a), NEW peers
  PROVE  Calm(n, SendAppend(n, peers))
<1> DEFINE ms == UNION {AppendTo(n, p).msgs : p \in peers}
           r == SendAppend(n, peers)
<1>1. \A m \in ms : FromLeader(m) /\ m.from = n.id /\ m.term = n.term
  BY CalmAppendTo
<1>2. r.out.messages = n.out.messages \cup ms
  BY DEF SendAppend, WF, NodeOK, NodesOver, Outputs
<1>3. /\ r.id = n.id /\ r.term = n.term /\ r.votedFor = n.votedFor /\ r.votes = n.votes
      /\ r.role = n.role
  BY DEF SendAppend, WF, NodeOK, NodesOver
<1> HIDE DEF ms, r
<1> QED BY <1>1, <1>2, <1>3 DEF Calm, r

\* broadcast_append is calm.
LEMMA CalmBroadcast ==
  ASSUME NEW n, NEW a \in Nat, WF(n, a)
  PROVE  Calm(n, BroadcastAppend(n))
<1> DEFINE s == SyncProgressWithVoters(n)
<1>1. Calm(n, s) /\ WF(s, a)
  BY CalmSync, SyncWF
<1> HIDE DEF s
<1>2. Calm(s, SendAppend(s, DOMAIN s.prs))
  BY <1>1, CalmSend
<1> QED BY <1>1, <1>2, CalmTrans DEF BroadcastAppend, s

\* advance_commit_to is calm: it may step down, it sends nothing.
LEMMA CalmAdvance ==
  ASSUME NEW n, NEW a \in Nat, WF(n, a), NEW c
  PROVE  /\ Calm(n, AdvanceCommitTo(n, c))
         /\ AdvanceCommitTo(n, c).out.messages = n.out.messages
<1> DEFINE x == [n EXCEPT !.commit = c, !.out.committed = @ \o
                   SubSeq(n.log.entries, n.commit - n.log.snapIndex + 1,
                          c - n.log.snapIndex)]
<1>1. AdvanceCommitTo(n, c) \in {x, BecomeFollower(x, x.term, None)}
  BY DEF AdvanceCommitTo
<1>2. /\ x.id = n.id /\ x.term = n.term /\ x.votedFor = n.votedFor /\ x.votes = n.votes
      /\ x.role = n.role /\ x.out.messages = n.out.messages
      /\ DOMAIN x = DOMAIN n
  BY DEF WF, NodeOK, NodesOver, Outputs
<1>3. n.term \in Nat /\ {"term", "votedFor", "role", "leader", "prs", "pendingReads",
         "quiet", "id", "votes", "out"} \subseteq DOMAIN n
  BY DEF WF, NodeOK, NodesOver
<1> HIDE DEF x
<1> DEFINE y == BecomeFollower(x, x.term, None)
<1>4. /\ y.id = n.id /\ y.term = n.term /\ y.votedFor = n.votedFor /\ y.votes = n.votes
      /\ y.role = "Follower" /\ y.out.messages = n.out.messages
  BY <1>2, <1>3 DEF BecomeFollower, Greatest
<1> HIDE DEF y
<1> QED BY <1>1, <1>2, <1>4 DEF Calm, y

\* Doing nothing is calm.
LEMMA CalmSelf ==
  ASSUME NEW n PROVE Calm(n, n)
BY DEF Calm

\* maybe_advance_commit is calm.
LEMMA CalmMaybeAdvance ==
  ASSUME NEW n, NEW a \in Nat, WF(n, a)
  PROVE  Calm(n, MaybeAdvanceCommit(n))
<1>1. \E c : MaybeAdvanceCommit(n) \in {n, AdvanceCommitTo(n, c)}
  BY DEF MaybeAdvanceCommit
<1> QED BY <1>1, CalmSelf, CalmAdvance

\* Changing the progress records is calm.
LEMMA CalmPrs ==
  ASSUME NEW n, NEW a \in Nat, WF(n, a), NEW f
  PROVE  Calm(n, [n EXCEPT !.prs = f])
BY DEF Calm, WF, NodeOK, NodesOver

\* Changing one progress record is calm.
LEMMA CalmOnePr ==
  ASSUME NEW n, NEW a \in Nat, WF(n, a), NEW p, NEW pr
  PROVE  Calm(n, [n EXCEPT !.prs[p] = pr])
<1>1. [n EXCEPT !.prs[p] = pr] = [n EXCEPT !.prs = [n.prs EXCEPT ![p] = pr]]
  BY DEF WF, NodeOK, NodesOver
<1> QED BY <1>1, CalmPrs

\* append_local is calm.
LEMMA CalmAppendLocal ==
  ASSUME NEW n, NEW a \in Nat, WF(n, a), NEW kind \in Kinds, NEW arg \in Args
  PROVE  Calm(n, AppendLocal(n, kind, arg))
<1> DEFINE e == [index |-> LastIndex(n.log) + 1, term |-> n.term,
                 kind |-> kind, arg |-> arg]
           p == [n EXCEPT !.log = Push(@, e), !.out.append = Append(@, e)]
           q == MaybeAdvanceCommit(p)
<1>1. e \in Entries /\ e.index = LastIndex(n.log) + 1
  <2>1. LastIndex(n.log) + 1 \in Nat /\ n.term \in Nat
    BY Fields, LogFields
  <2> QED BY <2>1 DEF Entries
<1>2. AppendLocal(n, kind, arg) = BroadcastAppend(q)
  BY DEF AppendLocal
<1> HIDE DEF e
<1>3. WF(p, a)
  BY <1>1, PushWF
<1>4. Calm(n, p)
  <2>1. /\ p.id = n.id /\ p.term = n.term /\ p.votedFor = n.votedFor /\ p.votes = n.votes
        /\ p.role = n.role
    BY DEF WF, NodeOK, NodesOver
  <2>2. p.out.messages = n.out.messages
    BY DEF WF, NodeOK, NodesOver, Outputs
  <2> HIDE DEF p
  <2> QED BY <2>1, <2>2 DEF Calm
<1> HIDE DEF p
<1>5. WF(q, a) /\ Calm(p, q)
  BY <1>3, MaybeAdvanceWF, CalmMaybeAdvance
<1> HIDE DEF q
<1>6. Calm(q, BroadcastAppend(q))
  BY <1>5, CalmBroadcast
<1>7. Calm(n, q)
  BY <1>4, <1>5, CalmTrans
<1> QED BY <1>2, <1>6, <1>7, CalmTrans

\* release_reads is calm.
LEMMA CalmRelease ==
  ASSUME NEW n, NEW a \in Nat, WF(n, a), NEW ctx
  PROVE  Calm(n, ReleaseReads(n, ctx))
<1> DEFINE r == ReleaseReads(n, ctx)
<1>1. /\ r.id = n.id /\ r.term = n.term /\ r.votedFor = n.votedFor /\ r.votes = n.votes
      /\ r.role = n.role
  BY DEF ReleaseReads, WF, NodeOK, NodesOver
<1>2. r.out.messages = n.out.messages
  BY DEF ReleaseReads, WF, NodeOK, NodesOver, Outputs
<1> HIDE DEF r
<1> QED BY <1>1, <1>2 DEF Calm, r

\* process_read_acks is calm.
LEMMA CalmReadAcks ==
  ASSUME NEW n, NEW a \in Nat, WF(n, a)
  PROVE  Calm(n, ProcessReadAcks(n))
<1>1. \E ctx : ProcessReadAcks(n) \in {n, ReleaseReads(n, ctx)}
  BY DEF ProcessReadAcks
<1> QED BY <1>1, CalmSelf, CalmRelease

\* read_index is calm.
LEMMA CalmReadIndex ==
  ASSUME NEW n, NEW a \in Nat, WF(n, a), NEW rid \in Nat
  PROVE  Calm(n, ReadIndex(n, rid))
<1> DEFINE ctx == n.readCtx + 1
           r == [n EXCEPT !.readCtx = ctx,
                          !.pendingReads = @ \cup {[ctx |-> ctx, rid |-> rid,
                                                    index |-> n.commit]}]
<1>1. ctx \in Nat /\ [ctx |-> ctx, rid |-> rid, index |-> n.commit]
                        \in [ctx : Nat, rid : Nat, index : Nat]
  BY Fields
<1>2. ReadIndex(n, rid) \in {ReleaseReads(r, ctx), BroadcastAppend(r)}
  BY DEF ReadIndex
<1> HIDE DEF ctx
<1>3. NodeOK(r)
  BY <1>1 DEF WF, NodeOK, NodesOver
<1>4. /\ r.log = n.log /\ r.snapshot = n.snapshot /\ r.commit = n.commit /\ r.out = n.out
      /\ Calm(n, r)
  BY DEF WF, NodeOK, NodesOver, Calm
<1> HIDE DEF r
<1>5. WF(r, a)
  BY <1>3, <1>4, Frame DEF WF
<1> QED BY <1>2, <1>4, <1>5, CalmBroadcast, CalmRelease, CalmTrans

\* handle_append_resp is calm, and does nothing unless the node leads.
LEMMA CalmAppendResp ==
  ASSUME NEW n, NEW a \in Nat, WF(n, a), NEW m \in Messages, m.type = "AppendEntriesResp"
  PROVE  /\ Calm(n, HandleAppendResp(n, m))
         /\ n.role # "Leader" => HandleAppendResp(n, m) = n
<1>1. CASE n.role # "Leader" \/ m.from \notin DOMAIN n.prs
  <2>1. HandleAppendResp(n, m) = n
    BY <1>1 DEF HandleAppendResp
  <2> QED BY <2>1, CalmSelf
<1>2. CASE n.role = "Leader" /\ m.from \in DOMAIN n.prs
  <2>1. PICK new \in ProgressRecords :
          LET x == [n EXCEPT !.prs[m.from] = new]
              done == ProcessReadAcks(MaybeAdvanceCommit(x))
          IN  \/ HandleAppendResp(n, m) \in {x, done, SendAppend(x, {m.from})}
              \/ /\ m.from \in DOMAIN done.prs
                 /\ HandleAppendResp(n, m) = SendAppend(done, {m.from})
    BY <1>2, AppendRespPaths
  <2> DEFINE x == [n EXCEPT !.prs[m.from] = new]
             c == MaybeAdvanceCommit(x)
             done == ProcessReadAcks(c)
  <2>2. WF(x, a) /\ Calm(n, x)
    BY <1>2, OnePrWF, CalmOnePr
  <2>3. HandleAppendResp(n, m) \in
          {x, done, SendAppend(x, {m.from}), SendAppend(done, {m.from})}
    BY <2>1
  <2> HIDE DEF x
  <2>4. WF(c, a) /\ Calm(x, c)
    BY <2>2, MaybeAdvanceWF, CalmMaybeAdvance
  <2> HIDE DEF c
  <2>5. WF(done, a) /\ Calm(c, done)
    BY <2>4, ProcessReadAcksWF, CalmReadAcks
  <2> HIDE DEF done
  <2>6. Calm(n, done)
    BY <2>2, <2>4, <2>5, CalmTrans
  <2>7. Calm(x, SendAppend(x, {m.from})) /\ Calm(done, SendAppend(done, {m.from}))
    BY <2>2, <2>5, CalmSend
  <2>8. Calm(n, SendAppend(x, {m.from})) /\ Calm(n, SendAppend(done, {m.from}))
    BY <2>2, <2>6, <2>7, CalmTrans
  <2> QED BY <1>2, <2>2, <2>3, <2>6, <2>8
<1> QED BY <1>1, <1>2

\* handle_install_snapshot_resp is calm, and does nothing unless the node leads.
LEMMA CalmInstallResp ==
  ASSUME NEW n, NEW a \in Nat, WF(n, a), NEW m \in Messages, m.type = "InstallSnapshotResp"
  PROVE  /\ Calm(n, HandleInstallSnapshotResp(n, m))
         /\ n.role # "Leader" => HandleInstallSnapshotResp(n, m) = n
<1>1. CASE n.role # "Leader" \/ m.from \notin DOMAIN n.prs
  <2>1. HandleInstallSnapshotResp(n, m) = n
    BY <1>1 DEF HandleInstallSnapshotResp
  <2> QED BY <2>1, CalmSelf
<1>2. CASE n.role = "Leader" /\ m.from \in DOMAIN n.prs
  <2>1. PICK new \in ProgressRecords :
          LET c == MaybeAdvanceCommit([n EXCEPT !.prs[m.from] = new])
          IN  HandleInstallSnapshotResp(n, m) = SendAppend(c, {m.from} \cap DOMAIN c.prs)
    BY <1>2, InstallRespPath
  <2> DEFINE x == [n EXCEPT !.prs[m.from] = new]
             c == MaybeAdvanceCommit(x)
             r == SendAppend(c, {m.from} \cap DOMAIN c.prs)
  <2>2. WF(x, a) /\ Calm(n, x)
    BY <1>2, OnePrWF, CalmOnePr
  <2>3. HandleInstallSnapshotResp(n, m) = r
    BY <2>1
  <2> HIDE DEF x
  <2>4. WF(c, a) /\ Calm(x, c)
    BY <2>2, MaybeAdvanceWF, CalmMaybeAdvance
  <2> HIDE DEF c
  <2>5. Calm(c, r)
    BY <2>4, CalmSend
  <2> HIDE DEF r
  <2>6. Calm(n, c)
    BY <2>2, <2>4, CalmTrans
  <2> QED BY <1>2, <2>3, <2>5, <2>6, CalmTrans
<1> QED BY <1>1, <1>2

\* n has the fields of a node.
Shaped(n) ==
  /\ {"id", "term", "votedFor", "role", "leader", "log", "snapshot", "commit", "quiet",
      "votes", "prs", "readCtx", "pendingReads", "out"} \subseteq DOMAIN n
  /\ {"append", "committed", "snapshot", "readStates", "messages"} \subseteq DOMAIN n.out

\* From n to r no vote is given, nothing is won, and no leader's message is sent.
Mild(n, r) ==
  /\ Shaped(r)
  /\ r.id = n.id /\ r.term = n.term /\ r.votedFor = n.votedFor
  /\ \/ r.role \in {"Follower", "PreCandidate"}
     \/ r.role = n.role /\ r.votes = n.votes
  /\ \A m \in r.out.messages : m \in n.out.messages \/ (~IsGrant(m) /\ ~FromLeader(m))

\* A well-formed node has all its fields.
LEMMA ShapedWF ==
  ASSUME NEW n, NEW a, WF(n, a) PROVE Shaped(n)
BY DEF Shaped, WF, NodeOK, NodesOver, Outputs

\* Doing nothing is mild.
LEMMA MildSelf ==
  ASSUME NEW n, Shaped(n) PROVE Mild(n, n)
BY DEF Mild

\* Mild steps compose.
LEMMA MildTrans ==
  ASSUME NEW n, NEW q, NEW r, Mild(n, q), Mild(q, r)
  PROVE  Mild(n, r)
BY DEF Mild

\* A mild step at the start of an event is a hop.
LEMMA MildHop ==
  ASSUME NEW n, NEW r, NEW B, Ev(n, B), Mild(n, r), n.out.messages = {}
  PROVE  Hop(n, r, B)
<1>1. r.role = "Leader" => Led(r, B)
  BY DEF Led, Mild, Ev
<1>2. Ev(r, B)
  BY <1>1 DEF Ev, Mild
<1> QED BY <1>2 DEF Mild, Hop

\* Sending answers and requests is mild.
LEMMA MildSend ==
  ASSUME NEW n, Shaped(n), NEW ms, \A m \in ms : ~IsGrant(m) /\ ~FromLeader(m)
  PROVE  Mild(n, Send(n, ms))
<1> DEFINE r == Send(n, ms)
<1>1. Shaped(r) /\ r.out.messages = n.out.messages \cup ms
  BY DEF Send, Shaped
<1>2. /\ r.id = n.id /\ r.term = n.term /\ r.votedFor = n.votedFor /\ r.votes = n.votes
      /\ r.role = n.role
  BY DEF Send, Shaped
<1> HIDE DEF r
<1> QED BY <1>1, <1>2 DEF Mild, r

\* reply_append is mild.
LEMMA MildAppendResp ==
  ASSUME NEW n, Shaped(n), NEW m, NEW s, NEW x, NEW y
  PROVE  Mild(n, AppendResp(n, m, s, x, y))
<1> DEFINE w == [type |-> "AppendEntriesResp", from |-> n.id, to |-> m.from,
                 term |-> n.term, success |-> s, matchIndex |-> x,
                 conflictIndex |-> y, readCtx |-> m.readCtx]
<1>1. ~IsGrant(w) /\ ~FromLeader(w)
  BY DEF IsGrant, FromLeader
<1>2. AppendResp(n, m, s, x, y) = Send(n, {w})
  BY DEF AppendResp
<1> HIDE DEF w
<1> QED BY <1>1, <1>2, MildSend

\* The answer to a snapshot is mild.
LEMMA MildSnapshotResp ==
  ASSUME NEW n, Shaped(n), NEW m, NEW x
  PROVE  Mild(n, SnapshotResp(n, m, x))
<1> DEFINE w == [type |-> "InstallSnapshotResp", from |-> n.id, to |-> m.from,
                 term |-> n.term, lastIndex |-> x]
<1>1. ~IsGrant(w) /\ ~FromLeader(w)
  BY DEF IsGrant, FromLeader
<1>2. SnapshotResp(n, m, x) = Send(n, {w})
  BY DEF SnapshotResp
<1> HIDE DEF w
<1> QED BY <1>1, <1>2, MildSend

\* The answer to a pre-vote, and a refused vote, are mild.
LEMMA MildVoteResp ==
  ASSUME NEW n, Shaped(n), NEW m, NEW t, NEW granted,
         NEW type \in {"PreVoteResp", "RequestVoteResp"},
         type = "PreVoteResp" \/ granted = FALSE
  PROVE  Mild(n, VoteResp(n, m, type, t, granted))
<1> DEFINE w == [type |-> type, from |-> n.id, to |-> m.from, term |-> t,
                 granted |-> granted]
<1>1. ~IsGrant(w) /\ ~FromLeader(w)
  BY DEF IsGrant, FromLeader
<1>2. VoteResp(n, m, type, t, granted) = Send(n, {w})
  BY DEF VoteResp
<1> HIDE DEF w
<1> QED BY <1>1, <1>2, MildSend

\* Asking for votes or pre-votes is mild.
LEMMA MildBallots ==
  ASSUME NEW n, Shaped(n), NEW type \in {"PreVote", "RequestVote"}, NEW t
  PROVE  Mild(n, Send(n, Ballots(n, type, t)))
<1>1. \A m \in Ballots(n, type, t) : ~IsGrant(m) /\ ~FromLeader(m)
  BY DEF Ballots, IsGrant, FromLeader
<1> QED BY <1>1, MildSend

\* Following the sender of a message is mild.
LEMMA MildFollow ==
  ASSUME NEW n, Shaped(n), NEW l
  PROVE  LET f == [n EXCEPT !.role = "Follower", !.leader = l, !.quiet = FALSE]
         IN  Mild(n, f) /\ Shaped(f)
BY DEF Mild, Shaped

\* Changing the log is mild.
LEMMA MildWithLog ==
  ASSUME NEW n, Shaped(n), NEW log, NEW more
  PROVE  Mild(n, WithLog(n, log, more))
<1> DEFINE r == WithLog(n, log, more)
<1>1. Shaped(r) /\ r.out.messages = n.out.messages
  BY DEF WithLog, Shaped
<1>2. /\ r.id = n.id /\ r.term = n.term /\ r.votedFor = n.votedFor /\ r.votes = n.votes
      /\ r.role = n.role
  BY DEF WithLog, Shaped
<1> HIDE DEF r
<1> QED BY <1>1, <1>2 DEF Mild, r

\* Installing a snapshot is mild.
LEMMA MildInstalled ==
  ASSUME NEW n, Shaped(n), NEW s
  PROVE  Mild(n, Installed(n, s))
<1> DEFINE r == Installed(n, s)
<1>1. Shaped(r) /\ r.out.messages = n.out.messages
  BY DEF Installed, Shaped
<1>2. /\ r.id = n.id /\ r.term = n.term /\ r.votedFor = n.votedFor /\ r.votes = n.votes
      /\ r.role = n.role
  BY DEF Installed, Shaped
<1> HIDE DEF r
<1> QED BY <1>1, <1>2 DEF Mild, r

\* become_follower forgets the vote only when the term grows.
LEMMA BecomeFollowerShape ==
  ASSUME NEW n, Shaped(n), n.term \in Nat, NEW t \in Nat, NEW l
  PROVE  LET r == BecomeFollower(n, t, l)
         IN  /\ Shaped(r) /\ r.id = n.id /\ r.out = n.out /\ r.role = "Follower"
             /\ t <= n.term => r.term = n.term /\ r.votedFor = n.votedFor
             /\ t > n.term => r.term = t /\ r.votedFor = None
BY DEF BecomeFollower, Shaped, Greatest

\* advance_commit_to is mild.
LEMMA MildAdvance ==
  ASSUME NEW n, Shaped(n), n.term \in Nat, NEW c
  PROVE  Mild(n, AdvanceCommitTo(n, c))
<1> DEFINE x == [n EXCEPT !.commit = c, !.out.committed = @ \o
                   SubSeq(n.log.entries, n.commit - n.log.snapIndex + 1,
                          c - n.log.snapIndex)]
           y == BecomeFollower(x, x.term, None)
<1>1. AdvanceCommitTo(n, c) \in {x, y}
  BY DEF AdvanceCommitTo
<1>2. /\ x.id = n.id /\ x.term = n.term /\ x.votedFor = n.votedFor /\ x.votes = n.votes
      /\ x.role = n.role /\ x.out.messages = n.out.messages
  BY DEF Shaped
<1>3. Shaped(x)
  BY DEF Shaped
<1> HIDE DEF x
<1>4. x.term <= x.term
  BY <1>2
<1>5. /\ Shaped(y) /\ y.id = n.id /\ y.out = x.out /\ y.role = "Follower"
      /\ y.term = n.term /\ y.votedFor = n.votedFor
  BY <1>2, <1>3, <1>4, BecomeFollowerShape
<1> HIDE DEF y
<1> QED BY <1>1, <1>2, <1>3, <1>5 DEF Mild

\* When the voters are fixed, the count that makes a candidate leader is a majority
\* of the initial voters.
LEMMA WonMajority ==
  ASSUME ConfChanges = {}, NEW n, NodeOK(n), CountGranted(n) >= Quorum(n)
  PROVE  Majority(n.votes)
<1>1. Voters(n) = InitialVoters
  BY VotersFixed DEF Voters, Configurations
<1>2. IsFiniteSet(InitialVoters) /\ IsFiniteSet(n.votes \cap InitialVoters)
  BY ServerAssumption, VotersAssumption, FS_Subset
<1>3. Cardinality(InitialVoters) \in Nat /\ Cardinality(n.votes \cap InitialVoters) \in Nat
  BY <1>2, FS_CardinalityType
<1>4. Cardinality(n.votes \cap InitialVoters) >= Cardinality(InitialVoters) \div 2 + 1
  BY <1>1 DEF CountGranted, Quorum
<1>5. \A c, k \in Nat : c >= k \div 2 + 1 => 2 * c > k
  OBVIOUS
<1> QED BY <1>3, <1>4, <1>5 DEF Majority

\* become_leader, no-op entry and broadcasts included, by a candidate that won.
LEMMA BecomeLeaderEv ==
  ASSUME NEW n, NEW a \in Nat, WF(n, a), NEW B, Led(n, B), n.out.messages = {}
  PROVE  LET r == BecomeLeader(n)
         IN  Ev(r, B) /\ r.id = n.id /\ r.term = n.term /\ r.votedFor = n.votedFor
<1> DEFINE f == [p \in Voters(n) \ {n.id} |-> Progress(LastIndex(n.log) + 1)]
           l == [n EXCEPT !.role = "Leader", !.leader = n.id,
                          !.pendingReads = {}, !.readCtx = 0, !.prs = f]
           q == AppendLocal(l, "Noop", None)
           r == BroadcastAppend(q)
<1>1. f \in [Voters(n) \ {n.id} -> ProgressRecords] /\ DOMAIN f \subseteq Server
  <2>1. LastIndex(n.log) + 1 \in Nat
    BY Fields, LogFields
  <2>2. Progress(LastIndex(n.log) + 1) \in ProgressRecords
    BY <2>1 DEF Progress, ProgressRecords
  <2> QED BY <2>2, VotersType
<1>2. BecomeLeader(n) = r
  BY DEF BecomeLeader
<1> HIDE DEF f
<1>3. NodeOK(l)
  BY <1>1 DEF WF, NodeOK, NodesOver
<1>4. /\ l.log = n.log /\ l.snapshot = n.snapshot /\ l.commit = n.commit
      /\ l.out = n.out /\ l.id = n.id /\ l.term = n.term /\ l.votedFor = n.votedFor
      /\ l.votes = n.votes
  BY DEF WF, NodeOK, NodesOver
<1> HIDE DEF l
<1>5. WF(l, a)
  BY <1>3, <1>4, Frame DEF WF
<1>6. Led(l, B) /\ Ev(l, B)
  BY <1>4 DEF Led, Ev
<1>7. WF(q, a) /\ Calm(l, q)
  BY <1>5, AppendLocalWF, CalmAppendLocal DEF Kinds, Args
<1> HIDE DEF q
<1>8. Calm(q, r)
  BY <1>7, CalmBroadcast
<1> HIDE DEF r
<1>9. Calm(l, r)
  BY <1>7, <1>8, CalmTrans
<1>10. Hop(l, r, B)
  BY <1>6, <1>9, CalmHop
<1>11. l.term \in Nat
  BY <1>5, Fields
<1> QED BY <1>2, <1>4, <1>9, <1>10, <1>11 DEF Hop, Calm

\* campaign moves to a new term with the candidate's own vote.
LEMMA CampaignHop ==
  ASSUME ConfChanges = {}, NEW n, NEW a \in Nat, WF(n, a), n.out.messages = {}, NEW B
  PROVE  /\ Hop(n, Campaign(n), B)
         /\ Campaign(n).id = n.id /\ Campaign(n).term > n.term /\ Ev(Campaign(n), {})
<1> DEFINE c == [n EXCEPT !.term = @ + 1, !.votedFor = n.id, !.role = "Candidate",
                          !.leader = None, !.votes = {n.id}]
           none == {x \in Server : FALSE}
<1>1. NodeOK(c)
  <2>1. n.term + 1 \in Nat /\ n.id \in Server /\ {n.id} \in SUBSET Server
    BY Fields
  <2> QED BY <2>1 DEF WF, NodeOK, NodesOver
<1>2. /\ c.log = n.log /\ c.snapshot = n.snapshot /\ c.commit = n.commit
      /\ c.out = n.out /\ c.id = n.id /\ c.term = n.term + 1 /\ c.votedFor = n.id
      /\ c.votes = {n.id} /\ c.role = "Candidate"
  BY DEF WF, NodeOK, NodesOver
<1>3. \/ CountGranted(c) >= Quorum(c) /\ Campaign(n) = BecomeLeader(c)
      \/ Campaign(n) = Send(c, Ballots(c, "RequestVote", c.term))
  BY DEF Campaign
<1> HIDE DEF c
<1>4. WF(c, a) /\ n.term \in Nat
  BY <1>1, <1>2, Frame, Fields DEF WF
<1>5. Ev(c, {})
  BY <1>2 DEF Ev
<1>6. CASE CountGranted(c) >= Quorum(c) /\ Campaign(n) = BecomeLeader(c)
  <2>1. Majority(c.votes)
    BY <1>1, <1>6, WonMajority
  <2>2. Led(c, {})
    BY <1>2, <2>1 DEF Led
  <2>3. \A E : E = {} => Ev(BecomeLeader(c), E)
    BY <1>2, <1>4, <2>2, BecomeLeaderEv
  <2>4. BecomeLeader(c).id = c.id /\ BecomeLeader(c).term = c.term
    <3>1. \A E : E = {} => BecomeLeader(c).id = c.id /\ BecomeLeader(c).term = c.term
      BY <1>2, <1>4, <2>2, BecomeLeaderEv
    <3> QED BY <3>1
  <2> QED BY <1>2, <1>4, <1>6, <2>3, <2>4 DEF Hop
<1>7. CASE Campaign(n) = Send(c, Ballots(c, "RequestVote", c.term))
  <2> DEFINE r == Send(c, Ballots(c, "RequestVote", c.term))
  <2>1. Shaped(c)
    BY <1>4, ShapedWF
  <2>2. Mild(c, r)
    BY <2>1, MildBallots
  <2> HIDE DEF r
  <2>3. \A E : E = {} => Hop(c, r, E)
    BY <1>2, <1>5, <2>2, MildHop
  <2>4. Ev(r, {}) /\ r.term = c.term /\ r.id = c.id
    BY <2>2, <2>3 DEF Hop, Mild
  <2> QED BY <1>2, <1>4, <1>7, <2>4 DEF Hop, r
<1> QED BY <1>3, <1>6, <1>7

\* A mild step and then a new term make a hop.
LEMMA MildThenUp ==
  ASSUME NEW n, NEW c, NEW r, NEW B, Mild(n, c), r.id = c.id, r.term > c.term, Ev(r, {})
  PROVE  Hop(n, r, B)
BY DEF Mild, Hop

\* campaign_pre is a hop, also when it campaigns at once.
LEMMA CampaignPreHop ==
  ASSUME ConfChanges = {}, NEW n, NEW a \in Nat, WF(n, a), n.out.messages = {},
         NEW B, Ev(n, B)
  PROVE  Hop(n, CampaignPre(n), B)
<1> DEFINE c == [n EXCEPT !.role = "PreCandidate", !.votes = {n.id}]
<1>1. NodeOK(c)
  BY DEF WF, NodeOK, NodesOver
<1>2. /\ c.log = n.log /\ c.snapshot = n.snapshot /\ c.commit = n.commit
      /\ c.out = n.out /\ c.id = n.id /\ c.term = n.term /\ c.votedFor = n.votedFor
      /\ c.role = "PreCandidate"
  BY DEF WF, NodeOK, NodesOver
<1>3. CampaignPre(n) \in {Campaign(c), Send(c, Ballots(c, "PreVote", c.term + 1))}
  BY DEF CampaignPre
<1> HIDE DEF c
<1>4. WF(c, a)
  BY <1>1, <1>2, Frame DEF WF
<1>5. Shaped(c)
  BY <1>4, ShapedWF
<1>6. Mild(n, c)
  BY <1>2, <1>5 DEF Mild
<1>7. Campaign(c).id = c.id /\ Campaign(c).term > c.term /\ Ev(Campaign(c), {})
  BY <1>2, <1>4, CampaignHop
<1>8. Hop(n, Campaign(c), B)
  BY <1>6, <1>7, MildThenUp
<1>9. Mild(c, Send(c, Ballots(c, "PreVote", c.term + 1)))
  BY <1>5, MildBallots
<1>10. Hop(n, Send(c, Ballots(c, "PreVote", c.term + 1)), B)
  BY <1>6, <1>9, MildTrans, MildHop
<1> QED BY <1>3, <1>8, <1>10

\* An election timeout is a hop.
LEMMA ElectionTimeoutHop ==
  ASSUME ConfChanges = {}, NEW n, NEW a \in Nat, WF(n, a), n.out.messages = {},
         NEW B, Ev(n, B)
  PROVE  Hop(n, ElectionTimeout(n), B)
<1> DEFINE r == ResetElectionTimer(n)
<1>1. NodeOK(r)
  BY DEF WF, NodeOK, NodesOver, ResetElectionTimer
<1>2. /\ r.log = n.log /\ r.snapshot = n.snapshot /\ r.commit = n.commit
      /\ r.out = n.out /\ r.id = n.id /\ r.term = n.term /\ r.votedFor = n.votedFor
      /\ r.votes = n.votes /\ r.role = n.role
  BY DEF WF, NodeOK, NodesOver, ResetElectionTimer
<1> HIDE DEF r
<1>3. WF(r, a)
  BY <1>1, <1>2, Frame DEF WF
<1>4. ElectionTimeout(n) \in {r, CampaignPre(r), Campaign(r)}
  BY DEF ElectionTimeout, r
<1>5. Ev(r, B)
  BY <1>2 DEF Ev, Led
<1>6. Hop(r, CampaignPre(r), B) /\ Hop(r, Campaign(r), B)
  BY <1>2, <1>3, <1>5, CampaignPreHop, CampaignHop
<1>7. \A x : Hop(r, x, B) => Hop(n, x, B)
  BY <1>2 DEF Hop
<1>8. Hop(n, r, B)
  BY <1>2, <1>5 DEF Hop
<1> QED BY <1>4, <1>6, <1>7, <1>8

\* The term preamble of step() does nothing or makes a follower of a new term.
LEMMA UpToTermCases ==
  ASSUME NEW n, NEW a \in Nat, WF(n, a), NEW m \in Messages, n.out.messages = {}
  PROVE  LET u == UpToTerm(n, m)
         IN  \/ u = n
             \/ /\ u.id = n.id /\ u.term > n.term /\ u.role = "Follower"
                /\ u.out.messages = {} /\ Ev(u, {})
<1> DEFINE l == IF m.type \in {"AppendEntries", "InstallSnapshot"} THEN m.from ELSE None
           u == BecomeFollower(n, m.term, l)
<1>1. m.term \in Nat /\ n.term \in Nat /\ Shaped(n)
  BY MessageFields, Fields, ShapedWF
<1>2. UpToTerm(n, m) = n \/ (m.term > n.term /\ UpToTerm(n, m) = u)
  BY DEF UpToTerm
<1> HIDE DEF l
<1>3. ASSUME m.term > n.term
      PROVE  u.id = n.id /\ u.term > n.term /\ u.role = "Follower" /\ u.out.messages = {}
  BY <1>1, <1>3, BecomeFollowerShape
<1> HIDE DEF u
<1> QED BY <1>2, <1>3 DEF Ev

\* A handler's hop from the node brought up to the message's term is one from
\* the node itself.
LEMMA StepHop ==
  ASSUME NEW n, NEW a \in Nat, WF(n, a), NEW m \in Messages, n.out.messages = {},
         NEW B, Ev(n, B), NEW r, WF(r, a),
         \A E : Ev(UpToTerm(n, m), E) /\ (UpToTerm(n, m).role = "Follower" \/ E = B)
                  => Hop(UpToTerm(n, m), r, E)
  PROVE  Hop(n, r, B)
<1> DEFINE u == UpToTerm(n, m)
           none == {x \in Server : FALSE}
<1>1. n.term \in Nat /\ r.term \in Nat
  BY Fields
<1>2. WF(u, a)
  BY UpToTermWF
<1>3. u.term \in Nat
  BY <1>2, Fields
<1>4. CASE u = n
  BY <1>4
<1>5. CASE /\ u.id = n.id /\ u.term > n.term /\ u.role = "Follower"
           /\ u.out.messages = {} /\ Ev(u, {})
  <2>1. none = {}
    OBVIOUS
  <2>2. Hop(u, r, none)
    <3>1. Ev(u, none)
      BY <1>5, <2>1
    <3> HIDE DEF none
    <3> QED BY <1>5, <3>1
  <2>3. Ev(r, none) /\ r.id = u.id /\ r.term >= u.term
    <3>1. r.id = u.id /\ Ev(r, none) /\ (r.term = u.term \/ r.term > u.term)
      <4> HIDE DEF u
      <4> QED BY <2>1, <2>2 DEF Hop
    <3> HIDE DEF none, u
    <3> QED BY <1>1, <1>3, <3>1
  <2>4. r.term > n.term /\ r.id = n.id
    <3> HIDE DEF none, u
    <3> QED BY <1>1, <1>3, <1>5, <2>3
  <2>5. Ev(r, {})
    BY <2>1, <2>3
  <2> QED BY <2>4, <2>5 DEF Hop
<1> QED BY <1>4, <1>5, UpToTermCases

\* handle_pre_vote is a hop.
LEMMA HandlePreVoteHop ==
  ASSUME NEW n, NEW a \in Nat, WF(n, a), NEW m, n.out.messages = {}, NEW B, Ev(n, B)
  PROVE  Hop(n, HandlePreVote(n, m), B)
<1>1. \E t, granted : HandlePreVote(n, m) = VoteResp(n, m, "PreVoteResp", t, granted)
  BY DEF HandlePreVote
<1>2. Shaped(n)
  BY ShapedWF
<1>3. Mild(n, HandlePreVote(n, m))
  BY <1>1, <1>2, MildVoteResp
<1> QED BY <1>3, MildHop

\* handle_pre_vote_resp is a hop.
LEMMA HandlePreVoteRespHop ==
  ASSUME ConfChanges = {}, NEW n, NEW a \in Nat, WF(n, a), NEW m \in Messages,
         n.out.messages = {}, NEW B, Ev(n, B)
  PROVE  Hop(n, HandlePreVoteResp(n, m), B)
<1> DEFINE v == [n EXCEPT !.votes = @ \cup {m.from}]
           f == BecomeFollower(n, m.term, None)
<1>1. m.from \in Server /\ m.term \in Nat /\ n.term \in Nat /\ Shaped(n)
  BY MessageFields, Fields, ShapedWF
<1>2. n.votes \cup {m.from} \in SUBSET Server
  BY <1>1 DEF WF, NodeOK, NodesOver
<1>3. WF(v, a)
  BY <1>2, VotesWF
<1>4. Shaped(v) /\ v.id = n.id /\ v.term = n.term /\ v.votedFor = n.votedFor
      /\ v.role = n.role /\ v.out = n.out
  BY <1>1 DEF Shaped
<1>5. \/ HandlePreVoteResp(n, m) = n
      \/ m.term > n.term /\ HandlePreVoteResp(n, m) = f
      \/ n.role = "PreCandidate" /\ HandlePreVoteResp(n, m) \in {v, Campaign(v)}
  BY DEF HandlePreVoteResp
<1> HIDE DEF v
<1>6. Hop(n, n, B)
  BY DEF Hop
<1>7. ASSUME m.term > n.term PROVE Hop(n, f, B)
  <2>1. f.id = n.id /\ f.out = n.out /\ f.role = "Follower" /\ f.term = m.term
    BY <1>1, <1>7, BecomeFollowerShape
  <2> HIDE DEF f
  <2> QED BY <1>7, <2>1 DEF Hop, Ev
<1>8. ASSUME n.role = "PreCandidate" PROVE Hop(n, v, B) /\ Hop(n, Campaign(v), B)
  <2>1. Mild(n, v)
    BY <1>4, <1>8 DEF Mild
  <2>2. Campaign(v).id = v.id /\ Campaign(v).term > v.term /\ Ev(Campaign(v), {})
    BY <1>3, <1>4, CampaignHop
  <2> QED BY <2>1, <2>2, MildHop, MildThenUp
<1> QED BY <1>5, <1>6, <1>7, <1>8

\* Answering a stale message is a hop.
LEMMA RejectStaleHop ==
  ASSUME NEW n, NEW a \in Nat, WF(n, a), NEW m, n.out.messages = {}, NEW B, Ev(n, B)
  PROVE  Hop(n, RejectStale(n, m), B)
<1>1. \/ RejectStale(n, m) = n
      \/ \E no \in BOOLEAN, zero \in Nat :
           RejectStale(n, m) = AppendResp(n, m, no, zero, zero)
      \/ \E no \in BOOLEAN : no = FALSE /\
           RejectStale(n, m) = VoteResp(n, m, "RequestVoteResp", n.term, no)
  BY DEF RejectStale
<1>2. Shaped(n)
  BY ShapedWF
<1>3. Mild(n, RejectStale(n, m))
  BY <1>1, <1>2, MildSelf, MildVoteResp, MildAppendResp
<1> QED BY <1>3, MildHop

\* handle_request_vote is a hop: it gives the vote to the one it records.
LEMMA HandleRequestVoteHop ==
  ASSUME NEW n, NEW a \in Nat, WF(n, a), NEW m \in Messages, n.out.messages = {},
         NEW B, Ev(n, B)
  PROVE  Hop(n, HandleRequestVote(n, m), B)
<1> DEFINE v == ResetElectionTimer([n EXCEPT !.votedFor = m.from])
           w == [type |-> "RequestVoteResp", from |-> v.id, to |-> m.from,
                 term |-> v.term, granted |-> TRUE]
           r == Send(v, {w})
<1>1. Shaped(n) /\ n.id \in Server /\ n.id # None
  BY ShapedWF, Fields, ServerAssumption
<1>2. /\ Shaped(v) /\ v.id = n.id /\ v.term = n.term /\ v.votedFor = m.from
      /\ v.role = n.role /\ v.votes = n.votes /\ v.out = n.out
  BY <1>1 DEF Shaped, ResetElectionTimer
<1>3. \/ \E no \in BOOLEAN : no = FALSE /\
           HandleRequestVote(n, m) = VoteResp(n, m, "RequestVoteResp", n.term, no)
      \/ n.votedFor \in {None, m.from} /\ HandleRequestVote(n, m) = r
  BY DEF HandleRequestVote, VoteResp
<1> HIDE DEF v
<1>4. ASSUME NEW no \in BOOLEAN, no = FALSE
      PROVE  Hop(n, VoteResp(n, m, "RequestVoteResp", n.term, no), B)
  BY <1>1, <1>4, MildVoteResp, MildHop
<1>5. ASSUME n.votedFor \in {None, m.from} PROVE Hop(n, r, B)
  <2>1. /\ r.id = n.id /\ r.term = n.term /\ r.votedFor = m.from
        /\ r.role = n.role /\ r.votes = n.votes /\ r.out.messages = {w}
    BY <1>2 DEF Send, Shaped
  <2>2. w.from = n.id /\ w.to = m.from /\ w.term = n.term /\ ~FromLeader(w)
    BY <1>2 DEF FromLeader
  <2> HIDE DEF r, w
  <2>3. r.role \in {"Candidate", "Leader"} => m.from = n.id
    BY <1>1, <1>5, <2>1 DEF Ev
  <2>4. r.role = "Leader" => Led(r, B)
    BY <2>1, <2>3 DEF Ev, Led
  <2>5. Ev(r, B)
    BY <2>1, <2>2, <2>3, <2>4 DEF Ev
  <2> QED BY <1>5, <2>1, <2>5 DEF Hop
<1> QED BY <1>3, <1>4, <1>5

\* handle_request_vote_resp is a hop, provided the grant it counts is a real one.
LEMMA HandleRequestVoteRespHop ==
  ASSUME ConfChanges = {}, NEW n, NEW a \in Nat, WF(n, a), NEW m \in Messages,
         n.out.messages = {}, NEW B, Ev(n, B),
         n.role = "Candidate" /\ m.granted => m.from \in B
  PROVE  Hop(n, HandleRequestVoteResp(n, m), B)
<1> DEFINE vs == IF m.granted THEN n.votes \cup {m.from} ELSE n.votes \ {m.from}
           v == [n EXCEPT !.votes = vs]
<1>1. m.from \in Server /\ n.term \in Nat
  BY MessageFields, Fields
<1>2. vs \in SUBSET Server
  BY <1>1 DEF WF, NodeOK, NodesOver
<1>3. \/ HandleRequestVoteResp(n, m) = n
      \/ n.role = "Candidate" /\ HandleRequestVoteResp(n, m) = v
      \/ /\ n.role = "Candidate" /\ CountGranted(v) >= Quorum(v)
         /\ HandleRequestVoteResp(n, m) = BecomeLeader(v)
  BY DEF HandleRequestVoteResp
<1>4. n.role = "Candidate" => vs \subseteq B \cup {n.id}
  BY DEF Ev
<1> HIDE DEF vs
<1>5. /\ v.id = n.id /\ v.term = n.term /\ v.votedFor = n.votedFor /\ v.votes = vs
      /\ v.role = n.role /\ v.out = n.out
  BY DEF WF, NodeOK, NodesOver
<1>6. WF(v, a) /\ NodeOK(v)
  BY <1>2, VotesWF DEF WF
<1> HIDE DEF v
<1>7. Hop(n, n, B)
  BY DEF Hop
<1>8. ASSUME n.role = "Candidate" PROVE Hop(n, v, B)
  <2>1. Ev(v, B)
    BY <1>4, <1>5, <1>8 DEF Ev
  <2> QED BY <1>5, <2>1 DEF Hop
<1>9. ASSUME n.role = "Candidate", CountGranted(v) >= Quorum(v)
      PROVE  Hop(n, BecomeLeader(v), B)
  <2>1. Majority(v.votes)
    BY <1>6, <1>9, WonMajority
  <2>2. Led(v, B)
    BY <1>4, <1>5, <1>9, <2>1 DEF Led, Ev
  <2>3. /\ Ev(BecomeLeader(v), B) /\ BecomeLeader(v).id = v.id
        /\ BecomeLeader(v).term = v.term /\ BecomeLeader(v).votedFor = v.votedFor
    BY <1>5, <1>6, <2>2, BecomeLeaderEv
  <2> QED BY <1>5, <2>3 DEF Hop
<1> QED BY <1>3, <1>7, <1>8, <1>9

\* The matching branch of handle_append_entries is mild.
LEMMA MildMatching ==
  ASSUME NEW n, Shaped(n), n.term \in Nat, NEW m, NEW prev, NEW entries
  PROVE  Mild(n, AppendMatching(n, m, prev, entries))
<1> DEFINE news == News(n.log, entries)
           suffix == SubSeq(entries, Min(news), Len(entries))
           log == [TruncateFrom(n.log, suffix[1].index) EXCEPT !.entries = @ \o suffix]
           p == IF news = {} THEN n ELSE WithLog(n, log, suffix)
           newLast == prev + Len(entries)
           target == Least(m.commit, newLast)
           c == IF target > p.commit THEN AdvanceCommitTo(p, target) ELSE p
<1>1. AppendMatching(n, m, prev, entries) = AppendResp(c, m, TRUE, newLast, 0)
  BY DEF AppendMatching, WithLog
<1>2. \E yes, last, zero :
        AppendMatching(n, m, prev, entries) = AppendResp(c, m, yes, last, zero)
  BY <1>1
<1> HIDE DEF news, suffix, log, newLast
<1>3. Mild(n, p)
  BY MildSelf, MildWithLog
<1>4. Shaped(p) /\ p.term \in Nat
  BY <1>3 DEF Mild
<1> HIDE DEF p, target
<1>5. Mild(p, c)
  BY <1>4, MildSelf, MildAdvance
<1>6. Mild(n, c) /\ Shaped(c)
  BY <1>3, <1>5, MildTrans DEF Mild
<1> HIDE DEF c
<1>7. Mild(c, AppendMatching(n, m, prev, entries))
  BY <1>2, <1>6, MildAppendResp
<1> QED BY <1>6, <1>7, MildTrans

\* handle_append_entries is a hop.
LEMMA HandleAppendEntriesHop ==
  ASSUME NEW n, NEW a \in Nat, WF(n, a), NEW m, n.out.messages = {}, NEW B, Ev(n, B)
  PROVE  Hop(n, HandleAppendEntries(n, m), B)
<1> DEFINE f == [n EXCEPT !.role = "Follower", !.leader = m.from, !.quiet = FALSE]
           b == AboveBase(n, m)
<1>1. Shaped(n) /\ n.term \in Nat
  BY ShapedWF, Fields
<1>2. Mild(n, f) /\ Shaped(f)
  BY <1>1, MildFollow
<1>3. \/ \E s, x, y : HandleAppendEntries(n, m) = AppendResp(f, m, s, x, y)
      \/ HandleAppendEntries(n, m) = AppendMatching(f, m, b.prev, b.entries)
  BY DEF HandleAppendEntries
<1> HIDE DEF f, b
<1>4. f.term \in Nat
  BY <1>1, <1>2 DEF Mild
<1>5. Mild(f, HandleAppendEntries(n, m))
  BY <1>2, <1>3, <1>4, MildAppendResp, MildMatching
<1> QED BY <1>2, <1>5, MildTrans, MildHop

\* handle_install_snapshot is a hop.
LEMMA HandleInstallSnapshotHop ==
  ASSUME NEW n, NEW a \in Nat, WF(n, a), NEW m, n.out.messages = {}, NEW B, Ev(n, B)
  PROVE  Hop(n, HandleInstallSnapshot(n, m), B)
<1> DEFINE f == [n EXCEPT !.role = "Follower", !.leader = m.from, !.quiet = FALSE]
           s == m.snapshot
<1>1. Shaped(n) /\ n.term \in Nat
  BY ShapedWF, Fields
<1>2. Mild(n, f) /\ Shaped(f)
  BY <1>1, MildFollow
<1>3. HandleInstallSnapshot(n, m) =
        IF s.lastIndex <= n.commit THEN SnapshotResp(f, m, n.commit)
        ELSE IF TermIs(n.log, s.lastIndex, s.lastTerm)
          THEN SnapshotResp(AdvanceCommitTo(f, s.lastIndex), m, s.lastIndex)
        ELSE SnapshotResp(Installed(f, s), m, s.lastIndex)
  BY Zenon DEF HandleInstallSnapshot, Installed
<1> HIDE DEF f, s
<1>4. \E c \in {f, AdvanceCommitTo(f, s.lastIndex), Installed(f, s)} :
        \E x : HandleInstallSnapshot(n, m) = SnapshotResp(c, m, x)
  BY <1>3
<1>5. f.term \in Nat
  BY <1>1, <1>2 DEF Mild
<1>6. ASSUME NEW c \in {f, AdvanceCommitTo(f, s.lastIndex), Installed(f, s)}
      PROVE  Mild(n, c) /\ Shaped(c)
  <2>1. Mild(f, c)
    BY <1>2, <1>5, MildSelf, MildAdvance, MildInstalled
  <2>2. Mild(n, c)
    BY <1>2, <2>1, MildTrans
  <2> QED BY <2>2 DEF Mild
<1>7. Mild(n, HandleInstallSnapshot(n, m))
  BY <1>4, <1>6, MildSnapshotResp, MildTrans
<1> QED BY <1>7, MildHop
=============================================================================
