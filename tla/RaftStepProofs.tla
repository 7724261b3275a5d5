--------------------------- MODULE RaftStepProofs ---------------------------
(***************************************************************************)
(* The message handlers of RaftStep keep a node well formed.                *)
(***************************************************************************)
EXTENDS RaftNodeProofs

\* What every message carries.
LEMMA MessageFields ==
  ASSUME NEW m \in Messages
  PROVE  m.from \in Server /\ m.to \in Server /\ m.term \in Nat
BY DEF Messages, Votes, VoteResps, Appends, AppendResps, Installs, InstallResps

\* The type tag of a message tells its fields: AppendEntries.
LEMMA AppendFields ==
  ASSUME NEW m \in Messages, m.type = "AppendEntries"
  PROVE  m \in Appends
BY DEF Messages, Votes, VoteResps, Appends, AppendResps, Installs, InstallResps

\* The type tag of a message tells its fields: AppendEntriesResp.
LEMMA AppendRespFields ==
  ASSUME NEW m \in Messages, m.type = "AppendEntriesResp"
  PROVE  m \in AppendResps
BY DEF Messages, Votes, VoteResps, Appends, AppendResps, Installs, InstallResps

\* The type tag of a message tells its fields: InstallSnapshot.
LEMMA InstallFields ==
  ASSUME NEW m \in Messages, m.type = "InstallSnapshot"
  PROVE  m \in Installs
BY DEF Messages, Votes, VoteResps, Appends, AppendResps, Installs, InstallResps

\* The type tag of a message tells its fields: InstallSnapshotResp.
LEMMA InstallRespFields ==
  ASSUME NEW m \in Messages, m.type = "InstallSnapshotResp"
  PROVE  m \in InstallResps
BY DEF Messages, Votes, VoteResps, Appends, AppendResps, Installs, InstallResps

\* The term preamble of step() keeps a node well formed and hands out nothing.
LEMMA UpToTermWF ==
  ASSUME NEW n, NEW a \in Nat, WF(n, a), NEW m \in Messages
  PROVE  WF(UpToTerm(n, m), a) /\ UpToTerm(n, m).id = n.id
         /\ UpToTerm(n, m).out = n.out
<1>1. m.from \in Server /\ m.term \in Nat
  BY MessageFields
<1>2. \E l \in Server \cup {None} : UpToTerm(n, m) \in {n, BecomeFollower(n, m.term, l)}
  BY <1>1 DEF UpToTerm
<1>3. \A l : BecomeFollower(n, m.term, l).out = n.out
  BY DEF BecomeFollower, WF, NodeOK, NodesOver
<1> QED BY <1>1, <1>2, <1>3, BecomeFollowerWF

\* Answering an append keeps a node well formed.
LEMMA AppendRespWF ==
  ASSUME NEW n, NEW a \in Nat, WF(n, a), NEW m \in Messages, m.type = "AppendEntries",
         NEW success \in BOOLEAN, NEW matchIndex \in Nat, NEW conflictIndex \in Nat
  PROVE  /\ WF(AppendResp(n, m, success, matchIndex, conflictIndex), a)
         /\ AppendResp(n, m, success, matchIndex, conflictIndex).id = n.id
<1> DEFINE x == [type |-> "AppendEntriesResp", from |-> n.id, to |-> m.from,
                 term |-> n.term, success |-> success, matchIndex |-> matchIndex,
                 conflictIndex |-> conflictIndex, readCtx |-> m.readCtx]
<1>1. m.from \in Server /\ m.readCtx \in Nat /\ n.id \in Server /\ n.term \in Nat
  BY AppendFields, Fields DEF Appends
<1>2. x \in Messages
  BY <1>1 DEF Messages, AppendResps
<1>3. MessageLinesUp(x)
  BY DEF MessageLinesUp
<1>4. AppendResp(n, m, success, matchIndex, conflictIndex) = Send(n, {x})
  BY DEF AppendResp
<1> HIDE DEF x
<1> QED BY <1>2, <1>3, <1>4, SendWF

\* Answering a vote request keeps a node well formed.
LEMMA VoteRespWF ==
  ASSUME NEW n, NEW a \in Nat, WF(n, a), NEW m \in Messages, NEW t \in Nat,
         NEW type \in {"PreVoteResp", "RequestVoteResp"}, NEW granted \in BOOLEAN
  PROVE  /\ WF(VoteResp(n, m, type, t, granted), a)
         /\ VoteResp(n, m, type, t, granted).id = n.id
<1> DEFINE x == [type |-> type, from |-> n.id, to |-> m.from, term |-> t,
                 granted |-> granted]
<1>1. m.from \in Server /\ n.id \in Server
  BY MessageFields, Fields
<1>2. x \in Messages
  BY <1>1 DEF Messages, VoteResps
<1>3. MessageLinesUp(x)
  BY DEF MessageLinesUp
<1>4. VoteResp(n, m, type, t, granted) = Send(n, {x})
  BY DEF VoteResp
<1> HIDE DEF x
<1> QED BY <1>2, <1>3, <1>4, SendWF

\* Answering a snapshot keeps a node well formed.
LEMMA SnapshotRespWF ==
  ASSUME NEW n, NEW a \in Nat, WF(n, a), NEW m \in Messages, NEW lastIndex \in Nat
  PROVE  /\ WF(SnapshotResp(n, m, lastIndex), a)
         /\ SnapshotResp(n, m, lastIndex).id = n.id
<1> DEFINE x == [type |-> "InstallSnapshotResp", from |-> n.id, to |-> m.from,
                 term |-> n.term, lastIndex |-> lastIndex]
<1>1. m.from \in Server /\ n.id \in Server /\ n.term \in Nat
  BY MessageFields, Fields
<1>2. x \in Messages
  BY <1>1 DEF Messages, InstallResps
<1>3. MessageLinesUp(x)
  BY DEF MessageLinesUp
<1>4. SnapshotResp(n, m, lastIndex) = Send(n, {x})
  BY DEF SnapshotResp
<1> HIDE DEF x
<1> QED BY <1>2, <1>3, <1>4, SendWF

\* Answering a stale message keeps a node well formed.
LEMMA RejectStaleWF ==
  ASSUME NEW n, NEW a \in Nat, WF(n, a), NEW m \in Messages
  PROVE  WF(RejectStale(n, m), a) /\ RejectStale(n, m).id = n.id
<1>1. CASE m.type = "AppendEntries"
  <2>1. \E no \in BOOLEAN, zero \in Nat :
          RejectStale(n, m) = AppendResp(n, m, no, zero, zero)
    BY <1>1 DEF RejectStale
  <2> QED BY <1>1, <2>1, AppendRespWF
<1>2. CASE m.type = "RequestVote"
  <2>1. \E no \in BOOLEAN : RejectStale(n, m) = VoteResp(n, m, "RequestVoteResp", n.term, no)
    BY <1>2 DEF RejectStale
  <2> QED BY <2>1, Fields, VoteRespWF
<1>3. CASE m.type \notin {"AppendEntries", "RequestVote"}
  <2>1. RejectStale(n, m) = n
    BY <1>3 DEF RejectStale
  <2> QED BY <2>1
<1> QED BY <1>1, <1>2, <1>3

-----------------------------------------------------------------------------
(* Elections. *)

\* handle_pre_vote keeps a node well formed.
LEMMA HandlePreVoteWF ==
  ASSUME NEW n, NEW a \in Nat, WF(n, a), NEW m \in Messages
  PROVE  WF(HandlePreVote(n, m), a) /\ HandlePreVote(n, m).id = n.id
<1>1. m.term \in Nat /\ n.term \in Nat
  BY MessageFields, Fields
<1>2. \E t \in {m.term, n.term}, granted \in BOOLEAN :
        HandlePreVote(n, m) = VoteResp(n, m, "PreVoteResp", t, granted)
  BY DEF HandlePreVote
<1> QED BY <1>1, <1>2, VoteRespWF

\* Recording votes keeps a node well formed.
LEMMA VotesWF ==
  ASSUME NEW n, NEW a \in Nat, WF(n, a), NEW votes \in SUBSET Server
  PROVE  WF([n EXCEPT !.votes = votes], a) /\ [n EXCEPT !.votes = votes].id = n.id
<1> DEFINE r == [n EXCEPT !.votes = votes]
<1>1. NodeOK(r)
  BY DEF WF, NodeOK, NodesOver
<1>2. /\ r.log = n.log /\ r.snapshot = n.snapshot /\ r.commit = n.commit
      /\ r.out = n.out /\ r.id = n.id
  BY DEF WF, NodeOK, NodesOver
<1> QED BY <1>1, <1>2, Frame DEF WF

\* handle_pre_vote_resp keeps a node well formed.
LEMMA HandlePreVoteRespWF ==
  ASSUME NEW n, NEW a \in Nat, WF(n, a), NEW m \in Messages
  PROVE  WF(HandlePreVoteResp(n, m), a) /\ HandlePreVoteResp(n, m).id = n.id
<1> DEFINE v == [n EXCEPT !.votes = @ \cup {m.from}]
<1>1. m.from \in Server /\ m.term \in Nat
  BY MessageFields
<1>2. n.votes \cup {m.from} \in SUBSET Server
  BY <1>1 DEF WF, NodeOK, NodesOver
<1>3. WF(v, a) /\ v.id = n.id
  BY <1>2, VotesWF
<1>4. HandlePreVoteResp(n, m) \in {n, v, BecomeFollower(n, m.term, None), Campaign(v)}
  BY DEF HandlePreVoteResp
<1> HIDE DEF v
<1> QED BY <1>1, <1>3, <1>4, BecomeFollowerWF, CampaignWF

\* handle_request_vote keeps a node well formed.
LEMMA HandleRequestVoteWF ==
  ASSUME NEW n, NEW a \in Nat, WF(n, a), NEW m \in Messages
  PROVE  WF(HandleRequestVote(n, m), a) /\ HandleRequestVote(n, m).id = n.id
<1> DEFINE v == ResetElectionTimer([n EXCEPT !.votedFor = m.from])
<1>1. m.from \in Server
  BY MessageFields
<1>2. NodeOK(v)
  BY <1>1 DEF WF, NodeOK, NodesOver, ResetElectionTimer
<1>3. /\ v.log = n.log /\ v.snapshot = n.snapshot /\ v.commit = n.commit
      /\ v.out = n.out /\ v.id = n.id
  BY DEF WF, NodeOK, NodesOver, ResetElectionTimer
<1>4. \E granted \in BOOLEAN, x \in {n, v} :
        HandleRequestVote(n, m) = VoteResp(x, m, "RequestVoteResp", x.term, granted)
  BY DEF HandleRequestVote
<1> HIDE DEF v
<1>5. WF(v, a)
  BY <1>2, <1>3, Frame DEF WF
<1>6. n.term \in Nat /\ v.term \in Nat
  BY <1>5, Fields
<1> QED BY <1>3, <1>4, <1>5, <1>6, VoteRespWF

\* handle_request_vote_resp keeps a node well formed.
LEMMA HandleRequestVoteRespWF ==
  ASSUME NEW n, NEW a \in Nat, WF(n, a), NEW m \in Messages
  PROVE  WF(HandleRequestVoteResp(n, m), a) /\ HandleRequestVoteResp(n, m).id = n.id
<1> DEFINE vs == IF m.granted THEN n.votes \cup {m.from} ELSE n.votes \ {m.from}
           v == [n EXCEPT !.votes = vs]
<1>1. m.from \in Server
  BY MessageFields
<1>2. vs \in SUBSET Server
  BY <1>1 DEF WF, NodeOK, NodesOver
<1>3. HandleRequestVoteResp(n, m) \in {n, v, BecomeLeader(v)}
  BY DEF HandleRequestVoteResp
<1> HIDE DEF vs
<1>4. WF(v, a) /\ v.id = n.id
  BY <1>2, VotesWF
<1> HIDE DEF v
<1> QED BY <1>3, <1>4, BecomeLeaderWF

\* Following the sender of a message leaves log, commit point and output alone.
LEMMA FollowWF ==
  ASSUME NEW n, NEW a \in Nat, WF(n, a), NEW l \in Server
  PROVE  LET f == [n EXCEPT !.role = "Follower", !.leader = l, !.quiet = FALSE]
         IN  /\ WF(f, a) /\ f.id = n.id /\ f.log = n.log /\ f.commit = n.commit
             /\ f.out = n.out
<1> DEFINE f == [n EXCEPT !.role = "Follower", !.leader = l, !.quiet = FALSE]
<1>1. NodeOK(f)
  BY DEF WF, NodeOK, NodesOver
<1>2. /\ f.log = n.log /\ f.snapshot = n.snapshot /\ f.commit = n.commit
      /\ f.out = n.out /\ f.id = n.id
  BY DEF WF, NodeOK, NodesOver
<1> HIDE DEF f
<1>3. WF(f, a)
  BY <1>1, <1>2, Frame DEF WF
<1> QED BY <1>2, <1>3 DEF f

\* The conflict hint of a refused append is an index.
LEMMA FirstOfTermType ==
  ASSUME NEW log \in Logs, NEW idx \in Nat
  PROVE  FirstOfTerm(log, idx) \in Nat
<1> DEFINE S == {c \in {idx} \cup (FirstIndex(log) .. idx) :
                   \A k \in c .. idx : TermAt(log, k) = TermAt(log, idx)}
<1>1. idx \in S
  <2>1. \A k \in idx .. idx : k = idx
    OBVIOUS
  <2> QED BY <2>1
<1>2. S \in SUBSET Nat
  BY LogFields DEF FirstIndex
<1>3. FirstOfTerm(log, idx) = Min(S)
  BY DEF FirstOfTerm
<1> HIDE DEF S
<1> QED BY <1>1, <1>2, <1>3, MinOfNats

\* Where the entries of a message meet the log: with k the first news, the log
\* holds everything below prev + k.
LEMMA NewsMeetsLog ==
  ASSUME NEW log \in Logs, NEW prev \in Nat, HasTerm(log, prev),
         NEW entries \in Seq(Entries), Contiguous(entries, prev)
  PROVE  /\ News(log, entries) = {} => prev + Len(entries) <= LastIndex(log)
         /\ News(log, entries) # {} =>
              /\ Min(News(log, entries)) \in 1 .. Len(entries)
              /\ entries[Min(News(log, entries))].index = prev + Min(News(log, entries))
              /\ prev + Min(News(log, entries)) - 1 <= LastIndex(log)
<1> DEFINE N == News(log, entries)
           k == Min(N)
<1>1. /\ Len(entries) \in Nat /\ LastIndex(log) \in Nat /\ log.snapIndex \in Nat
      /\ log.snapIndex <= prev /\ prev <= LastIndex(log)
  BY LogFields, LenProperties DEF HasTerm
<1>2. \A j \in (1 .. Len(entries)) \ N : prev + j <= LastIndex(log)
  <2> TAKE j \in (1 .. Len(entries)) \ N
  <2>1. HasTerm(log, entries[j].index) /\ entries[j].index = prev + j
    BY DEF News, TermIs, Contiguous
  <2> QED BY <1>1, <2>1 DEF HasTerm
<1>3. CASE N = {}
  <2>1. CASE Len(entries) = 0
    BY <1>1, <1>3, <2>1
  <2>2. CASE Len(entries) # 0
    <3>1. Len(entries) \in (1 .. Len(entries)) \ N
      BY <1>1, <1>3, <2>2
    <3>2. prev + Len(entries) <= LastIndex(log)
      BY <1>2, <3>1
    <3> QED BY <1>3, <3>2
  <2> QED BY <2>1, <2>2
<1>4. CASE N # {}
  <2>1. N \in SUBSET Nat /\ N \subseteq 1 .. Len(entries)
    BY <1>1 DEF News
  <2> HIDE DEF N
  <2>2. k \in N /\ \A y \in N : k <= y
    BY <1>4, <2>1, MinOfNats
  <2> HIDE DEF k
  <2>3. k \in 1 .. Len(entries) /\ entries[k].index = prev + k
    BY <2>1, <2>2 DEF Contiguous
  <2>4. prev + k - 1 <= LastIndex(log)
    <3>1. CASE k = 1
      BY <1>1, <3>1
    <3>2. CASE k # 1
      <4>1. k - 1 \in (1 .. Len(entries)) \ N
        BY <1>1, <2>2, <2>3, <3>2
      <4>2. prev + (k - 1) <= LastIndex(log)
        BY <1>2, <4>1
      <4> QED BY <1>1, <2>3, <4>2
    <3> QED BY <3>1, <3>2
  <2> QED BY <1>4, <2>3, <2>4 DEF k, N
<1> QED BY <1>3, <1>4

\* The arithmetic of a truncation.
LEMMA CutPoint ==
  ASSUME NEW base \in Nat, NEW len \in Nat, NEW idx \in Nat,
         base < idx, idx - 1 <= base + len
  PROVE  /\ idx - base - 1 \in Int /\ idx - base - 1 <= len
         /\ (IF 1 <= idx - base - 1 THEN (idx - base - 1) - 1 + 1 ELSE 0) = idx - base - 1
         /\ base + (idx - base - 1) = idx - 1
         /\ base + 1 - 1 = base
OBVIOUS

\* Truncating at idx and appending a suffix that starts there.
LEMMA SpliceLog ==
  ASSUME NEW log \in Logs, Contiguous(log.entries, log.snapIndex),
         NEW idx \in Nat, log.snapIndex < idx, idx - 1 <= LastIndex(log),
         NEW suffix \in Seq(Entries), Contiguous(suffix, idx - 1)
  PROVE  LET r == [TruncateFrom(log, idx) EXCEPT !.entries = @ \o suffix]
         IN  /\ r \in Logs /\ r.snapIndex = log.snapIndex
             /\ Contiguous(r.entries, r.snapIndex)
             /\ LastIndex(r) = idx - 1 + Len(suffix)
<1> DEFINE hi == idx - log.snapIndex - 1
           cut == SubSeq(log.entries, 1, hi)
           r == [TruncateFrom(log, idx) EXCEPT !.entries = @ \o suffix]
<1>1. /\ log.snapIndex \in Nat /\ log.entries \in Seq(Entries) /\ Len(log.entries) \in Nat
      /\ idx - 1 <= log.snapIndex + Len(log.entries) /\ Len(suffix) \in Nat
  BY LogFields, LenProperties DEF LastIndex
<1>2. /\ hi \in Int /\ hi <= Len(log.entries)
      /\ (IF 1 <= hi THEN hi - 1 + 1 ELSE 0) = hi
      /\ log.snapIndex + hi = idx - 1 /\ log.snapIndex + 1 - 1 = log.snapIndex
  BY <1>1, CutPoint
<1>3. r = [log EXCEPT !.entries = cut \o suffix]
  BY DEF TruncateFrom, Logs
<1> HIDE DEF hi
<1>4. /\ cut \in Seq(Entries)
      /\ Len(cut) = IF 1 <= hi THEN hi - 1 + 1 ELSE 0
      /\ Contiguous(cut, log.snapIndex + 1 - 1)
  BY <1>1, <1>2, ContiguousSlice
<1>5. Len(cut) = hi /\ Contiguous(cut, log.snapIndex) /\ log.snapIndex + Len(cut) = idx - 1
  BY <1>2, <1>4
<1> HIDE DEF cut, r
<1>6. /\ cut \o suffix \in Seq(Entries) /\ Len(cut \o suffix) = Len(cut) + Len(suffix)
      /\ Contiguous(cut \o suffix, log.snapIndex)
  BY <1>1, <1>4, <1>5, ContiguousConcat
<1>7. r \in Logs /\ r.snapIndex = log.snapIndex /\ r.entries = cut \o suffix
  BY <1>3, <1>6 DEF Logs
<1>8. LastIndex(r) = log.snapIndex + (Len(cut) + Len(suffix))
  BY <1>6, <1>7 DEF LastIndex
<1>9. LastIndex(r) = idx - 1 + Len(suffix)
  BY <1>1, <1>2, <1>5, <1>8
<1> QED BY <1>6, <1>7, <1>9 DEF r

\* What AppendMatching does to a node.
WithLog(n, log, more) == [n EXCEPT !.log = log, !.out.append = @ \o more]

\* Replacing the log above the base by one that still holds the commit point
\* keeps a node well formed.
LEMMA NewLogWF ==
  ASSUME NEW n, NEW a \in Nat, WF(n, a), NEW log \in Logs, NEW more \in Seq(Entries),
         log.snapIndex = n.log.snapIndex, Contiguous(log.entries, log.snapIndex),
         n.commit <= LastIndex(log)
  PROVE  /\ WF(WithLog(n, log, more), a) /\ WithLog(n, log, more).id = n.id
         /\ WithLog(n, log, more).log = log /\ WithLog(n, log, more).commit = n.commit
<1> DEFINE r == WithLog(n, log, more)
<1>1. n.out.append \o more \in Seq(Entries)
  BY Fields, ConcatProperties DEF Outputs
<1>2. NodeOK(r)
  BY <1>1 DEF WF, NodeOK, NodesOver, Outputs, WithLog
<1>3. /\ r.log = log /\ r.snapshot = n.snapshot /\ r.commit = n.commit /\ r.id = n.id
      /\ r.out.committed = n.out.committed /\ r.out.snapshot = n.out.snapshot
      /\ r.out.messages = n.out.messages
  BY DEF WF, NodeOK, NodesOver, Outputs, WithLog
<1> HIDE DEF r
<1>4. WF(r, a)
  BY <1>2, <1>3 DEF WF, NodeLinesUp, Awaits, Base
<1> QED BY <1>3, <1>4 DEF r

\* The arithmetic of a suffix.
LEMMA SuffixBounds ==
  ASSUME NEW prev \in Nat, NEW len \in Nat, NEW k \in 1 .. len
  PROVE  /\ k \in Int /\ len \in Int /\ 1 <= k /\ k <= len /\ len <= len
         /\ prev + k - 1 = (prev + k) - 1
         /\ (IF k <= len THEN len - k + 1 ELSE 0) = len - k + 1
         /\ (prev + k) - 1 + (len - k + 1) = prev + len
         /\ prev + k \in Nat
         /\ 1 \in 1 .. len - k + 1 /\ k + 1 - 1 = k
OBVIOUS

\* The first news replaces an entry at or below the commit point.
Clobbers(n, entries) ==
  LET e == entries[Min(News(n.log, entries))]
  IN  News(n.log, entries) # {} /\ HasTerm(n.log, e.index) /\ e.index <= n.commit

\* The matching branch of handle_append_entries keeps a node well formed: the
\* log stays contiguous, the commit point stays inside it, and what is newly
\* committed is in the log.  This is where the code's assertion is needed.
LEMMA AppendMatchingWF ==
  ASSUME NEW n, NEW a \in Nat, WF(n, a), NEW m \in Messages, m.type = "AppendEntries",
         NEW prev \in Nat, HasTerm(n.log, prev),
         NEW entries \in Seq(Entries), Contiguous(entries, prev),
         ~Clobbers(n, entries)
  PROVE  /\ WF(AppendMatching(n, m, prev, entries), a)
         /\ AppendMatching(n, m, prev, entries).id = n.id
<1> DEFINE news == News(n.log, entries)
           k == Min(news)
           suffix == SubSeq(entries, k, Len(entries))
           log == [TruncateFrom(n.log, suffix[1].index) EXCEPT !.entries = @ \o suffix]
           p == IF news = {} THEN n ELSE WithLog(n, log, suffix)
           newLast == prev + Len(entries)
           target == Least(m.commit, newLast)
           c == IF target > p.commit THEN AdvanceCommitTo(p, target) ELSE p
<1>1. /\ n.log \in Logs /\ n.commit \in Nat /\ n.log.snapIndex \in Nat
      /\ LastIndex(n.log) \in Nat /\ Len(entries) \in Nat
  BY Fields, LogFields, LenProperties
<1>2. /\ n.log.snapIndex <= prev /\ n.commit <= LastIndex(n.log)
      /\ Contiguous(n.log.entries, n.log.snapIndex)
      /\ n.log.snapIndex <= n.commit
  BY DEF WF, NodeLinesUp, HasTerm
<1>3. /\ news = {} => newLast <= LastIndex(n.log)
      /\ news # {} => k \in 1 .. Len(entries) /\ entries[k].index = prev + k
                      /\ prev + k - 1 <= LastIndex(n.log)
  BY <1>1, NewsMeetsLog
<1>4. news # {} => ~(HasTerm(n.log, entries[k].index) /\ entries[k].index <= n.commit)
  BY DEF Clobbers
<1>5. AppendMatching(n, m, prev, entries)
        = \* the code answers on behalf of the node that advanced its commit point
          AppendResp(c, m, TRUE, newLast, 0)
  BY DEF AppendMatching, WithLog
<1> HIDE DEF news, k
<1>6. WF(p, a) /\ p.id = n.id /\ newLast <= LastIndex(p.log)
  <2>1. CASE news = {}
    BY <1>3, <2>1
  <2>2. CASE news # {}
    <3>1. /\ k \in 1 .. Len(entries) /\ entries[k].index = prev + k
          /\ prev + k - 1 <= LastIndex(n.log)
      BY <1>3, <2>2
    <3>2. n.commit <= prev + k - 1
      <4>1. CASE prev + k <= LastIndex(n.log)
        BY <1>1, <1>2, <1>4, <2>2, <3>1, <4>1 DEF HasTerm
      <4>2. CASE ~(prev + k <= LastIndex(n.log))
        BY <1>1, <1>2, <3>1, <4>2
      <4> QED BY <4>1, <4>2
    <3>3. /\ k \in Int /\ Len(entries) \in Int /\ 1 <= k /\ k <= Len(entries)
          /\ prev + k - 1 = (prev + k) - 1
          /\ (IF k <= Len(entries) THEN Len(entries) - k + 1 ELSE 0) = Len(entries) - k + 1
          /\ (prev + k) - 1 + (Len(entries) - k + 1) = newLast
          /\ prev + k \in Nat /\ Len(entries) <= Len(entries)
          /\ 1 \in 1 .. Len(entries) - k + 1 /\ k + 1 - 1 = k
      BY <1>1, <3>1, SuffixBounds
    <3>4. /\ suffix \in Seq(Entries) /\ Contiguous(suffix, prev + k - 1)
          /\ Len(suffix) = (IF k <= Len(entries) THEN Len(entries) - k + 1 ELSE 0)
          /\ \A j \in 1 .. Len(suffix) : suffix[j] = entries[k + j - 1]
      BY <3>3, ContiguousSlice
    <3>5. suffix[1].index = prev + k
      BY <3>1, <3>3, <3>4
    <3> HIDE DEF suffix
    <3>6. n.log.snapIndex < prev + k
      BY <1>1, <1>2, <3>1
    <3>7. /\ log \in Logs /\ log.snapIndex = n.log.snapIndex
          /\ Contiguous(log.entries, log.snapIndex)
          /\ LastIndex(log) = (prev + k) - 1 + Len(suffix)
      <4>1. prev + k \in Nat /\ (prev + k) - 1 <= LastIndex(n.log)
            /\ Contiguous(suffix, (prev + k) - 1)
        BY <3>1, <3>3, <3>4
      <4>2. log = [TruncateFrom(n.log, prev + k) EXCEPT !.entries = @ \o suffix]
        BY <3>5
      <4> HIDE DEF log
      <4> QED BY <1>1, <1>2, <3>4, <3>6, <4>1, <4>2, SpliceLog
    <3>8. LastIndex(log) = newLast
      BY <3>3, <3>4, <3>7
    <3> HIDE DEF log
    <3>9. n.commit <= LastIndex(log)
      BY <1>1, <3>1, <3>2, <3>8
    <3> DEFINE r == WithLog(n, log, suffix)
    <3>10. WF(r, a) /\ r.id = n.id /\ r.log = log
      <4>1. suffix \in Seq(Entries)
        BY <3>4
      <4>2. log \in Logs
        BY <3>7
      <4>3. log.snapIndex = n.log.snapIndex /\ Contiguous(log.entries, log.snapIndex)
        BY <3>7
      <4> QED BY <3>9, <4>1, <4>2, <4>3, NewLogWF
    <3>11. WF(p, a) /\ p.id = n.id /\ p.log = log
      <4>1. p = r
        BY <2>2
      <4> QED BY <3>10, <4>1
    <3> QED BY <1>1, <3>8, <3>11
  <2> QED BY <2>1, <2>2
<1> HIDE DEF p
<1>7. WF(c, a) /\ c.id = n.id
  <2>1. m.commit \in Nat /\ newLast \in Nat
    BY <1>1, AppendFields DEF Appends
  <2>2. target \in Nat /\ target <= newLast
    BY <2>1 DEF Least
  <2>3. p.commit \in Nat /\ LastIndex(p.log) \in Nat
    BY <1>6, Fields, LogFields
  <2> HIDE DEF target, newLast
  <2>4. CASE target > p.commit
    <3>1. p.commit < target /\ target <= LastIndex(p.log)
      BY <1>6, <2>1, <2>2, <2>3, <2>4
    <3>2. WF(AdvanceCommitTo(p, target), a) /\ AdvanceCommitTo(p, target).id = p.id
      BY <1>6, <2>2, <3>1, AdvanceCommitWF
    <3> QED BY <1>6, <2>4, <3>2
  <2>5. CASE ~(target > p.commit)
    BY <1>6, <2>5
  <2> QED BY <2>4, <2>5
<1> HIDE DEF c
<1>8. PICK yes \in BOOLEAN, zero \in Nat :
        AppendMatching(n, m, prev, entries) = AppendResp(c, m, yes, newLast, zero)
  BY <1>5
<1>9. newLast \in Nat
  BY <1>1
<1> HIDE DEF newLast
<1>10. WF(AppendResp(c, m, yes, newLast, zero), a)
      /\ AppendResp(c, m, yes, newLast, zero).id = c.id
  BY <1>7, <1>9, AppendRespWF
<1> QED BY <1>7, <1>8, <1>10

\* The arithmetic of skipping what the snapshot covers.
LEMMA CoveredBounds ==
  ASSUME NEW base \in Nat, NEW prev \in Nat, NEW len \in Nat, prev < base, base < prev + len
  PROVE  /\ base - prev + 1 \in Int /\ 1 <= base - prev + 1 /\ len \in Int /\ len <= len
         /\ prev + (base - prev + 1) - 1 = base
OBVIOUS

\* What is left above the base still lines up.
LEMMA AboveBaseOK ==
  ASSUME NEW n, NEW a \in Nat, WF(n, a), NEW m \in Appends, MessageLinesUp(m),
         ~AllCovered(n, m)
  PROVE  /\ AboveBase(n, m).prev \in Nat /\ n.log.snapIndex <= AboveBase(n, m).prev
         /\ AboveBase(n, m).entries \in Seq(Entries)
         /\ Contiguous(AboveBase(n, m).entries, AboveBase(n, m).prev)
<1>1. /\ n.log.snapIndex \in Nat /\ m.prevIndex \in Nat /\ m.entries \in Seq(Entries)
      /\ Len(m.entries) \in Nat /\ Contiguous(m.entries, m.prevIndex)
  BY Fields, LogFields, LenProperties DEF Appends, MessageLinesUp
<1>2. CASE m.prevIndex >= n.log.snapIndex
  BY <1>1, <1>2 DEF AboveBase
<1>3. CASE ~(m.prevIndex >= n.log.snapIndex)
  <2> DEFINE lo == n.log.snapIndex - m.prevIndex + 1
             rest == SubSeq(m.entries, lo, Len(m.entries))
  <2>1. m.prevIndex < n.log.snapIndex /\ n.log.snapIndex < m.prevIndex + Len(m.entries)
    BY <1>1, <1>3 DEF AllCovered
  <2>2. /\ lo \in Int /\ 1 <= lo /\ Len(m.entries) \in Int /\ Len(m.entries) <= Len(m.entries)
        /\ m.prevIndex + lo - 1 = n.log.snapIndex
    BY <1>1, <2>1, CoveredBounds
  <2>3. AboveBase(n, m).prev = n.log.snapIndex /\ AboveBase(n, m).entries = rest
    BY <1>3 DEF AboveBase
  <2> HIDE DEF lo
  <2>4. rest \in Seq(Entries) /\ Contiguous(rest, m.prevIndex + lo - 1)
    BY <1>1, <2>2, ContiguousSlice
  <2> QED BY <1>1, <2>2, <2>3, <2>4
<1> QED BY <1>2, <1>3

\* handle_append_entries keeps a node well formed unless its assertion fails.
LEMMA HandleAppendEntriesWF ==
  ASSUME NEW n, NEW a \in Nat, WF(n, a), NEW m \in Messages, MessageLinesUp(m),
         m.type = "AppendEntries", ~Overwrites(n, m)
  PROVE  WF(HandleAppendEntries(n, m), a) /\ HandleAppendEntries(n, m).id = n.id
<1> DEFINE f == [n EXCEPT !.role = "Follower", !.leader = m.from, !.quiet = FALSE]
           b == AboveBase(n, m)
<1>1. m \in Appends /\ m.from \in Server
  BY AppendFields, MessageFields
<1>2. /\ WF(f, a) /\ f.id = n.id /\ f.log = n.log /\ f.commit = n.commit
  BY <1>1, FollowWF
<1>3. /\ n.log \in Logs /\ n.log.snapIndex \in Nat /\ LastIndex(n.log) \in Nat
      /\ LastIndex(n.log) + 1 \in Nat
  BY Fields, LogFields
<1>4. CASE AllCovered(n, m)
  <2> DEFINE base == n.log.snapIndex
  <2>1. \E yes \in BOOLEAN, zero \in Nat :
          HandleAppendEntries(n, m) = AppendResp(f, m, yes, base, zero)
    BY <1>4 DEF HandleAppendEntries
  <2>2. base \in Nat
    BY <1>3
  <2> HIDE DEF f, base
  <2>3. PICK yes \in BOOLEAN, zero \in Nat :
          HandleAppendEntries(n, m) = AppendResp(f, m, yes, base, zero)
    BY <2>1
  <2>4. WF(AppendResp(f, m, yes, base, zero), a) /\ AppendResp(f, m, yes, base, zero).id = f.id
    BY <1>2, <2>2, AppendRespWF
  <2> QED BY <1>2, <2>3, <2>4
<1>5. CASE ~AllCovered(n, m) /\ ~HasTerm(n.log, b.prev)
  <2>1. \E no \in BOOLEAN, zero \in Nat :
          HandleAppendEntries(n, m) = AppendResp(f, m, no, zero, LastIndex(n.log) + 1)
    BY <1>5 DEF HandleAppendEntries
  <2> HIDE DEF f
  <2>2. PICK no \in BOOLEAN, zero \in Nat :
          HandleAppendEntries(n, m) = AppendResp(f, m, no, zero, LastIndex(n.log) + 1)
    BY <2>1
  <2> DEFINE hint == LastIndex(n.log) + 1
  <2>3. hint \in Nat
    BY <1>3
  <2> HIDE DEF hint
  <2>4. WF(AppendResp(f, m, no, zero, hint), a) /\ AppendResp(f, m, no, zero, hint).id = f.id
    BY <1>2, <2>3, AppendRespWF
  <2> QED BY <1>2, <2>2, <2>4 DEF hint
<1>6. CASE /\ ~AllCovered(n, m) /\ HasTerm(n.log, b.prev)
           /\ TermAt(n.log, b.prev) # b.prevTerm
  <2> DEFINE hint == FirstOfTerm(n.log, b.prev)
  <2>1. \E no \in BOOLEAN, zero \in Nat :
          HandleAppendEntries(n, m) = AppendResp(f, m, no, zero, hint)
    BY <1>6 DEF HandleAppendEntries
  <2>2. b.prev \in Nat
    BY <1>1, <1>6, AboveBaseOK
  <2> HIDE DEF b
  <2>3. hint \in Nat
    BY <1>3, <2>2, FirstOfTermType
  <2> HIDE DEF f, hint
  <2>4. PICK no \in BOOLEAN, zero \in Nat :
          HandleAppendEntries(n, m) = AppendResp(f, m, no, zero, hint)
    BY <2>1
  <2>5. WF(AppendResp(f, m, no, zero, hint), a) /\ AppendResp(f, m, no, zero, hint).id = f.id
    BY <1>2, <2>3, AppendRespWF
  <2> QED BY <1>2, <2>4, <2>5
<1>7. CASE /\ ~AllCovered(n, m) /\ HasTerm(n.log, b.prev)
           /\ TermAt(n.log, b.prev) = b.prevTerm
  <2>1. HandleAppendEntries(n, m) = AppendMatching(f, m, b.prev, b.entries)
    BY <1>7 DEF HandleAppendEntries
  <2>2. b.prev \in Nat /\ b.entries \in Seq(Entries) /\ Contiguous(b.entries, b.prev)
    BY <1>1, <1>7, AboveBaseOK
  <2>3. ~Clobbers(n, b.entries)
    BY <1>7 DEF Overwrites, Clobbers, TermIs
  <2> HIDE DEF f, b
  <2>4. HasTerm(f.log, b.prev) /\ ~Clobbers(f, b.entries)
    BY <1>2, <1>7, <2>3 DEF Clobbers
  <2>5. /\ WF(AppendMatching(f, m, b.prev, b.entries), a)
        /\ AppendMatching(f, m, b.prev, b.entries).id = f.id
    BY <1>2, <2>2, <2>4, AppendMatchingWF
  <2> QED BY <1>2, <2>1, <2>5
<1> QED BY <1>4, <1>5, <1>6, <1>7

\* One progress record replaced.
LEMMA OnePrWF ==
  ASSUME NEW n, NEW a \in Nat, WF(n, a), NEW p \in DOMAIN n.prs, NEW pr \in ProgressRecords
  PROVE  /\ WF([n EXCEPT !.prs[p] = pr], a) /\ [n EXCEPT !.prs[p] = pr].id = n.id
         /\ DOMAIN [n EXCEPT !.prs[p] = pr].prs = DOMAIN n.prs
<1> DEFINE f == [n.prs EXCEPT ![p] = pr]
<1>1. n.prs \in [DOMAIN n.prs -> ProgressRecords] /\ DOMAIN n.prs \in SUBSET Server
  BY Fields
<1>2. f \in [DOMAIN n.prs -> ProgressRecords]
  BY <1>1
<1>3. [n EXCEPT !.prs[p] = pr] = [n EXCEPT !.prs = f]
  BY DEF WF, NodeOK, NodesOver
<1>4. [n EXCEPT !.prs = f].prs = f
  BY DEF WF, NodeOK, NodesOver
<1> HIDE DEF f
<1>5. WF([n EXCEPT !.prs = f], a) /\ [n EXCEPT !.prs = f].id = n.id
  BY <1>1, <1>2, PrsWF
<1> QED BY <1>2, <1>3, <1>4, <1>5

\* Greatest and Least of naturals are naturals.
LEMMA GreatestLeast ==
  ASSUME NEW x \in Nat, NEW y \in Nat
  PROVE  Greatest(x, y) \in Nat /\ Least(x, y) \in Nat
BY DEF Greatest, Least

\* The four ways through handle_append_resp on a leader that knows the sender:
\* its progress record is replaced by another one, and then the commit point
\* and the reads may move and more may be sent.
LEMMA AppendRespPaths ==
  ASSUME NEW n, NEW a \in Nat, WF(n, a), NEW m \in Messages, m.type = "AppendEntriesResp",
         n.role = "Leader", m.from \in DOMAIN n.prs
  PROVE  \E new \in ProgressRecords :
           LET x == [n EXCEPT !.prs[m.from] = new]
               done == ProcessReadAcks(MaybeAdvanceCommit(x))
           IN  \/ HandleAppendResp(n, m) \in {x, done, SendAppend(x, {m.from})}
               \/ /\ m.from \in DOMAIN done.prs
                  /\ HandleAppendResp(n, m) = SendAppend(done, {m.from})
<1> DEFINE old == n.prs[m.from]
           pr == [n.prs[m.from] EXCEPT !.ackedCtx = Greatest(@, m.readCtx)]
           last == LastIndex(n.log)
           prOk == [pr EXCEPT !.matched = Greatest(@, m.matchIndex),
                              !.next = Greatest(@, m.matchIndex + 1),
                              !.inflight = IF @ > 0 THEN @ - 1 ELSE 0]
           prBack == [pr EXCEPT !.next = Least(m.conflictIndex, last + 1),
                                !.inflight = 0]
           ok == [n EXCEPT !.prs[m.from] = prOk]
           done == ProcessReadAcks(MaybeAdvanceCommit(ok))
           back == [n EXCEPT !.prs[m.from] = prBack]
           acked == [n EXCEPT !.prs[m.from] = pr]
<1>1. m \in AppendResps /\ m.from \in DOMAIN n.prs
  BY AppendRespFields
<1>2. \/ HandleAppendResp(n, m) \in {done, acked, SendAppend(back, {m.from})}
      \/ /\ m.from \in DOMAIN done.prs
         /\ HandleAppendResp(n, m) = SendAppend(done, {m.from})
  <2>1. HandleAppendResp(n, m) =
          IF m.success THEN
            IF m.from \in DOMAIN done.prs /\ done.prs[m.from].next <= last
              THEN SendAppend(done, {m.from}) ELSE done
          ELSE IF m.conflictIndex > 0 THEN SendAppend(back, {m.from})
          ELSE acked
    BY Zenon DEF HandleAppendResp
  <2> HIDE DEF done, back, acked
  <2> QED BY <2>1, Zenon
<1>3. /\ m.readCtx \in Nat /\ m.matchIndex \in Nat /\ m.conflictIndex \in Nat
      /\ m.matchIndex + 1 \in Nat /\ last + 1 \in Nat
  BY <1>1, Fields, LogFields DEF AppendResps
<1>4. /\ old \in ProgressRecords
      /\ old.next \in Nat /\ old.matched \in Nat /\ old.inflight \in Nat /\ old.ackedCtx \in Nat
  BY <1>1, Fields DEF ProgressRecords
<1>5. /\ pr.matched = old.matched /\ pr.next = old.next /\ pr.inflight = old.inflight
  BY <1>4 DEF ProgressRecords
<1> HIDE DEF old, last
<1>6. /\ Greatest(old.ackedCtx, m.readCtx) \in Nat
      /\ Greatest(old.matched, m.matchIndex) \in Nat
      /\ Greatest(old.next, m.matchIndex + 1) \in Nat
      /\ Least(m.conflictIndex, last + 1) \in Nat
  BY <1>3, <1>4, GreatestLeast
<1>7. (IF old.inflight > 0 THEN old.inflight - 1 ELSE 0) \in Nat
  BY <1>4
<1>8. pr \in ProgressRecords /\ prOk \in ProgressRecords /\ prBack \in ProgressRecords
  <2>1. pr \in ProgressRecords
    BY <1>4, <1>6 DEF ProgressRecords, old
  <2> HIDE DEF pr
  <2>2. prOk \in ProgressRecords
    <3> DEFINE matched == Greatest(old.matched, m.matchIndex)
               next == Greatest(old.next, m.matchIndex + 1)
               inflight == IF old.inflight > 0 THEN old.inflight - 1 ELSE 0
    <3>1. prOk = [pr EXCEPT !.matched = matched, !.next = next, !.inflight = inflight]
      BY <1>5, <2>1 DEF ProgressRecords
    <3>2. matched \in Nat /\ next \in Nat /\ inflight \in Nat
      BY <1>6, <1>7
    <3> HIDE DEF matched, next, inflight, prOk
    <3> QED BY <2>1, <3>1, <3>2 DEF ProgressRecords
  <2>3. prBack \in ProgressRecords
    <3> DEFINE next == Least(m.conflictIndex, last + 1)
    <3>1. \E zero \in Nat : prBack = [pr EXCEPT !.next = next, !.inflight = zero]
      OBVIOUS
    <3>2. next \in Nat
      BY <1>6
    <3> HIDE DEF next, prBack
    <3> QED BY <2>1, <3>1, <3>2 DEF ProgressRecords
  <2> QED BY <2>1, <2>2, <2>3
<1> HIDE DEF pr, prOk, prBack
<1> QED BY <1>2, <1>8, Zenon

\* handle_append_resp keeps a node well formed.
LEMMA HandleAppendRespWF ==
  ASSUME NEW n, NEW a \in Nat, WF(n, a), NEW m \in Messages, m.type = "AppendEntriesResp"
  PROVE  WF(HandleAppendResp(n, m), a) /\ HandleAppendResp(n, m).id = n.id
<1>1. CASE n.role # "Leader" \/ m.from \notin DOMAIN n.prs
  <2>1. HandleAppendResp(n, m) = n
    BY <1>1 DEF HandleAppendResp
  <2> QED BY <2>1
<1>2. CASE n.role = "Leader" /\ m.from \in DOMAIN n.prs
  <2>1. PICK new \in ProgressRecords :
          LET x == [n EXCEPT !.prs[m.from] = new]
              done == ProcessReadAcks(MaybeAdvanceCommit(x))
          IN  \/ HandleAppendResp(n, m) \in {x, done, SendAppend(x, {m.from})}
              \/ /\ m.from \in DOMAIN done.prs
                 /\ HandleAppendResp(n, m) = SendAppend(done, {m.from})
    BY <1>2, AppendRespPaths
  <2> DEFINE x == [n EXCEPT !.prs[m.from] = new]
             c == MaybeAdvanceCommit(x)
             done == ProcessReadAcks(c)
  <2>2. WF(x, a) /\ x.id = n.id /\ {m.from} \in SUBSET (DOMAIN x.prs)
    BY <1>2, OnePrWF
  <2>3. \/ HandleAppendResp(n, m) \in {x, done, SendAppend(x, {m.from})}
        \/ /\ {m.from} \in SUBSET (DOMAIN done.prs)
           /\ HandleAppendResp(n, m) = SendAppend(done, {m.from})
    BY <2>1
  <2> HIDE DEF x
  <2>4. WF(c, a) /\ c.id = n.id
    BY <2>2, MaybeAdvanceWF
  <2> HIDE DEF c
  <2>5. WF(done, a) /\ done.id = n.id
    BY <2>4, ProcessReadAcksWF
  <2> HIDE DEF done
  <2> QED BY <2>2, <2>3, <2>5, SendAppendWF
<1> QED BY <1>1, <1>2

\* The way through handle_install_snapshot_resp on a leader that knows the sender.
LEMMA InstallRespPath ==
  ASSUME NEW n, NEW a \in Nat, WF(n, a), NEW m \in Messages, m.type = "InstallSnapshotResp",
         n.role = "Leader", m.from \in DOMAIN n.prs
  PROVE  \E new \in ProgressRecords :
           LET c == MaybeAdvanceCommit([n EXCEPT !.prs[m.from] = new])
           IN  HandleInstallSnapshotResp(n, m) = SendAppend(c, {m.from} \cap DOMAIN c.prs)
<1> DEFINE old == n.prs[m.from]
           pr == [n.prs[m.from] EXCEPT !.snap = "none",
                             !.matched = Greatest(@, m.lastIndex),
                             !.next = Greatest(@, m.lastIndex + 1),
                             !.inflight = 0]
           c == MaybeAdvanceCommit([n EXCEPT !.prs[m.from] = pr])
<1>1. m \in InstallResps
  BY InstallRespFields
<1>2. HandleInstallSnapshotResp(n, m) = SendAppend(c, {m.from} \cap DOMAIN c.prs)
  BY Zenon DEF HandleInstallSnapshotResp
<1>3. m.lastIndex \in Nat /\ m.lastIndex + 1 \in Nat
  BY <1>1 DEF InstallResps
<1>4. old \in ProgressRecords /\ old.next \in Nat /\ old.matched \in Nat
  BY Fields DEF ProgressRecords
<1> HIDE DEF old
<1>5. Greatest(old.matched, m.lastIndex) \in Nat /\ Greatest(old.next, m.lastIndex + 1) \in Nat
  BY <1>3, <1>4, GreatestLeast
<1>6. pr \in ProgressRecords
  <2>1. \E zero \in Nat : pr = [old EXCEPT !.snap = "none",
          !.matched = Greatest(old.matched, m.lastIndex),
          !.next = Greatest(old.next, m.lastIndex + 1), !.inflight = zero]
    BY DEF old, ProgressRecords
  <2> HIDE DEF pr
  <2> QED BY <1>4, <1>5, <2>1 DEF ProgressRecords
<1> HIDE DEF pr
<1> QED BY <1>2, <1>6, Zenon

\* handle_install_snapshot_resp keeps a node well formed.
LEMMA HandleInstallSnapshotRespWF ==
  ASSUME NEW n, NEW a \in Nat, WF(n, a), NEW m \in Messages, m.type = "InstallSnapshotResp"
  PROVE  WF(HandleInstallSnapshotResp(n, m), a) /\ HandleInstallSnapshotResp(n, m).id = n.id
<1>1. CASE n.role # "Leader" \/ m.from \notin DOMAIN n.prs
  <2>1. HandleInstallSnapshotResp(n, m) = n
    BY <1>1 DEF HandleInstallSnapshotResp
  <2> QED BY <2>1
<1>2. CASE n.role = "Leader" /\ m.from \in DOMAIN n.prs
  <2>1. PICK new \in ProgressRecords :
          LET c == MaybeAdvanceCommit([n EXCEPT !.prs[m.from] = new])
          IN  HandleInstallSnapshotResp(n, m) = SendAppend(c, {m.from} \cap DOMAIN c.prs)
    BY <1>2, InstallRespPath
  <2> DEFINE x == [n EXCEPT !.prs[m.from] = new]
             c == MaybeAdvanceCommit(x)
  <2>2. WF(x, a) /\ x.id = n.id
    BY <1>2, OnePrWF
  <2>3. HandleInstallSnapshotResp(n, m) = SendAppend(c, {m.from} \cap DOMAIN c.prs)
    BY <2>1
  <2> HIDE DEF x
  <2>4. WF(c, a) /\ c.id = n.id
    BY <2>2, MaybeAdvanceWF
  <2> HIDE DEF c
  <2>5. {m.from} \cap DOMAIN c.prs \in SUBSET (DOMAIN c.prs)
    OBVIOUS
  <2> QED BY <2>3, <2>4, <2>5, SendAppendWF
<1> QED BY <1>1, <1>2

\* The node right after it took over a snapshot.
Installed(f, s) ==
  [f EXCEPT !.log = ResetToSnapshot(s.lastIndex, s.lastTerm),
            !.commit = s.lastIndex, !.snapshot = s, !.out.snapshot = s]

\* Taking over a snapshot beyond the commit point keeps a node well formed,
\* provided nothing committed is still waiting to be applied.
LEMMA InstalledWF ==
  ASSUME NEW n, NEW a \in Nat, WF(n, a), n.out.committed = <<>>,
         NEW s \in Snapshots, SnapshotLinesUp(s), s.lastIndex > n.commit
  PROVE  WF(Installed(n, s), a) /\ Installed(n, s).id = n.id
<1> DEFINE r == Installed(n, s)
           log == ResetToSnapshot(s.lastIndex, s.lastTerm)
<1>1. /\ s.lastIndex \in Nat /\ s.lastTerm \in Nat /\ s.lastIndex > 0
  <2>1. s.lastIndex \in Nat /\ s.lastTerm \in Nat
    BY DEF Snapshots
  <2>2. n.commit \in Nat
    BY Fields
  <2> QED BY <2>1, <2>2
<1>2. log \in Logs
  BY <1>1, EmptySeq DEF ResetToSnapshot, Logs
<1>3. log.snapIndex = s.lastIndex /\ log.entries = <<>> /\ LastIndex(log) = s.lastIndex + 0
  BY EmptySeq DEF ResetToSnapshot, LastIndex
<1>4. LastIndex(log) = s.lastIndex /\ s.lastIndex <= s.lastIndex
  BY <1>1, <1>3
<1> HIDE DEF log
<1>5. NodeOK(r)
  BY <1>1, <1>2 DEF WF, NodeOK, NodesOver, Outputs, Installed, log
<1>6. /\ r.log = log /\ r.snapshot = s /\ r.commit = s.lastIndex /\ r.id = n.id
      /\ r.out.committed = <<>> /\ r.out.snapshot = s
      /\ r.out.messages = n.out.messages
  BY DEF WF, NodeOK, NodesOver, Outputs, Installed, log
<1> HIDE DEF r
<1>7. NodeLinesUp(r)
  <2>1. Contiguous(<<>>, s.lastIndex)
    BY DEF Contiguous
  <2> QED BY <1>3, <1>4, <1>6, <2>1 DEF NodeLinesUp
<1>8. Awaits(r, a)
  <2>1. Base(r, a) = s.lastIndex
    BY <1>1, <1>6 DEF Base
  <2>2. s.lastIndex = s.lastIndex + Len(<<>>) /\ Contiguous(<<>>, s.lastIndex)
    BY <1>1 DEF Contiguous
  <2> QED BY <1>6, <2>1, <2>2 DEF Awaits
<1>9. WF(r, a)
  BY <1>5, <1>6, <1>7, <1>8 DEF WF
<1> QED BY <1>6, <1>9 DEF r

\* handle_install_snapshot keeps a node well formed, all three branches.
LEMMA HandleInstallSnapshotWF ==
  ASSUME NEW n, NEW a \in Nat, WF(n, a), n.out.committed = <<>>,
         NEW m \in Messages, MessageLinesUp(m), m.type = "InstallSnapshot"
  PROVE  WF(HandleInstallSnapshot(n, m), a) /\ HandleInstallSnapshot(n, m).id = n.id
<1> DEFINE f == [n EXCEPT !.role = "Follower", !.leader = m.from, !.quiet = FALSE]
           s == m.snapshot
<1>1. m.from \in Server /\ s \in Snapshots /\ SnapshotLinesUp(s)
  BY MessageFields, InstallFields DEF Installs, MessageLinesUp
<1>2. /\ WF(f, a) /\ f.id = n.id /\ f.log = n.log /\ f.commit = n.commit /\ f.out = n.out
  BY <1>1, FollowWF
<1>3. /\ n.commit \in Nat /\ n.log \in Logs /\ n.log.snapIndex \in Nat
      /\ LastIndex(n.log) \in Nat /\ s.lastIndex \in Nat
  BY <1>1, Fields, LogFields DEF Snapshots
<1>4. HandleInstallSnapshot(n, m) =
        IF s.lastIndex <= n.commit THEN SnapshotResp(f, m, n.commit)
        ELSE IF TermIs(n.log, s.lastIndex, s.lastTerm)
          THEN SnapshotResp(AdvanceCommitTo(f, s.lastIndex), m, s.lastIndex)
        ELSE SnapshotResp(Installed(f, s), m, s.lastIndex)
  BY Zenon DEF HandleInstallSnapshot, Installed
<1> HIDE DEF f, s
<1>5. CASE s.lastIndex <= n.commit
  <2>1. HandleInstallSnapshot(n, m) = SnapshotResp(f, m, n.commit)
    BY <1>4, <1>5
  <2>2. WF(SnapshotResp(f, m, n.commit), a) /\ SnapshotResp(f, m, n.commit).id = f.id
    BY <1>2, <1>3, SnapshotRespWF
  <2> QED BY <1>2, <2>1, <2>2
<1>6. CASE ~(s.lastIndex <= n.commit) /\ TermIs(n.log, s.lastIndex, s.lastTerm)
  <2> DEFINE c == AdvanceCommitTo(f, s.lastIndex)
  <2>1. HandleInstallSnapshot(n, m) = SnapshotResp(c, m, s.lastIndex)
    BY <1>4, <1>6
  <2>2. f.commit < s.lastIndex /\ s.lastIndex <= LastIndex(f.log)
    BY <1>2, <1>3, <1>6 DEF TermIs, HasTerm
  <2>3. WF(c, a) /\ c.id = f.id
    BY <1>2, <1>3, <2>2, AdvanceCommitWF
  <2> HIDE DEF c
  <2>4. WF(SnapshotResp(c, m, s.lastIndex), a) /\ SnapshotResp(c, m, s.lastIndex).id = c.id
    BY <1>3, <2>3, SnapshotRespWF
  <2> QED BY <1>2, <2>1, <2>3, <2>4
<1>7. CASE ~(s.lastIndex <= n.commit) /\ ~TermIs(n.log, s.lastIndex, s.lastTerm)
  <2> DEFINE c == Installed(f, s)
  <2>1. HandleInstallSnapshot(n, m) = SnapshotResp(c, m, s.lastIndex)
    BY <1>4, <1>7
  <2>2. s.lastIndex > f.commit /\ f.out.committed = <<>>
    BY <1>2, <1>3, <1>7
  <2>3. WF(c, a) /\ c.id = f.id
    BY <1>1, <1>2, <2>2, InstalledWF
  <2> HIDE DEF c
  <2>4. WF(SnapshotResp(c, m, s.lastIndex), a) /\ SnapshotResp(c, m, s.lastIndex).id = c.id
    BY <1>3, <2>3, SnapshotRespWF
  <2> QED BY <1>2, <2>1, <2>3, <2>4
<1> QED BY <1>5, <1>6, <1>7

\* propose_conf_change keeps a node well formed.
LEMMA ConfChangeWF ==
  ASSUME NEW n, NEW a \in Nat, WF(n, a), NEW cc \in ConfChanges
  PROVE  /\ WF(ProposeConfChange(n, cc.kind, cc.arg), a)
         /\ ProposeConfChange(n, cc.kind, cc.arg).id = n.id
<1> DEFINE q == AppendLocal(n, cc.kind, cc.arg)
<1>1. cc.kind \in Kinds /\ cc.arg \in Args
  BY ConfChangesAssumption DEF Kinds, Args
<1>2. WF(q, a) /\ q.id = n.id
  BY <1>1, AppendLocalWF
<1>3. ProposeConfChange(n, cc.kind, cc.arg) = SyncProgressWithVoters(q)
  BY DEF ProposeConfChange
<1> HIDE DEF q
<1> QED BY <1>2, <1>3, SyncWF
=============================================================================
