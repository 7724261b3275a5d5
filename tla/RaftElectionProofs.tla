------------------------- MODULE RaftElectionProofs -------------------------
(***************************************************************************)
(* At most one leader per term, for any number of servers, terms, crashes  *)
(* and messages, when the voter set does not change.                       *)
(***************************************************************************)
EXTENDS RaftVotesProofs

\* q's vote in term t belongs to i: q has not voted for, nor answered, anybody
\* else in t, never will again, and i itself or a grant on the network says so.
Backs(q, i, t) ==
  /\ node[q].term >= t
  /\ node[q].term = t => node[q].votedFor = i
  /\ \A m \in msgs : IsGrant(m) /\ m.from = q /\ m.term = t => m.to = i
  /\ q = i \/ \E m \in msgs : IsGrant(m) /\ m.from = q /\ m.to = i /\ m.term = t

Backers(i) == {q \in Server : Backs(q, i, node[i].term)}

\* i has won term t.
Lead(i, t) == \E Q \in SUBSET Server : Majority(Q) /\ \A q \in Q : Backs(q, i, t)

\* The inductive invariant: candidates and leaders count only votes that are
\* really theirs, a grant on the network binds its sender, and a leader's message
\* is the message of a server that won its term.
ElectInv ==
  /\ \A i \in Server : Ev(node[i], Backers(i))
  /\ \A m \in msgs : IsGrant(m) => Backs(m.from, m.to, m.term)
  /\ \A m \in msgs : FromLeader(m) => Lead(m.from, m.term)

\* What an event that left the node r on server i did to the election state.
Moved(i, r) ==
  /\ \A j \in Server \ {i} : node'[j] = node[j]
  /\ node'[i].term = r.term /\ node'[i].votedFor = r.votedFor
  /\ node'[i].votes = r.votes /\ node'[i].role = r.role
  /\ msgs \subseteq msgs'
  /\ \A m \in msgs' : m \in msgs \/ m \in r.out.messages

\* More backers do not hurt.
LEMMA EvMono ==
  ASSUME NEW n, NEW B, NEW C, B \subseteq C, Ev(n, B)
  PROVE  Ev(n, C)
BY DEF Ev, Led

\* The types the election argument uses.
LEMMA TermsType ==
  ASSUME Good
  PROVE  /\ \A i \in Server : /\ node[i].term \in Nat /\ node[i].votes \subseteq Server
                              /\ node[i].id = i /\ node[i].out.messages = {}
         /\ \A m \in msgs : m.from \in Server /\ m.to \in Server /\ m.term \in Nat
<1>1. \A m \in msgs : m \in Messages
  BY DEF Good, TypeOK
<1>2. \A m \in Messages : m.to \in Server
  BY DEF Messages, Votes, VoteResps, Appends, AppendResps, Installs, InstallResps
<1> QED BY <1>1, <1>2, MessageFields DEF Good, TypeOK, NodeOK, NodesOver, NoOutput

\* The same after a step.
LEMMA NextTermsType ==
  ASSUME Good'
  PROVE  \A i \in Server : /\ node'[i].term \in Nat /\ node'[i].id = i
                           /\ node'[i].out.messages = {}
BY DEF Good, TypeOK, NodeOK, NodesOver, NoOutput

\* Once q backs j in term t, no event of any server changes that.
LEMMA BacksKept ==
  ASSUME Good, Good', NEW i \in Server, NEW r, NEW B, Hop(node[i], r, B), Moved(i, r),
         NEW q \in Server, NEW j \in Server, NEW t \in Nat, Backs(q, j, t)
  PROVE  Backs(q, j, t)'
<1>1. node[q].term \in Nat /\ node'[q].term \in Nat /\ node[i].id = i /\ j # None
  BY TermsType, NextTermsType, ServerAssumption
<1>2. q # i => node'[q] = node[q]
  BY DEF Moved
<1>3. q = i => /\ node'[q].term = r.term /\ node'[q].votedFor = r.votedFor /\ r.id = i
               /\ r.term > node[q].term \/ (r.term = node[q].term /\
                    (node[q].votedFor # None => r.votedFor = node[q].votedFor))
  BY <1>1 DEF Moved, Hop
<1>4. node'[q].term >= t
  BY <1>1, <1>2, <1>3 DEF Backs
<1>5. node'[q].term = t => node'[q].votedFor = j
  <2>1. CASE q # i
    BY <1>2, <2>1 DEF Backs
  <2>2. CASE q = i /\ node'[q].term = t
    <3>1. r.term = t /\ node[q].term >= t
      BY <1>3, <2>2 DEF Backs
    <3>2. node[q].term = t /\ r.term = node[q].term
      BY <1>1, <1>3, <2>2, <3>1
    <3> QED BY <1>1, <1>3, <2>2, <3>1, <3>2 DEF Backs
  <2> QED BY <2>1, <2>2
<1>6. ASSUME NEW m \in msgs', IsGrant(m), m.from = q, m.term = t
      PROVE  m.to = j
  <2>1. CASE m \in msgs
    BY <1>6, <2>1 DEF Backs
  <2>2. CASE m \in r.out.messages
    <3>1. m.from = r.id /\ m.term = r.term /\ m.to = r.votedFor /\ r.id = i
      BY <1>1, <1>6, <2>2 DEF Hop, Ev
    <3> QED BY <1>3, <1>5, <1>6, <3>1
  <2> QED BY <2>1, <2>2 DEF Moved
<1>7. q = j \/ \E m \in msgs' : IsGrant(m) /\ m.from = q /\ m.to = j /\ m.term = t
  BY DEF Backs, Moved
<1> QED BY <1>4, <1>5, <1>6, <1>7 DEF Backs

\* The vote r has cast in its term is not contradicted by any grant.
LEMMA VoteBacks ==
  ASSUME Good, Good', ElectInv, NEW i \in Server, NEW r, NEW B,
         Hop(node[i], r, B), Moved(i, r), NEW j \in Server, r.votedFor = j,
         j = i \/ \E m \in msgs' : IsGrant(m) /\ m.from = i /\ m.to = j /\ m.term = r.term
  PROVE  Backs(i, j, r.term)'
<1>1. node[i].term \in Nat /\ r.term \in Nat /\ node[i].id = i /\ r.id = i
      /\ node'[i].term = r.term /\ node'[i].votedFor = j
  <2>1. node[i].term \in Nat /\ node'[i].term \in Nat /\ node[i].id = i
    BY TermsType, NextTermsType
  <2> QED BY <2>1 DEF Hop, Moved
<1>2. ASSUME NEW m \in msgs', IsGrant(m), m.from = i, m.term = r.term
      PROVE  m.to = j
  <2>1. CASE m \in msgs
    <3>1. Backs(i, m.to, r.term) /\ m.to \in Server /\ m.to # None
      BY <1>2, <2>1, TermsType, ServerAssumption DEF ElectInv
    <3>2. node[i].term >= r.term /\ (node[i].term = r.term => node[i].votedFor = m.to)
      BY <3>1 DEF Backs
    <3>3. r.term = node[i].term \/ r.term > node[i].term
      BY DEF Hop
    <3>4. r.term = node[i].term
      BY <1>1, <3>2, <3>3
    <3>5. node[i].votedFor # None => r.votedFor = node[i].votedFor
      BY <1>1, <3>4 DEF Hop
    <3> QED BY <3>1, <3>2, <3>4, <3>5
  <2>2. CASE m \in r.out.messages
    BY <1>2, <2>2 DEF Hop, Ev
  <2> QED BY <2>1, <2>2 DEF Moved
<1>3. r.term >= r.term
  BY <1>1
<1> QED BY <1>1, <1>2, <1>3 DEF Backs

\* A server keeps its backers as long as it keeps its term.
LEMMA BackersKept ==
  ASSUME Good, Good', NEW i \in Server, NEW r, NEW B, Hop(node[i], r, B), Moved(i, r),
         NEW j \in Server, node'[j].term = node[j].term
  PROVE  Backers(j) \subseteq Backers(j)'
<1>1. node[j].term \in Nat
  BY TermsType
<1>2. ASSUME NEW q \in Server, Backs(q, j, node[j].term)
      PROVE  Backs(q, j, node[j].term)'
  <2>1. PICK t \in Nat : t = node[j].term
    BY <1>1
  <2>2. Backs(q, j, t)
    BY <1>2, <2>1
  <2>3. Backs(q, j, t)'
    BY <2>2, BacksKept
  <2>4. t = node'[j].term
    BY <2>1
  <2> QED BY <2>3, <2>4
<1> QED BY <1>2 DEF Backers

\* A term once won stays won.
LEMMA LeadKept ==
  ASSUME Good, Good', NEW i \in Server, NEW r, NEW B, Hop(node[i], r, B), Moved(i, r),
         NEW j \in Server, NEW t \in Nat, Lead(j, t)
  PROVE  Lead(j, t)'
<1>1. PICK Q \in SUBSET Server : Majority(Q) /\ \A q \in Q : Backs(q, j, t)
  BY DEF Lead
<1>2. \A q \in Q : Backs(q, j, t)'
  BY <1>1, BacksKept
<1> QED BY <1>1, <1>2 DEF Lead

\* Every hop of a server preserves the election invariant.
LEMMA ElectStep ==
  ASSUME Good, Good', ElectInv, NEW i \in Server, NEW r,
         Hop(node[i], r, Backers(i)), Moved(i, r)
  PROVE  ElectInv'
<1> DEFINE B == Backers(i)
<1>1. /\ node[i].term \in Nat /\ node[i].id = i /\ r.id = i
      /\ node'[i].term \in Nat /\ r.term \in Nat /\ node'[i].id = i
      /\ node'[i].out.messages = {}
  BY TermsType, NextTermsType DEF Hop, Moved
<1>2. Hop(node[i], r, B)
  OBVIOUS
<1>3. Ev(r, B \cap Backers(i)') /\ B \cap Backers(i)' \subseteq Backers(i)'
  <2>1. CASE r.term = node[i].term
    <3>1. Ev(r, B)
      BY <1>1, <1>2, <2>1 DEF Hop
    <3>2. node'[i].term = node[i].term
      BY <2>1 DEF Moved
    <3>3. B \subseteq Backers(i)'
      BY <1>2, <3>2, BackersKept
    <3>4. B \subseteq B \cap Backers(i)'
      BY <3>3
    <3> HIDE DEF B
    <3> QED BY <3>1, <3>4, EvMono
  <2>2. CASE r.term > node[i].term
    <3>1. Ev(r, {})
      BY <1>1, <1>2, <2>2 DEF Hop
    <3> DEFINE none == {x \in Server : FALSE}
    <3>2. Ev(r, none) /\ none \subseteq B \cap Backers(i)'
      BY <3>1
    <3> HIDE DEF none, B
    <3> QED BY <3>2, EvMono
  <2> QED BY <1>2, <2>1, <2>2 DEF Hop
<1>4. Ev(r, Backers(i)')
  BY <1>3, EvMono
<1> HIDE DEF B
<1>5. ASSUME NEW j \in Server PROVE Ev(node[j], Backers(j))'
  <2>1. CASE j = i
    BY <1>1, <1>4, <2>1 DEF Ev, Led, Moved
  <2>2. CASE j # i
    <3>1. node'[j] = node[j]
      BY <2>2 DEF Moved
    <3>2. Backers(j) \subseteq Backers(j)'
      BY <1>2, <3>1, BackersKept
    <3>3. Ev(node[j], Backers(j))
      BY DEF ElectInv
    <3>4. Ev(node[j], Backers(j)')
      BY <3>2, <3>3, EvMono
    <3> QED BY <3>1, <3>4
  <2> QED BY <2>1, <2>2
<1>6. ASSUME NEW m \in msgs', IsGrant(m) PROVE Backs(m.from, m.to, m.term)'
  <2>1. CASE m \in msgs
    <3>1. m.from \in Server /\ m.to \in Server /\ m.term \in Nat
      BY <2>1, TermsType
    <3>2. Backs(m.from, m.to, m.term)
      BY <1>6, <2>1 DEF ElectInv
    <3> QED BY <1>2, <3>1, <3>2, BacksKept
  <2>2. CASE m \in r.out.messages
    <3>1. m.from = i /\ m.term = r.term /\ m.to = r.votedFor
      BY <1>1, <1>4, <1>6, <2>2 DEF Ev
    <3>2. m.to \in Server
      <4>1. m \in Messages
        BY DEF Good, TypeOK
      <4>2. \A x \in Messages : x.to \in Server
        BY DEF Messages, Votes, VoteResps, Appends, AppendResps, Installs, InstallResps
      <4> QED BY <4>1, <4>2
    <3>3. Backs(i, m.to, r.term)'
      BY <1>2, <1>6, <3>1, <3>2, VoteBacks
    <3> QED BY <3>1, <3>3
  <2> QED BY <2>1, <2>2 DEF Moved
<1>7. ASSUME NEW m \in msgs', FromLeader(m) PROVE Lead(m.from, m.term)'
  <2>1. CASE m \in msgs
    <3>1. m.from \in Server /\ m.to \in Server /\ m.term \in Nat
      BY <2>1, TermsType
    <3>2. Lead(m.from, m.term)
      BY <1>7, <2>1 DEF ElectInv
    <3> QED BY <1>2, <3>1, <3>2, LeadKept
  <2>2. CASE m \in r.out.messages
    <3>1. m.from = i /\ m.term = r.term /\ Led(r, Backers(i)')
      BY <1>1, <1>4, <1>7, <2>2 DEF Ev
    <3>2. r.votedFor = i /\ r.votes \subseteq Backers(i)' \cup {i} /\ Majority(r.votes)
      BY <1>1, <3>1 DEF Led
    <3>3. Backs(i, i, r.term)'
      BY <1>2, <3>2, VoteBacks
    <3>4. node'[i].term = r.term
      BY DEF Moved
    <3>5. \A q \in Backers(i)' : q \in Server /\ Backs(q, i, r.term)'
      BY <3>4 DEF Backers
    <3>6. Lead(i, r.term)'
      <4>1. r.votes \in SUBSET Server /\ \A q \in r.votes : Backs(q, i, r.term)'
        BY <3>2, <3>3, <3>5
      <4> QED BY <3>2, <4>1 DEF Lead
    <3> QED BY <3>1, <3>6
  <2> QED BY <2>1, <2>2 DEF Moved
<1> QED BY <1>5, <1>6, <1>7 DEF ElectInv

\* process_output, compaction included, publishes the node's vote and messages.
LEMMA ProcessMoved ==
  ASSUME Good, NEW i \in Server, NEW n, WF(n, Len(sm[i])), NEW rs, Process(i, n, rs)
  PROVE  Moved(i, n)
<1> DEFINE applied == Applied(i, n.out)
           c == Compact(n, Len(applied), applied)
<1>1. /\ \E after \in {n, c} : node' = [node EXCEPT ![i] = TakeOutput(after)]
      /\ msgs' = msgs \cup {m \in n.out.messages : <<m.from, m.to>> \in Links}
  BY DEF Process
<1>2. Shaped(n)
  BY ShapedWF
<1>3. Shaped(c) /\ c.term = n.term /\ c.votedFor = n.votedFor /\ c.votes = n.votes
      /\ c.role = n.role
  <2> HIDE DEF applied
  <2> QED BY <1>2 DEF Shaped, Compact
<1> HIDE DEF c
<1>4. PICK after \in {n, c} : node' = [node EXCEPT ![i] = TakeOutput(after)]
  BY <1>1
<1> DEFINE r == TakeOutput(after)
<1>5. /\ r.term = n.term /\ r.votedFor = n.votedFor /\ r.votes = n.votes /\ r.role = n.role
  BY <1>2, <1>3 DEF Shaped, TakeOutput
<1> HIDE DEF r
<1>6. node' = [j \in Server |-> IF j = i THEN r ELSE node[j]]
  BY <1>4 DEF Good, TypeOK, r
<1>7. node'[i] = r /\ \A j \in Server \ {i} : node'[j] = node[j]
  BY <1>6
<1> QED BY <1>1, <1>5, <1>7 DEF Moved

\* An event that is a hop preserves the election invariant.
LEMMA ElectProcess ==
  ASSUME Good, Good', ElectInv, NEW i \in Server, NEW n, WF(n, Len(sm[i])), NEW rs,
         Process(i, n, rs), Hop(node[i], n, Backers(i))
  PROVE  ElectInv'
BY ProcessMoved, ElectStep

\* A crash and restart preserve the election invariant: the vote is persisted.
LEMMA RestartElect ==
  ASSUME Good, Good', ElectInv, NEW i \in Server, Restart(i)
  PROVE  ElectInv'
<1> DEFINE n == node[i]
           r == NewNode(i, n.term, n.votedFor, n.snapshot, n.log.entries)
<1>1. node' = [node EXCEPT ![i] = r] /\ msgs' = msgs
  BY DEF Restart
<1>2. /\ r.id = n.id /\ r.term = n.term /\ r.votedFor = n.votedFor /\ r.role = "Follower"
      /\ r.out.messages = {}
  BY TermsType DEF NewNode, NoOutput
<1> HIDE DEF r
<1>3. node' = [j \in Server |-> IF j = i THEN r ELSE node[j]]
  BY <1>1 DEF Good, TypeOK
<1>4. node'[i] = r /\ \A j \in Server \ {i} : node'[j] = node[j]
  BY <1>3
<1>5. Moved(i, r)
  BY <1>1, <1>4 DEF Moved
<1>6. Hop(node[i], r, Backers(i))
  BY <1>2 DEF Hop, Ev
<1> QED BY <1>5, <1>6, ElectStep

\* A leader's calm step is a hop.
LEMMA LeaderHop ==
  ASSUME NEW n, NEW B, Ev(n, B), NEW r, n.role = "Leader" \/ r = n, Calm(n, r)
  PROVE  Hop(n, r, B)
<1>1. CASE n.role = "Leader"
  <2>1. Led(n, B)
    BY <1>1 DEF Ev
  <2> QED BY <2>1, CalmHop
<1>2. CASE r = n
  BY <1>2 DEF Hop
<1> QED BY <1>1, <1>2

\* Ticks of the election clock are a hop.
LEMMA QuietHop ==
  ASSUME NEW n, NEW a \in Nat, WF(n, a), n.out.messages = {}, NEW B, Ev(n, B)
  PROVE  Hop(n, [n EXCEPT !.quiet = TRUE], B)
<1>1. Shaped(n)
  BY ShapedWF
<1>2. Mild(n, [n EXCEPT !.quiet = TRUE])
  BY <1>1 DEF Mild, Shaped
<1> QED BY <1>2, MildHop

\* The snapshot retry clock is a hop.
LEMMA OverdueHop ==
  ASSUME NEW n, NEW a \in Nat, WF(n, a), n.out.messages = {}, NEW B, Ev(n, B),
         NEW p \in DOMAIN n.prs
  PROVE  Hop(n, [n EXCEPT !.prs[p].snap = "overdue"], B)
<1> DEFINE r == [n EXCEPT !.prs[p].snap = "overdue"]
<1>1. Shaped(n)
  BY ShapedWF
<1>2. Shaped(r) /\ r.out = n.out /\ r.id = n.id /\ r.term = n.term
      /\ r.votedFor = n.votedFor /\ r.role = n.role /\ r.votes = n.votes
  BY <1>1 DEF Shaped
<1> HIDE DEF r
<1>3. Mild(n, r)
  BY <1>2 DEF Mild
<1> QED BY <1>3, MildHop DEF r

\* Every step of the cluster preserves the election invariant.
LEMMA NextElect ==
  ASSUME ConfChanges = {}, Good, Good', ElectInv, Next
  PROVE  ElectInv'
<1>1. PICK i \in Server :
        \/ GoQuiet(i) \/ Timeout(i) \/ Heartbeat(i)
        \/ \E p \in Server : SnapshotOverdue(i, p)
        \/ \E v \in Values : ClientPropose(i, v)
        \/ \E cc \in ConfChanges : ClientConfChange(i, cc)
        \/ ClientRead(i) \/ Restart(i) \/ RecvPreVote(i) \/ RecvPreVoteResp(i)
        \/ RecvStale(i) \/ RecvRequestVote(i) \/ RecvRequestVoteResp(i)
        \/ RecvAppendEntries(i) \/ RecvAppendEntriesResp(i)
        \/ RecvInstallSnapshot(i) \/ RecvInstallSnapshotResp(i)
  BY DEF Next
<1> DEFINE n == node[i]
           a == Len(sm[i])
           B == Backers(i)
<1>2. /\ a \in Nat /\ WF(n, a) /\ n.id = i /\ reads \in Seq(ReadRecords)
      /\ n.out.messages = {} /\ Ev(n, B) /\ n.term \in Nat
  BY NodeWF, TermsType DEF ElectInv
<1>3. ASSUME NEW r, WF(r, a), Event(i, r), Hop(n, r, B) PROVE ElectInv'
  BY <1>3, ElectProcess DEF Event
<1>4. ASSUME NEW m \in msgs
      PROVE  /\ m \in Messages /\ MessageLinesUp(m)
             /\ WF(UpToTerm(n, m), a) /\ UpToTerm(n, m).out.committed = <<>>
             /\ UpToTerm(n, m).out.messages = {}
  <2>1. m \in Messages
    BY DEF Good, TypeOK
  <2>2. UpToTerm(n, m).out = n.out
    BY <1>2, <2>1, UpToTermWF
  <2> QED BY <1>2, <2>1, <2>2, HeardWF
<1>5. ASSUME NEW m \in msgs, NEW r, WF(r, a), Event(i, r),
             \A E : Ev(UpToTerm(n, m), E) /\ (UpToTerm(n, m).role = "Follower" \/ E = B)
                      => Hop(UpToTerm(n, m), r, E)
      PROVE  ElectInv'
  <2> HIDE DEF n, a, B
  <2>1. m \in Messages
    BY <1>4
  <2>2. Hop(n, r, B)
    BY <1>2, <1>5, <2>1, StepHop
  <2> QED BY <1>3, <1>5, <2>2
<1>6. \A m \in msgs : /\ m.term = n.term /\ m.to = i /\ IsGrant(m) => m.from \in B
                      /\ m.term \in Nat
  BY TermsType DEF ElectInv, Backers
<1> HIDE DEF n, a, B
<1>7. CASE GoQuiet(i)
  <2>1. Event(i, [n EXCEPT !.quiet = TRUE])
    BY <1>7 DEF GoQuiet, n
  <2> QED BY <1>2, <1>3, <2>1, QuietWF, QuietHop
<1>8. CASE Timeout(i)
  <2>1. Event(i, ElectionTimeout(n))
    BY <1>8 DEF Timeout, n
  <2> QED BY <1>2, <1>3, <2>1, ElectionTimeoutWF, ElectionTimeoutHop
<1>9. CASE Heartbeat(i)
  <2>1. n.role = "Leader" /\ Process(i, BroadcastAppend(n), reads)
    BY <1>9 DEF Heartbeat, n
  <2>2. WF(BroadcastAppend(n), a) /\ Hop(n, BroadcastAppend(n), B)
    BY <1>2, <2>1, BroadcastWF, CalmBroadcast, LeaderHop
  <2> QED BY <2>1, <2>2, ElectProcess DEF n, a, B
<1>10. ASSUME NEW p \in Server, SnapshotOverdue(i, p) PROVE ElectInv'
  <2>1. p \in DOMAIN n.prs /\ Event(i, [n EXCEPT !.prs[p].snap = "overdue"])
    BY <1>10 DEF SnapshotOverdue, n
  <2>2. WF([n EXCEPT !.prs[p].snap = "overdue"], a)
    BY <1>2, <2>1, OverdueWF
  <2>3. Hop(n, [n EXCEPT !.prs[p].snap = "overdue"], B)
    BY <1>2, <2>1, OverdueHop
  <2> QED BY <1>3, <2>1, <2>2, <2>3
<1>11. ASSUME NEW v \in Values, ClientPropose(i, v) PROVE ElectInv'
  <2>1. "Normal" \in Kinds /\ v \in Args
    BY DEF Kinds, Args
  <2>2. n.role = "Leader" /\ Event(i, Propose(n, v))
    BY <1>11 DEF ClientPropose, CanPropose, n
  <2>3. WF(Propose(n, v), a) /\ Calm(n, Propose(n, v))
    BY <1>2, <2>1, AppendLocalWF, CalmAppendLocal DEF Propose
  <2> QED BY <1>2, <1>3, <2>2, <2>3, LeaderHop
<1>12. CASE ClientRead(i)
  <2> DEFINE rid == Len(reads) + 1
             rs == Append(reads, [floor |-> Len(chosen), seen |-> None])
  <2>1. rid \in Nat
    BY <1>2, LenProperties
  <2>2. n.role = "Leader" /\ Process(i, ReadIndex(n, rid), rs)
    BY <1>12 DEF ClientRead, CanReadIndex, n
  <2> HIDE DEF rid, rs
  <2>3. WF(ReadIndex(n, rid), a) /\ Calm(n, ReadIndex(n, rid))
    BY <1>2, <2>1, ReadIndexWF, CalmReadIndex
  <2>4. Hop(n, ReadIndex(n, rid), B)
    BY <1>2, <2>2, <2>3, LeaderHop
  <2> QED BY <2>2, <2>3, <2>4, ElectProcess DEF n, a, B
<1>13. CASE Restart(i)
  BY <1>13, RestartElect
<1>14. CASE RecvPreVote(i)
  <2>1. PICK m \in msgs : Event(i, HandlePreVote(n, m))
    BY <1>14 DEF RecvPreVote, n
  <2> QED BY <1>2, <1>3, <1>4, <2>1, HandlePreVoteWF, HandlePreVoteHop
<1>15. CASE RecvPreVoteResp(i)
  <2>1. PICK m \in msgs : Event(i, HandlePreVoteResp(n, m))
    BY <1>15 DEF RecvPreVoteResp, n
  <2> QED BY <1>2, <1>3, <1>4, <2>1, HandlePreVoteRespWF, HandlePreVoteRespHop
<1>16. CASE RecvStale(i)
  <2>1. PICK m \in msgs : Event(i, RejectStale(n, m))
    BY <1>16 DEF RecvStale, n
  <2> QED BY <1>2, <1>3, <1>4, <2>1, RejectStaleWF, RejectStaleHop
<1>17. CASE RecvRequestVote(i)
  <2>1. PICK m \in msgs : Event(i, HandleRequestVote(UpToTerm(n, m), m))
    BY <1>17 DEF RecvRequestVote, n
  <2> DEFINE u == UpToTerm(n, m)
  <2>2. m \in Messages /\ WF(u, a) /\ u.out.messages = {}
    BY <1>4
  <2> HIDE DEF u
  <2>3. WF(HandleRequestVote(u, m), a)
    BY <1>2, <2>2, HandleRequestVoteWF
  <2>4. \A E : Ev(u, E) => Hop(u, HandleRequestVote(u, m), E)
    BY <1>2, <2>2, HandleRequestVoteHop
  <2> QED BY <1>5, <2>1, <2>3, <2>4 DEF u
<1>18. CASE RecvRequestVoteResp(i)
  <2>1. PICK m \in msgs : /\ m.type = "RequestVoteResp" /\ m.to = i /\ m.term >= n.term
                          /\ Event(i, HandleRequestVoteResp(UpToTerm(n, m), m))
    BY <1>18 DEF RecvRequestVoteResp, Receivable, n
  <2> DEFINE u == UpToTerm(n, m)
  <2>2. m \in Messages /\ WF(u, a) /\ u.out.messages = {}
    BY <1>4
  <2>3. u.role # "Follower" => m.term = n.term
    <3>1. m.term > n.term => u.role = "Follower"
      <4>1. m.term > n.term => u = BecomeFollower(n, m.term, None)
        BY <2>1 DEF UpToTerm
      <4>2. Shaped(n)
        BY <1>2, ShapedWF
      <4>3. BecomeFollower(n, m.term, None).role = "Follower"
        BY <4>2 DEF BecomeFollower, Shaped
      <4> QED BY <4>1, <4>3
    <3> HIDE DEF u
    <3> QED BY <1>2, <1>6, <2>1, <3>1
  <2> HIDE DEF u
  <2>4. u.role # "Follower" /\ m.granted => m.from \in B
    BY <1>6, <2>1, <2>3 DEF IsGrant
  <2>5. WF(HandleRequestVoteResp(u, m), a)
    BY <1>2, <2>2, HandleRequestVoteRespWF
  <2>6. ASSUME NEW E, Ev(u, E), u.role = "Follower" \/ E = B
        PROVE  Hop(u, HandleRequestVoteResp(u, m), E)
    <3>1. u.role = "Candidate" /\ m.granted => m.from \in E
      BY <2>4, <2>6
    <3> QED BY <1>2, <2>2, <2>6, <3>1, HandleRequestVoteRespHop
  <2> QED BY <1>5, <2>1, <2>5, <2>6 DEF u
<1>19. CASE RecvAppendEntries(i)
  <2>1. PICK m \in msgs : /\ m.type = "AppendEntries" /\ ~Overwrites(UpToTerm(n, m), m)
                          /\ Event(i, HandleAppendEntries(UpToTerm(n, m), m))
    BY <1>19 DEF RecvAppendEntries, Receivable, n
  <2> DEFINE u == UpToTerm(n, m)
  <2>2. m \in Messages /\ MessageLinesUp(m) /\ WF(u, a) /\ u.out.messages = {}
    BY <1>4
  <2> HIDE DEF u
  <2>3. WF(HandleAppendEntries(u, m), a)
    BY <1>2, <2>1, <2>2, HandleAppendEntriesWF DEF u
  <2>4. \A E : Ev(u, E) => Hop(u, HandleAppendEntries(u, m), E)
    BY <1>2, <2>2, HandleAppendEntriesHop
  <2> QED BY <1>5, <2>1, <2>3, <2>4 DEF u
<1>20. CASE RecvAppendEntriesResp(i)
  <2>1. PICK m \in msgs : /\ m.type = "AppendEntriesResp"
                          /\ Event(i, HandleAppendResp(UpToTerm(n, m), m))
    BY <1>20 DEF RecvAppendEntriesResp, Receivable, n
  <2> DEFINE u == UpToTerm(n, m)
             r == HandleAppendResp(u, m)
  <2>2. m \in Messages /\ WF(u, a)
    BY <1>4
  <2> HIDE DEF u
  <2>3. WF(r, a)
    BY <1>2, <2>1, <2>2, HandleAppendRespWF
  <2>4. Calm(u, r) /\ (u.role = "Leader" \/ r = u)
    BY <1>2, <2>1, <2>2, CalmAppendResp
  <2> HIDE DEF r
  <2>5. \A E : Ev(u, E) => Hop(u, r, E)
    BY <2>4, LeaderHop
  <2> QED BY <1>5, <2>1, <2>3, <2>5 DEF u, r
<1>21. CASE RecvInstallSnapshot(i)
  <2>1. PICK m \in msgs : /\ m.type = "InstallSnapshot"
                          /\ Event(i, HandleInstallSnapshot(UpToTerm(n, m), m))
    BY <1>21 DEF RecvInstallSnapshot, Receivable, n
  <2> DEFINE u == UpToTerm(n, m)
  <2>2. m \in Messages /\ MessageLinesUp(m) /\ WF(u, a) /\ u.out.messages = {}
        /\ u.out.committed = <<>>
    BY <1>4
  <2> HIDE DEF u
  <2>3. WF(HandleInstallSnapshot(u, m), a)
    BY <1>2, <2>1, <2>2, HandleInstallSnapshotWF
  <2>4. \A E : Ev(u, E) => Hop(u, HandleInstallSnapshot(u, m), E)
    BY <1>2, <2>2, HandleInstallSnapshotHop
  <2> QED BY <1>5, <2>1, <2>3, <2>4 DEF u
<1>22. CASE RecvInstallSnapshotResp(i)
  <2>1. PICK m \in msgs : /\ m.type = "InstallSnapshotResp"
                          /\ Event(i, HandleInstallSnapshotResp(UpToTerm(n, m), m))
    BY <1>22 DEF RecvInstallSnapshotResp, Receivable, n
  <2> DEFINE u == UpToTerm(n, m)
             r == HandleInstallSnapshotResp(u, m)
  <2>2. m \in Messages /\ WF(u, a)
    BY <1>4
  <2> HIDE DEF u
  <2>3. WF(r, a)
    BY <1>2, <2>1, <2>2, HandleInstallSnapshotRespWF
  <2>4. Calm(u, r) /\ (u.role = "Leader" \/ r = u)
    BY <1>2, <2>1, <2>2, CalmInstallResp
  <2> HIDE DEF r
  <2>5. \A E : Ev(u, E) => Hop(u, r, E)
    BY <2>4, LeaderHop
  <2> QED BY <1>5, <2>1, <2>3, <2>5 DEF u, r
<1> QED BY <1>1, <1>7, <1>8, <1>9, <1>10, <1>11, <1>12, <1>13, <1>14, <1>15,
           <1>16, <1>17, <1>18, <1>19, <1>20, <1>21, <1>22

-----------------------------------------------------------------------------
\* Whoever leads a term, or ever sent a leader's message in it, has won it.
LEMMA LeadersLead ==
  ASSUME Good, ElectInv, NEW t \in Nat, NEW i \in LeaderOf(t)
  PROVE  i \in Server /\ Lead(i, t)
<1>1. CASE i \in Server /\ node[i].role = "Leader" /\ node[i].term = t
  <2>1. Led(node[i], Backers(i)) /\ node[i].id = i
    BY <1>1, TermsType DEF ElectInv, Ev
  <2>2. /\ node[i].votedFor = i /\ node[i].votes \subseteq Backers(i) \cup {i}
        /\ Majority(node[i].votes)
    BY <2>1 DEF Led
  <2>3. Backs(i, i, t)
    <3>1. ASSUME NEW m \in msgs, IsGrant(m), m.from = i, m.term = t PROVE m.to = i
      <4>1. Backs(i, m.to, t)
        BY <3>1 DEF ElectInv
      <4> QED BY <1>1, <2>2, <4>1 DEF Backs
    <3>2. t >= t
      OBVIOUS
    <3> QED BY <1>1, <2>2, <3>1, <3>2 DEF Backs
  <2>4. \A q \in node[i].votes : q \in Server /\ Backs(q, i, t)
    BY <1>1, <2>2, <2>3 DEF Backers
  <2>5. node[i].votes \in SUBSET Server
    BY <2>4
  <2> QED BY <1>1, <2>2, <2>4, <2>5 DEF Lead
<1>2. CASE \E m \in msgs : FromLeader(m) /\ m.term = t /\ m.from = i
  BY <1>2, TermsType DEF ElectInv
<1> QED BY <1>1, <1>2 DEF LeaderOf, FromLeader

\* Two majorities of the voters share a voter, and a voter backs one server a term.
LEMMA OneLead ==
  ASSUME NEW i, NEW j, NEW t, Lead(i, t), Lead(j, t)
  PROVE  i = j
<1>1. PICK Q \in SUBSET Server : Majority(Q) /\ \A q \in Q : Backs(q, i, t)
  BY DEF Lead
<1>2. PICK R \in SUBSET Server : Majority(R) /\ \A q \in R : Backs(q, j, t)
  BY DEF Lead
<1> DEFINE S == Q \cap InitialVoters
           T == R \cap InitialVoters
<1>3. /\ IsFiniteSet(InitialVoters) /\ S \subseteq InitialVoters /\ T \subseteq InitialVoters
      /\ IsFiniteSet(S) /\ IsFiniteSet(T)
  BY ServerAssumption, VotersAssumption, FS_Subset
<1>4. /\ Cardinality(InitialVoters) \in Nat /\ Cardinality(S) \in Nat /\ Cardinality(T) \in Nat
  BY <1>3, FS_CardinalityType
<1>5. /\ 2 * Cardinality(S) > Cardinality(InitialVoters)
      /\ 2 * Cardinality(T) > Cardinality(InitialVoters)
  BY <1>1, <1>2 DEF Majority
<1> HIDE DEF S, T
<1>6. Cardinality(S) + Cardinality(T) > Cardinality(InitialVoters)
  BY <1>4, <1>5
<1>7. S \cap T # {}
  BY <1>3, <1>6, FS_MajoritiesIntersect
<1>8. PICK q \in Q \cap R : TRUE
  BY <1>7 DEF S, T
<1> QED BY <1>1, <1>2, <1>8 DEF Backs

\* Without membership changes no term ever has two leaders, nor messages of two
\* leaders: two majorities share a voter, a voter's vote in a term is never
\* changed (set_vote, set_term), and it survives a crash.
THEOREM OneLeaderPerTerm ==
  ASSUME ConfChanges = {} PROVE Spec => []ElectionSafety
<1>1. Init => ElectInv
  <2> SUFFICES ASSUME Init PROVE ElectInv
    OBVIOUS
  <2>1. msgs = {} /\ \A i \in Server : node[i].role = "Follower" /\ node[i].out.messages = {}
    BY DEF Init, NewNode, NoOutput
  <2> QED BY <2>1 DEF ElectInv, Ev
<1>2. Good /\ Good' /\ ElectInv /\ [Next]_vars => ElectInv'
  <2> SUFFICES ASSUME Good, Good', ElectInv, [Next]_vars PROVE ElectInv'
    OBVIOUS
  <2>1. CASE Next
    BY <2>1, NextElect
  <2>2. CASE UNCHANGED vars
    <3>1. node' = node /\ msgs' = msgs
      BY <2>2 DEF vars
    <3>2. \A q, i, t : Backs(q, i, t)' <=> Backs(q, i, t)
      BY <3>1 DEF Backs
    <3>3. \A i : Backers(i)' = Backers(i)
      BY <3>1, <3>2 DEF Backers
    <3>4. \A i, t : Lead(i, t)' <=> Lead(i, t)
      BY <3>2 DEF Lead
    <3> QED BY <3>1, <3>2, <3>3, <3>4 DEF ElectInv
  <2> QED BY <2>1, <2>2
<1>3. Good /\ ElectInv => ElectionSafety
  <2> SUFFICES ASSUME Good, ElectInv PROVE ElectionSafety
    OBVIOUS
  <2> QED BY LeadersLead, OneLead, TermsType DEF ElectionSafety
<1>4. Spec => []Good
  BY TypeCorrect, PTL DEF Good
<1> QED BY <1>1, <1>2, <1>3, <1>4, PTL DEF Spec
=============================================================================
