-------------------------------- MODULE Raft --------------------------------
(***************************************************************************)
(* A cluster of Raft nodes and its host.  The host is the one of           *)
(* crates/sim/src/cluster.rs: every event (a tick, a message, a client     *)
(* request) is handled by one node and its Output is processed at once, in *)
(* the order the host contract asks for: persist, apply, serve reads, send.*)
(* A crash between two of these steps loses what a crash after them, with  *)
(* the messages lost, would lose; so one step of the model is one event    *)
(* with its whole Output, and what survives a crash is the node's term,    *)
(* vote, snapshot and entries.                                             *)
(*                                                                         *)
(* msgs only grows: a message may be delivered any number of times, in any *)
(* order, after any delay, or never.  The state machine is abstracted to   *)
(* the sequence of entries applied to it, the snapshot data to the same.   *)
(***************************************************************************)
EXTENDS RaftStep

CONSTANTS
  Values,         \* client commands
  ConfChanges,    \* allowed membership changes, records [kind, arg]
  SnapshotEvery,  \* compact after this many applied entries
  Elections,      \* bound: Elections[t] are the servers that may start an
                  \* election for term t; none starts one beyond Len(Elections)
  Links,          \* bound: <<a, b>> when messages from a may ever reach b
  MaxIndex,       \* bound: no client proposal beyond this log index
  MaxHeartbeats,  \* bound: periodic broadcasts, over all leaders
  MaxReads,       \* bound: linearizable reads requested
  MaxRestarts     \* bound: crashes, over all nodes

ASSUME BoundsAssumption ==
  /\ SnapshotEvery \in Nat \ {0}
  /\ Elections \in Seq(SUBSET Server)
  /\ Links \subseteq Server \X Server
  /\ {MaxIndex, MaxHeartbeats, MaxReads, MaxRestarts} \subseteq Nat
ASSUME ConfChangesAssumption ==
  ConfChanges \subseteq [kind : ConfKinds, arg : Server]

VARIABLES
  node,       \* node[i]: the RaftNode of server i
  msgs,       \* every message ever sent and not lost for good
  sm,         \* sm[i]: the entries applied to server i's state machine
  sinceSnap,  \* sinceSnap[i]: applied_since_snap
  chosen,     \* history: the longest sequence of entries any server applied
  reads,      \* history: reads[rid] = what was chosen at the request, what was read
  heartbeats, \* number of periodic broadcasts so far
  restarts    \* number of crashes so far

vars == <<node, msgs, sm, sinceSnap, chosen, reads, heartbeats, restarts>>

Init ==
  /\ node = [i \in Server |-> NewNode(i, 0, None, NoSnapshot, <<>>)]
  /\ msgs = {}
  /\ sm = [i \in Server |-> <<>>]
  /\ sinceSnap = [i \in Server |-> 0]
  /\ chosen = <<>>
  /\ reads = <<>>
  /\ heartbeats = 0
  /\ restarts = 0

-----------------------------------------------------------------------------
\* Mutant of Applied: an installed snapshot does not reach the state machine.
AppliedWithoutRestore(i, out) == sm[i] \o out.committed

\* What the state machine holds after an Output: an installed snapshot
\* replaces it, the committed entries are applied on top.
Applied(i, out) ==
  (IF out.snapshot.lastIndex > 0 THEN out.snapshot.data ELSE sm[i]) \o out.committed

\* process_output of server i, whose event left the node n: apply, compact
\* once enough entries were applied, serve the released reads, send.  rs is
\* the read table the event leaves.
Process(i, n, rs) ==
  LET applied == Applied(i, n.out)
      since   == Len(n.out.committed)
                 + IF n.out.snapshot.lastIndex > 0 THEN 0 ELSE sinceSnap[i]
      due     == since >= SnapshotEvery
      served  == {r.rid : r \in n.out.readStates}
      after   == IF due /\ CanCompact(n, Len(applied))
                   THEN Compact(n, Len(applied), applied) ELSE n
  IN  /\ node' = [node EXCEPT ![i] = TakeOutput(after)]
      /\ msgs' = msgs \cup {m \in n.out.messages : <<m.from, m.to>> \in Links}
      /\ sm' = [sm EXCEPT ![i] = applied]
      /\ sinceSnap' = [sinceSnap EXCEPT ![i] = IF due THEN 0 ELSE since]
      /\ chosen' = IF Len(applied) > Len(chosen) THEN applied ELSE chosen
      /\ reads' = [rid \in DOMAIN rs |->
                     IF rid \in served THEN [rs[rid] EXCEPT !.seen = Len(applied)]
                                       ELSE rs[rid]]

Event(i, n) == Process(i, n, reads) /\ UNCHANGED <<heartbeats, restarts>>

-----------------------------------------------------------------------------
(* Ticks. *)

\* election_elapsed reaches election_tick_min; only handle_pre_vote looks at it.
GoQuiet(i) ==
  /\ PreVote
  /\ node[i].role # "Leader"
  /\ ~node[i].quiet
  /\ Event(i, [node[i] EXCEPT !.quiet = TRUE])

Timeout(i) ==
  /\ node[i].role # "Leader"
  /\ node[i].term < Len(Elections)
  /\ i \in Elections[node[i].term + 1]
  /\ Event(i, ElectionTimeout(node[i]))

Heartbeat(i) ==
  /\ node[i].role = "Leader"
  /\ heartbeats < MaxHeartbeats
  /\ heartbeats' = heartbeats + 1
  /\ Process(i, BroadcastAppend(node[i]), reads)
  /\ UNCHANGED restarts

\* election_tick_min ticks have passed since the snapshot was sent to p.
SnapshotOverdue(i, p) ==
  /\ p \in DOMAIN node[i].prs
  /\ node[i].prs[p].snap = "sent"
  /\ Event(i, [node[i] EXCEPT !.prs[p].snap = "overdue"])

(* Client requests. *)

ClientPropose(i, v) ==
  /\ CanPropose(node[i])
  /\ LastIndex(node[i].log) < MaxIndex
  /\ Event(i, Propose(node[i], v))

ClientConfChange(i, cc) ==
  /\ CanProposeConfChange(node[i])
  /\ LastIndex(node[i].log) < MaxIndex
  /\ Event(i, ProposeConfChange(node[i], cc.kind, cc.arg))

ClientRead(i) ==
  LET rid == Len(reads) + 1
  IN  /\ rid <= MaxReads
      /\ CanReadIndex(node[i])
      /\ Process(i, ReadIndex(node[i], rid),
                 Append(reads, [floor |-> Len(chosen), seen |-> None]))
      /\ UNCHANGED <<heartbeats, restarts>>

\* A crash and the restart from what was persisted.
Restart(i) ==
  LET n == node[i]
  IN  /\ restarts < MaxRestarts
      /\ restarts' = restarts + 1
      /\ node' = [node EXCEPT ![i] = NewNode(i, n.term, n.votedFor, n.snapshot,
                                             n.log.entries)]
      /\ sm' = [sm EXCEPT ![i] = n.snapshot.data]
      /\ sinceSnap' = [sinceSnap EXCEPT ![i] = 0]
      /\ UNCHANGED <<msgs, chosen, reads, heartbeats>>

-----------------------------------------------------------------------------
(* Messages: RaftNode::step. *)

Receivable(i, m, type) ==
  m.to = i /\ m.type = type /\ m.term >= node[i].term

RecvPreVote(i) ==
  \E m \in msgs : /\ m.to = i /\ m.type = "PreVote"
                  /\ Event(i, HandlePreVote(node[i], m))

RecvPreVoteResp(i) ==
  \E m \in msgs : /\ m.to = i /\ m.type = "PreVoteResp"
                  /\ Event(i, HandlePreVoteResp(node[i], m))

RecvStale(i) ==
  \E m \in msgs : /\ m.to = i /\ m.type \notin {"PreVote", "PreVoteResp"}
                  /\ m.term < node[i].term
                  /\ Event(i, RejectStale(node[i], m))

RecvRequestVote(i) ==
  \E m \in msgs : /\ Receivable(i, m, "RequestVote")
                  /\ Event(i, HandleRequestVote(UpToTerm(node[i], m), m))

RecvRequestVoteResp(i) ==
  \E m \in msgs : /\ Receivable(i, m, "RequestVoteResp")
                  /\ Event(i, HandleRequestVoteResp(UpToTerm(node[i], m), m))

RecvAppendEntries(i) ==
  \E m \in msgs : /\ Receivable(i, m, "AppendEntries")
                  /\ ~Overwrites(UpToTerm(node[i], m), m)
                  /\ Event(i, HandleAppendEntries(UpToTerm(node[i], m), m))

RecvAppendEntriesResp(i) ==
  \E m \in msgs : /\ Receivable(i, m, "AppendEntriesResp")
                  /\ Event(i, HandleAppendResp(UpToTerm(node[i], m), m))

RecvInstallSnapshot(i) ==
  \E m \in msgs : /\ Receivable(i, m, "InstallSnapshot")
                  /\ Event(i, HandleInstallSnapshot(UpToTerm(node[i], m), m))

RecvInstallSnapshotResp(i) ==
  \E m \in msgs : /\ Receivable(i, m, "InstallSnapshotResp")
                  /\ Event(i, HandleInstallSnapshotResp(UpToTerm(node[i], m), m))

Next == \E i \in Server :
  \/ GoQuiet(i)
  \/ Timeout(i)
  \/ Heartbeat(i)
  \/ \E p \in Server : SnapshotOverdue(i, p)
  \/ \E v \in Values : ClientPropose(i, v)
  \/ \E cc \in ConfChanges : ClientConfChange(i, cc)
  \/ ClientRead(i)
  \/ Restart(i)
  \/ RecvPreVote(i)
  \/ RecvPreVoteResp(i)
  \/ RecvStale(i)
  \/ RecvRequestVote(i)
  \/ RecvRequestVoteResp(i)
  \/ RecvAppendEntries(i)
  \/ RecvAppendEntriesResp(i)
  \/ RecvInstallSnapshot(i)
  \/ RecvInstallSnapshotResp(i)

Spec == Init /\ [][Next]_vars

-----------------------------------------------------------------------------
(* Types. *)

Kinds == {"Noop", "Normal"} \cup {cc.kind : cc \in ConfChanges}

Args == Values \cup Server \cup {None}

Entries == [index : Nat, term : Nat, kind : Kinds, arg : Args]

Logs == [snapIndex : Nat, snapTerm : Nat, entries : Seq(Entries)]

\* The voter sets a snapshot may carry: without membership changes, only one.
Configurations == IF ConfChanges = {} THEN {InitialVoters} ELSE SUBSET Server

Snapshots == [lastIndex : Nat, lastTerm : Nat, voters : Configurations,
              data : Seq(Entries)]

ProgressRecords == [next : Nat, matched : Nat, inflight : Nat,
                    snap : {"none", "sent", "overdue"}, ackedCtx : Nat]

Votes == [type : {"PreVote", "RequestVote"}, from : Server, to : Server,
          term : Nat, lastIndex : Nat, lastTerm : Nat]
VoteResps == [type : {"PreVoteResp", "RequestVoteResp"}, from : Server,
              to : Server, term : Nat, granted : BOOLEAN]
Appends == [type : {"AppendEntries"}, from : Server, to : Server, term : Nat,
            prevIndex : Nat, prevTerm : Nat, entries : Seq(Entries),
            commit : Nat, readCtx : Nat]
AppendResps == [type : {"AppendEntriesResp"}, from : Server, to : Server,
                term : Nat, success : BOOLEAN, matchIndex : Nat,
                conflictIndex : Nat, readCtx : Nat]
Installs == [type : {"InstallSnapshot"}, from : Server, to : Server, term : Nat,
             snapshot : Snapshots]
InstallResps == [type : {"InstallSnapshotResp"}, from : Server, to : Server,
                 term : Nat, lastIndex : Nat]
Messages == Votes \cup VoteResps \cup Appends \cup AppendResps \cup Installs
            \cup InstallResps

Outputs == [append : Seq(Entries), committed : Seq(Entries), snapshot : Snapshots,
            readStates : SUBSET [rid : Nat, index : Nat],
            messages : SUBSET Messages]

NodesOver(peers) ==
  [id : Server, term : Nat, votedFor : Server \cup {None},
   role : {"Follower", "PreCandidate", "Candidate", "Leader"},
   leader : Server \cup {None}, log : Logs, snapshot : Snapshots, commit : Nat,
   quiet : BOOLEAN, votes : SUBSET Server,
   prs : [peers -> ProgressRecords],
   readCtx : Nat, pendingReads : SUBSET [ctx : Nat, rid : Nat, index : Nat],
   out : Outputs]

NodeOK(n) == n \in NodesOver(DOMAIN n.prs) /\ DOMAIN n.prs \subseteq Server

\* Every variable, node field and message field stays in its type, and every
\* Output is taken before the next event (the host contract of types.rs).
TypeOK ==
  /\ node = [i \in Server |-> node[i]]
  /\ \A i \in Server : NodeOK(node[i]) /\ node[i].id = i /\ node[i].out = NoOutput
  /\ msgs \in SUBSET Messages
  /\ sm \in [Server -> Seq(Entries)]
  /\ sinceSnap \in [Server -> Nat]
  /\ chosen \in Seq(Entries)
  /\ reads \in Seq([floor : Nat, seen : Nat \cup {None}])
  /\ heartbeats \in Nat
  /\ restarts \in Nat

-----------------------------------------------------------------------------
(* What must hold. *)

\* t begins with s.
Begins(s, t) == Len(s) <= Len(t) /\ s = SubSeq(t, 1, Len(s))

\* The log of server i from index 1: what its snapshot stands for, then the
\* entries it still holds.
FullLog(i) == node[i].snapshot.data \o node[i].log.entries

LeaderOf(t) == {i \in Server : node[i].role = "Leader" /\ node[i].term = t}
               \cup {m.from : m \in {x \in msgs : x.term = t /\
                       x.type \in {"AppendEntries", "InstallSnapshot"}}}

\* At most one server ever leads a term: no two leaders hold the same term, and
\* nobody else has ever sent a leader's messages in it (the simulator asserts
\* this in process_output through `leaders_by_term`).
ElectionSafety ==
  \A i, j \in Server : \A t \in {node[i].term, node[j].term} :
    i \in LeaderOf(t) /\ j \in LeaderOf(t) => i = j

Contiguous(s, base) == \A k \in 1 .. Len(s) : s[k].index = base + k

SnapshotLinesUp(s) == Len(s.data) = s.lastIndex /\ Contiguous(s.data, 0)

NodeLinesUp(n) ==
  /\ SnapshotLinesUp(n.snapshot)
  /\ n.log.snapIndex = n.snapshot.lastIndex
  /\ Contiguous(n.log.entries, n.log.snapIndex)
  /\ n.log.snapIndex <= n.commit
  /\ n.commit <= LastIndex(n.log)

MessageLinesUp(m) ==
  /\ m.type = "AppendEntries" => Contiguous(m.entries, m.prevIndex)
  /\ m.type = "InstallSnapshot" => SnapshotLinesUp(m.snapshot)

\* The indexes line up: an entry's index is its place in the log, also inside
\* messages, snapshots and state machines; base <= commit <= last; and the host
\* has applied exactly what is committed.  log.rs asserts the first part on
\* every restart and push; a commit point outside the log would make slice()
\* and get() miss entries.
IndexesLineUp ==
  /\ \A i \in Server : /\ NodeLinesUp(node[i])
                       /\ Len(sm[i]) = node[i].commit
                       /\ Contiguous(sm[i], 0)
  /\ \A m \in msgs : MessageLinesUp(m)

\* If two logs hold an entry of the same index and term they are identical up
\* to that index (asserted for single entries by check_log_matching).
LogMatching ==
  \A i, j \in Server :
    \A k \in 1 .. Len(FullLog(i)) :
      k <= Len(FullLog(j)) /\ FullLog(i)[k].term = FullLog(j)[k].term
        => SubSeq(FullLog(i), 1, k) = SubSeq(FullLog(j), 1, k)

\* No two servers ever apply different entries at the same index, over the
\* whole history (the simulator's `applied_global` assertion).
StateMachineSafety == \A i \in Server : Begins(sm[i], chosen)

\* A leader holds every entry that was ever applied, as long as a majority of its
\* voters has not gone on to a newer term.  (A leader that was left behind may lack
\* some, even when it is the only one: a newer leader may have crashed.)
LeaderCompleteness ==
  \A i \in Server :
    /\ node[i].role = "Leader"
    /\ 2 * Cardinality({j \in Voters(node[i]) : node[j].term <= node[i].term})
         > Cardinality(Voters(node[i]))
    => Begins(chosen, FullLog(i))

\* The executable invariant of handle_append_entries never fires, whatever
\* message the network still holds or repeats.
CommittedNeverOverwritten ==
  \A i \in Server : \A m \in msgs :
    Receivable(i, m, "AppendEntries") => ~Overwrites(UpToTerm(node[i], m), m)

\* A leader counts towards a commit only what the follower really holds: while
\* the follower is still in the leader's term, its log agrees with the
\* leader's up to `matched`, whatever was lost, repeated or installed since.
MatchedIsHeld ==
  \A i \in Server : node[i].role = "Leader" =>
    \A p \in DOMAIN node[i].prs :
      LET k == node[i].prs[p].matched IN
      node[p].term = node[i].term =>
        /\ k <= Len(FullLog(p))
        /\ SubSeq(FullLog(p), 1, k) = SubSeq(FullLog(i), 1, k)

\* A snapshot stands for exactly the applied prefix it replaces: its data, the
\* term of its last entry, and the configuration as of its last entry.
SnapshotFaithful ==
  \A i \in Server :
    LET s == node[i].snapshot IN
    s.lastIndex > 0 =>
      /\ Begins(s.data, chosen)
      /\ Len(s.data) = s.lastIndex
      /\ s.lastTerm = s.data[s.lastIndex].term
      /\ s.voters = Voters(NewNode(i, 0, None, NoSnapshot, s.data))

\* A read served at a commit index sees everything that any server had applied
\* when it was requested (README: ReadIndex reads are linearizable).
LinearizableReads ==
  \A r \in DOMAIN reads : reads[r].seen # None => reads[r].seen >= reads[r].floor

\* With pre-votes on, no term comes into use that a quorum of the initial
\* voters did not agree to beforehand: a partitioned node cannot inflate terms.
NoTermInflation ==
  \A i \in Server : PreVote /\ node[i].term > 0 =>
    \E c \in Server :
      Cardinality({c} \cup {m.from : m \in {x \in msgs :
          x.type = "PreVoteResp" /\ x.to = c /\ x.granted
          /\ x.term = node[i].term}}) * 2 > Cardinality(InitialVoters)

\* A leader is a voter, if not of the configuration it has committed then of
\* the one its log ends in: a server that has committed its own removal does
\* not lead (advance_commit_to), while one that is being added may.
LeaderIsMember ==
  \A i \in Server : node[i].role = "Leader" =>
    i \in VotersAt(node[i], node[i].commit) \cup Voters(node[i])

\* A leader grants no pre-vote: it is itself the live leader that
\* handle_pre_vote asks about ("what stops a rejoining partitioned node from
\* disrupting a healthy cluster").
LeaderRefusesPreVotes ==
  [][\A i \in Server : node[i].role = "Leader" =>
       ~\E m \in msgs' \ msgs : /\ m.type = "PreVoteResp" /\ m.from = i
                               /\ m.granted]_vars

\* No step takes a committed entry out of a log: not a truncation, not a
\* snapshot, not a compaction, not a crash.
CommittedStays ==
  [][\A i \in Server :
       Begins(SubSeq(FullLog(i), 1, node[i].commit), FullLog(i)')]_vars
=============================================================================
