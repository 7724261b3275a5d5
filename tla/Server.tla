------------------------------- MODULE Server -------------------------------
(***************************************************************************)
(* One server of the real host, crates/server/src/core.rs, among peers.    *)
(* Server Me runs Core: it drains a batch of events into its RaftNode, then*)
(* processes one Output for all of them: persist, apply and answer,        *)
(* compact, serve reads, send.  A crash may come between any two of these. *)
(* The peers are hosts that take an Output after every event, a schedule   *)
(* Core has too, so that their outputs need not be modelled in steps.      *)
(*                                                                         *)
(* Peers move only while Me is draining: the steps of process_output touch *)
(* nothing of theirs and look at no message, so they commute with them.    *)
(***************************************************************************)
EXTENDS RaftStep, KvStateMachine, LogStore

CONSTANTS
  Me,             \* the server that runs Core
  Commands,       \* client writes, records [session, seq, op]
  SnapshotEvery,  \* snapshot_every of Me; the peers' is larger than the log
  Budget,         \* events drained into one Output (513 in the code)
  Elections, Links,                             \* bounds, see Raft
  MaxWrites, MaxHeartbeats, MaxReads, MaxRestarts

ASSUME MeAssumption == Me \in Server

VARIABLES
  node,    \* node[i]: the RaftNode of server i
  msgs,    \* every message ever sent
  store,   \* Me's LogStore
  core,    \* Me's Core: see NewCore
  phase,   \* where Me is: "drain", "persisted", "applied"
  drained, \* events handled since the last Output
  chosen,  \* history: the entries some server has applied
  client,  \* KvClient::seq, by session: the number of its latest write
  acks,    \* history: the answers to client writes, [cmd, result]
  reads,   \* history: reads[rid] = entries applied at the request, entries seen
  clean,   \* history: every batch persisted so far was in order, see InOrder
  count    \* [writes, heartbeats, reads, restarts] so far

vars == <<node, msgs, store, core, phase, drained, chosen, client, acks, reads, clean, count>>

Sessions == {cmd.session : cmd \in Commands}

\* The fields of Core that are not raft, log or configuration.
NewCore(snapshot) ==
  [kv |-> IF snapshot.lastIndex > 0 THEN Restore(snapshot.data) ELSE EmptyKv,
   applied |-> snapshot.lastIndex, sinceSnap |-> 0,
   pendingWrites |-> {}, pendingReads |-> {}, readyReads |-> {}]

Init ==
  /\ node = [i \in Server |-> NewNode(i, 0, None, NoSnapshot, <<>>)]
  /\ msgs = {}
  /\ store = NewStore(None, NoSnapshot)
  /\ core = NewCore(NoSnapshot)
  /\ phase = "drain"
  /\ drained = 0
  /\ chosen = <<>>
  /\ client = [x \in Sessions |-> 0]
  /\ acks = {}
  /\ reads = <<>>
  /\ clean = TRUE
  /\ count = [writes |-> 0, heartbeats |-> 0, reads |-> 0, restarts |-> 0]

Sendable(ms) == {m \in ms : <<m.from, m.to>> \in Links}

\* The chosen entries once node n has applied up to its commit point.
ChosenBy(n) ==
  chosen \o SubSeq(n.log.entries, Len(chosen) + 1 - n.log.snapIndex,
                   n.commit - n.log.snapIndex)

-----------------------------------------------------------------------------
\* What a tick may do to a node besides counting, see Raft.
Ticks(n) ==
  (IF n.role # "Leader" /\ n.term < Len(Elections) /\ n.id \in Elections[n.term + 1]
     THEN {[node |-> ElectionTimeout(n), beats |-> 0]} ELSE {})
  \cup (IF n.role = "Leader" /\ count.heartbeats < MaxHeartbeats
          THEN {[node |-> BroadcastAppend(n), beats |-> 1]} ELSE {})
  \cup {[node |-> [n EXCEPT !.prs[p].snap = "overdue"], beats |-> 0] :
          p \in {q \in DOMAIN n.prs : n.prs[q].snap = "sent"}}

\* RaftNode::step, unless it panics, for each message that may reach n.
Steps(n) ==
  {Step(n, m) : m \in {x \in msgs :
     /\ x.to = n.id
     /\ ~(x.type = "AppendEntries" /\ x.term >= n.term
          /\ Overwrites(UpToTerm(n, x), x))}}

-----------------------------------------------------------------------------
(* The peers: one event and its whole Output. *)

Settle(i, n) ==
  /\ i # Me /\ phase = "drain"
  /\ node' = [node EXCEPT ![i] = TakeOutput(n)]
  /\ msgs' = msgs \cup Sendable(n.out.messages)
  /\ chosen' = IF n.commit > Len(chosen) THEN ChosenBy(n) ELSE chosen
  /\ UNCHANGED <<store, core, phase, drained, acks, reads, clean>>

PeerTick(i) ==
  \E t \in Ticks(node[i]) :
    /\ Settle(i, t.node)
    /\ count' = [count EXCEPT !.heartbeats = @ + t.beats]
    /\ UNCHANGED client

PeerStep(i) == \E n \in Steps(node[i]) : Settle(i, n) /\ UNCHANGED <<client, count>>

Acked(cmd) == \E a \in acks : a.cmd = cmd

\* KvClient::put, delete, cas: a new write takes the next number, whatever became
\* of the one before: the client may have given up on it.
NewWrite(cmd) == cmd.seq = client[cmd.session] + 1

\* KvClient::call sends a write again, to any server, until it is answered.
Retries(cmd) == cmd.seq = client[cmd.session] /\ ~Acked(cmd)

Asked(cmd) ==
  /\ NewWrite(cmd) \/ Retries(cmd)
  /\ client' = [client EXCEPT ![cmd.session] = cmd.seq]
  /\ count.writes < MaxWrites
  /\ count' = [count EXCEPT !.writes = @ + 1]

PeerPropose(i, cmd) ==
  /\ Asked(cmd)
  /\ CanPropose(node[i])
  /\ Settle(i, Propose(node[i], cmd))

-----------------------------------------------------------------------------
(* Core::handle_event.  An event that changes nothing only uses up budget and *)
(* is left out.                                                               *)

Handle(n, c) ==
  /\ phase = "drain" /\ drained < Budget
  /\ <<n, c>> # <<node[Me], core>>
  /\ node' = [node EXCEPT ![Me] = n]
  /\ core' = c
  /\ drained' = drained + 1
  /\ UNCHANGED <<msgs, store, phase, chosen, acks, clean>>

OnPeer ==
  \E n \in Steps(node[Me]) : Handle(n, core) /\ UNCHANGED <<client, reads, count>>

\* raft.tick(), then sweep_timeouts().  Deadlines are not modelled: any waiting
\* requests may be overdue.
OnTick ==
  \E t \in Ticks(node[Me]) \cup {[node |-> node[Me], beats |-> 0]},
     ws \in SUBSET core.pendingWrites, rs \in SUBSET core.pendingReads :
    /\ Handle(t.node, [core EXCEPT !.pendingWrites = @ \ ws,
                                   !.pendingReads = @ \ rs,
                                   !.readyReads = {r \in @ : r.rid \notin rs}])
    /\ count' = [count EXCEPT !.heartbeats = @ + t.beats]
    /\ UNCHANGED <<client, reads>>

\* propose_write.
OnWrite(cmd) ==
  /\ Asked(cmd)
  /\ CanPropose(node[Me])
  /\ Handle(Propose(node[Me], cmd),
            [core EXCEPT !.pendingWrites = @ \cup {<<cmd.session, cmd.seq>>}])
  /\ UNCHANGED reads

\* handle_read at Consistency::Linearizable; the others change no state.
OnRead ==
  LET rid == Len(reads) + 1
  IN  /\ count.reads < MaxReads
      /\ CanReadIndex(node[Me])
      /\ Handle(ReadIndex(node[Me], rid), [core EXCEPT !.pendingReads = @ \cup {rid}])
      /\ reads' = Append(reads, [floor |-> Len(chosen), seen |-> None])
      /\ count' = [count EXCEPT !.reads = @ + 1]
      /\ UNCHANGED client

-----------------------------------------------------------------------------
(* Core::process_output. *)

\* The entries a batch of events appended are the end of the log it leaves: no
\* event of the batch truncated or replaced what an earlier one had appended.
InOrder(n) ==
  LET new == n.out.append
      es  == n.log.entries
  IN  Len(new) <= Len(es) /\ new = SubSeq(es, Len(es) - Len(new) + 1, Len(es))

\* Mutant of PersistOutput: a vote is not written.
PersistWithoutVote ==
  LET n == node[Me]
  IN  /\ phase = "drain" /\ drained > 0
      /\ store' = Persist(store, n.term, store.votedFor, n.out.append, n.out.snapshot)
      /\ phase' = "persisted"
      /\ clean' = (clean /\ InOrder(n))
      /\ UNCHANGED <<node, msgs, core, drained, chosen, client, acks, reads, count>>

\* (1) Durability, before anything leaves this node.
PersistOutput ==
  LET n == node[Me]
  IN  /\ phase = "drain" /\ drained > 0
      /\ store' = Persist(store, n.term, n.votedFor, n.out.append, n.out.snapshot)
      /\ phase' = "persisted"
      /\ clean' = (clean /\ InOrder(n))
      /\ UNCHANGED <<node, msgs, core, drained, chosen, client, acks, reads, count>>

\* The state after each of the entries es, and what applying it returned.
\* (kv ranges over a singleton, for TLC to evaluate it once.)
Applying(start, es) ==
  LET f[k \in 0 .. Len(es)] ==
        IF k = 0 THEN [kv |-> start, result |-> None]
        ELSE CHOOSE r \in {IF es[k].kind = "Normal" THEN Apply(kv, es[k].arg)
                           ELSE [kv |-> kv, result |-> None] : kv \in {f[k - 1].kv}} : TRUE
  IN  f

\* The places in es where a waiting write is answered: its first occurrence.
Answered(es) ==
  {k \in 1 .. Len(es) :
     /\ es[k].kind = "Normal"
     /\ <<es[k].arg.session, es[k].arg.seq>> \in core.pendingWrites
     /\ \A j \in 1 .. k - 1 : es[j].kind = "Normal" =>
          <<es[j].arg.session, es[j].arg.seq>> # <<es[k].arg.session, es[k].arg.seq>>}

\* Mutant of AppliedTo: only client writes advance it, not a leader's first entry.
AppliedToWrite(out) ==
  LET writes == SelectSeq(out.committed, LAMBDA e : e.kind = "Normal")
  IN  IF writes # <<>> THEN writes[Len(writes)].index
      ELSE IF out.snapshot.lastIndex > 0 THEN out.snapshot.lastIndex ELSE core.applied

\* Core::applied after an Output: entries are applied after a snapshot.
AppliedTo(out) ==
  IF out.committed # <<>> THEN out.committed[Len(out.committed)].index
  ELSE IF out.snapshot.lastIndex > 0 THEN out.snapshot.lastIndex ELSE core.applied

\* (2) Restore an installed snapshot, apply what is committed, answer writes.
ApplyCommitted ==
  LET n         == node[Me]
      es        == n.out.committed
      installed == n.out.snapshot.lastIndex > 0
      f         == Applying(IF installed THEN Restore(n.out.snapshot.data) ELSE core.kv,
                            es)
      new       == {[cmd |-> es[k].arg, result |-> f[k].result] : k \in Answered(es)}
  IN  /\ phase = "persisted"
      /\ phase' = "applied"
      /\ core' = [core EXCEPT
           !.kv = f[Len(es)].kv,
           !.applied = AppliedTo(n.out),
           !.sinceSnap = Len(es) + IF installed THEN 0 ELSE @,
           !.pendingWrites = @ \ {<<a.cmd.session, a.cmd.seq>> : a \in new}]
      /\ acks' = acks \cup new
      /\ chosen' = IF n.commit > Len(chosen) THEN ChosenBy(n) ELSE chosen
      /\ UNCHANGED <<node, msgs, store, drained, client, reads, clean, count>>

\* Mutant of Served: reads are answered before their round is confirmed.
ServedUnconfirmed(ready) == core.pendingReads

\* The waiting reads whose round is complete and whose index is applied.
Served(ready) ==
  core.pendingReads \cap {r.rid : r \in {x \in ready : x.index <= core.applied}}

\* Compact when enough was applied; (3) serve reads; (4) messages last.
Complete ==
  LET n     == node[Me]
      due   == core.sinceSnap >= SnapshotEvery
      takes == due /\ CanCompact(n, core.applied)
      after == IF takes THEN Compact(n, core.applied, Image(core.kv)) ELSE n
      ready == core.readyReads \cup n.out.readStates
  IN  /\ phase = "applied"
      /\ phase' = "drain"
      /\ drained' = 0
      /\ node' = [node EXCEPT ![Me] = TakeOutput(after)]
      /\ store' = IF takes THEN CompactTo(store, after.snapshot) ELSE store
      /\ core' = [core EXCEPT
           !.sinceSnap = IF due THEN 0 ELSE @,
           !.pendingReads = @ \ Served(ready),
           !.readyReads = {r \in ready : r.index > core.applied}]
      /\ reads' = [r \in DOMAIN reads |->
                     IF r \in Served(ready) THEN [reads[r] EXCEPT !.seen = core.applied]
                                            ELSE reads[r]]
      /\ msgs' = msgs \cup Sendable(n.out.messages)
      /\ UNCHANGED <<chosen, client, acks, clean, count>>

\* A crash anywhere, and Core::open.  RaftLog::new only debug-asserts that the
\* entries follow the snapshot without a gap: a release build starts regardless.
Restart ==
  /\ count.restarts < MaxRestarts
  /\ node' = [node EXCEPT ![Me] = NewNode(Me, store.term, store.votedFor, store.snap,
                                          ScanEntries(store))]
  /\ store' = Open(store)
  /\ core' = NewCore(store.snap)
  /\ phase' = "drain"
  /\ drained' = 0
  /\ count' = [count EXCEPT !.restarts = @ + 1]
  /\ UNCHANGED <<msgs, chosen, client, acks, reads, clean>>

Next ==
  \/ \E i \in Server : \/ PeerTick(i)
                       \/ PeerStep(i)
                       \/ \E cmd \in Commands : PeerPropose(i, cmd)
  \/ OnPeer
  \/ OnTick
  \/ \E cmd \in Commands : OnWrite(cmd)
  \/ OnRead
  \/ PersistOutput
  \/ ApplyCommitted
  \/ Complete
  \/ Restart

Spec == Init /\ [][Next]_vars

-----------------------------------------------------------------------------
(* What must hold. *)

\* Memory has nothing that has not been persisted.
Persisted == phase # "drain" \/ drained = 0

\* What a restart would find is what the node has in memory.
StoreIsMemory ==
  LET n == node[Me]
  IN  /\ store.term = n.term /\ store.votedFor = n.votedFor
      /\ store.snap = n.snapshot
      /\ ScanEntries(store) = n.log.entries
      /\ DOMAIN store.keys = IF store.last = 0 THEN {} ELSE store.first .. store.last

\* Once an Output is persisted, and after compact_to, a restart finds the term,
\* vote, snapshot and log that the node has in memory, as long as no batch of
\* events appended entries that the same batch truncated or replaced again.
DurableLog == clean /\ Persisted => StoreIsMemory

\* The same of every batch: "an entry at index i invalidates every stored entry
\* with index >= i, so those keys are deleted in the same batch" (logstore.rs).
RestartFindsLog == Persisted => StoreIsMemory

\* What Me has told others is on its disk: the term, its vote in that term, and
\* every entry it acknowledged to the leader of the term ("an un-fsynced vote
\* could be re-cast; an un-fsynced acked entry could vanish", logstore.rs).
PromisesDurable ==
  \A m \in msgs : m.from = Me =>
    /\ m.term <= store.term
    /\ m.type = "RequestVote" /\ m.term = store.term => store.votedFor = Me
    /\ m.type = "RequestVoteResp" /\ m.granted /\ m.term = store.term
         => store.votedFor = m.to
    /\ clean /\ m.type = "AppendEntriesResp" /\ m.success /\ m.term = store.term
         => store.snap.lastIndex + 1 .. m.matchIndex \subseteq DOMAIN store.keys

\* Between batches the state machine is the one that results from applying the
\* committed entries in order from the start, whatever snapshots, restarts and
\* batches with both a snapshot and older entries came in between.
KvIsReplay ==
  clean /\ phase = "drain" /\ drained = 0 =>
    core.kv = Applying(EmptyKv, chosen)[node[Me].commit].kv

\* Every copy of a retried write gets the answer of its first execution.
AnswersAgree ==
  clean => \A a \in acks :
    \E k \in 1 .. Len(chosen) :
      /\ chosen[k].kind = "Normal" /\ chosen[k].arg = a.cmd
      /\ \A j \in 1 .. k - 1 : ~(chosen[j].kind = "Normal" /\ chosen[j].arg = a.cmd)
      /\ a.result = Applying(EmptyKv, chosen)[k].result

\* A linearizable read is answered from a state that has every entry any server
\* had applied when Core received it.
LinearizableReads ==
  \A r \in DOMAIN reads : reads[r].seen # None => reads[r].seen >= reads[r].floor

\* A read is answered by the Output in which its round completes, or has timed out:
\* none is left in ready_reads, where only the next Output would look for it again.
\* For whatever the read's index was, also that of an entry committed in the batch
\* that took the read, it has been applied by then.
ConfirmedReadsServed == core.readyReads = {}
=============================================================================
