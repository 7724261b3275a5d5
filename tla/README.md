# A TLA+ model of raft-kv-engine

This directory specifies and verifies the replicated key-value store of this
repository. The specification is written from the Rust sources under
`src/crates`; `PROJECT.json` maps each definition to the lines it models.

## 1. The system

| part | source | state | operations |
|---|---|---|---|
| raft log | `raft/src/log.rs` | entries above a snapshot base | slice, push, truncate, compact, reset |
| raft node | `raft/src/node.rs`, `types.rs` | term, vote, role, log, commit, progress of peers, pending reads, output queue | `tick`, `step`, `propose`, `propose_conf_change`, `read_index`, `compact`, `take_output` |
| simulated cluster | `sim/src/cluster.rs` | nodes, disks, network, state machines | delivery, loss, duplication, crash, restart, processing of an `Output` |
| linearizability checker | `sim/src/wgl.rs`, `history.rs` | a finished history | search for a linearization |
| server core | `server/src/core.rs` | pending writes and reads, applied index | event loop with group commit, `process_output`, timeouts |
| log store | `server/src/logstore.rs` | durable term, vote, snapshot, entries | `open`, `persist`, `compact_to` |
| storage backend, network | `server/src/backend.rs`, `net.rs` | the state machine on a `Db`; connections | get, put, delete; socket loops |
| key-value state machine | `kvsm/src/lib.rs` | map and session table | `apply` with deduplication, `snapshot`, `restore` |
| storage engine | `storage/src/*.rs` | memtable, write-ahead log, tables, manifest | batch writes, reads at a snapshot, flush, compaction, recovery |
| client | `client/src/lib.rs` | session, sequence number, target | calls with retry and redirection |
| wire protocol, tools | `proto`, `client/src/bin`, `bench` | none | encoding, command lines |

How they interact. A host (the simulator's `Cluster`, or the server's `Core`)
owns one `RaftNode`. The node does no input or output: each entry point only
changes the node and fills an `Output` of messages, entries to persist,
committed entries, an installed snapshot and released reads. The contract in
`types.rs` fixes the order in which the host must treat it: persist, apply,
then send. The simulator takes an `Output` after every event; the server drains
up to 512 events first (group commit). Committed entries go to the key-value
state machine, whose snapshots go back into `RaftNode::compact`. The server's
log store and state machine are both kept in the storage engine.

What makes it hard: two leaders of different terms that compete for one
follower; repeated, late and reordered messages; crashes that keep only what was
persisted; snapshots that overtake appends; membership changes that take effect
before they are committed; reads confirmed by echoes of earlier messages;
batches of events with one durable write; retries of requests that did succeed.
`PROJECT.json` lists the hazards one by one, at the line where each bites.

What must hold: one leader per term; logs that agree; what is applied stays and
is the same everywhere; leaders count only what followers hold; snapshots stand
for what they replace; reads see everything applied before them; a restart finds
what was promised.

## 2. The modules

```
RaftLog <- RaftNode <- RaftStep <-+- Raft          <- MCRaft          (TLC)
                                  +- Server        <- MCServer        (TLC)
                                  +- Replication   <- MCReplication   (TLC)
                                  +- RaftHistories (used by the three MC modules)
KvStateMachine, LogStore  <- Server
SsTable <- Storage <- MCStorage (TLC);  Storage implements VersionedMap

Raft <- RaftNodeProofs <- RaftStepProofs <- RaftProofs
     <- RaftVotesProofs <- RaftElectionProofs                         (TLAPS)
```

### Consensus

**RaftLog** models `log.rs`. A log is a record `[snapIndex, snapTerm, entries]`.

**RaftNode** models the state of `node.rs` and everything that is not a message
handler: voters and quorums, `send_append` with its window and its snapshot
fallback, commit advancement, elections, proposals, ReadIndex. Every function
of the code is an operator from a node to a node, and a node is a record with
the fields of the struct; the field `out` is the pending `Output`.

**RaftStep** models `step`, the eight handlers, and `compact`.

**Raft** models the cluster: one node per server, a network that may lose,
repeat and reorder (messages are only ever added to `msgs`, and delivering one
does not remove it), the applied entries `sm[i]` of each server, crash and
restart. One step is one event with the processing of its whole output, as in
`Cluster::process_output`. `chosen` and `reads` are history variables.

Abstractions, and why they lose nothing that the properties see:

- *Ticks.* A node compares its tick counters with `election_tick_min` and with a
  random timeout above it. Clocks of different nodes are not related, so a
  timeout may happen at any time (`Timeout`, `Heartbeat`). Two comparisons
  matter beyond that, and each has a flag: `quiet` (has a leader been heard from
  recently, asked by `handle_pre_vote`) and `snap = "overdue"` (is a snapshot to
  be sent again).
- *Commands and state machine.* A command is a model value, the state machine is
  the sequence of applied entries, and the data of a snapshot is that sequence
  too. Restoring and applying are then observable exactly.
- *A vote map* with refusals becomes the set of servers whose last answer was a
  grant; the code only counts those.
- *Voters* are computed from the snapshot's configuration and the configuration
  entries of the log, as `voters_at` does.
- *Panics.* `handle_append_entries` asserts that no committed entry is
  overwritten. `Overwrites` is that condition, the action is not taken when it
  holds, and the invariant `CommittedNeverOverwritten` says it never does.

**RaftHistories** computes states in the middle of a history by applying the
handlers to fresh nodes (a script of time-outs, deliveries, losses, proposals),
so that every run starts in a reachable state.

**MCRaft** instantiates the cluster for TLC. Three servers, mostly on a line,
`s1 - s3 - s2`: each quorum contains two of them, and an old and a new leader at
the ends compete for `s3`.

**Replication** takes the same nodes and puts the pipes of `net.rs` between a
leader and one follower: a queue of `PEER_QUEUE` messages and a connection each
way. A full queue drops what is sent (`try_send`), a pipe without a connection
dials or drops, a connection that breaks loses what it held. It exists to state
liveness, which the network of `Raft`, where nothing is ever used up, cannot.

### The server

**KvStateMachine** models `kvsm`: put, delete, compare-and-swap, the session
table that recognises repeated commands, snapshot and restore.

**LogStore** models `logstore.rs`: the keys of term, vote, snapshot and entries,
and the two indexes kept in memory. A batch is atomic and durable when it
returns; that is what the storage engine promises (below) under
`SyncPolicy::Always`.

**Server** composes both with one `RaftNode` into `Core`: `handle_event` for a
peer message, a tick, a write and a read, up to `Budget` of them, then
`process_output` in three steps, `PersistOutput`, `ApplyCommitted` and
`Complete` (compact, serve reads, send), with a crash possible between any two.
The other servers take an output after every event, which `Core` may do too, and
move only while this one drains: the steps of `process_output` neither read nor
write anything of theirs. The clients are those of `client/src/lib.rs`: a write
takes the next number of its session, whatever became of the one before, and is
sent again, to any server, until it is answered. Deadlines are not modelled: any
waiting request may be overdue at any tick.

`clean` is a history variable: no batch so far appended entries that the same
batch truncated again. It separates what holds from finding 3.

### The storage engine

**VersionedMap** is the promise: a map that batches change atomically, snapshots
that go on showing the map as it was, crashes that lose snapshots only.

**SsTable** models sorted tables: blocks closed when full, so that a key's
versions may straddle two; the search for the first block; the Bloom filter; the
merge. **Storage** models `Db`: write-ahead log, memtable, levels, the manifest
files, snapshots, flush, compaction and opening. Each change of the disk is a
step, and the process may crash between any two: `Manifest::save` is four steps
(create, fill, remove the old file, rename). The versions carry their operation
number as value, so the map also says which write a value comes from. `shown` is
what reads return, computed by `get_at` from the state; it is a variable only so
that TLC computes it once per state, and it is what maps to `VersionedMap`.

## 3. The runs

| run | what is checked | what happens in it |
|---|---|---|
| elections | `TypeOK`, `ElectionSafety`, `NoTermInflation` | pre-votes and votes of two candidates in term 2, answers to the pre-votes of term 1 still under way, one crash anywhere |
| split | `LogMatching`, `StateMachineSafety`, `LeaderCompleteness`, `CommittedNeverOverwritten` | two terms have left different entries at index 1; two more terms follow, with a heartbeat (the history of Figure 8 of the Raft paper) |
| lagging | `IndexesLineUp`, `MatchedIsHeld`, `CommittedStays` | a follower far behind a leader that has compacted: appends, refusals, snapshots and heartbeats arrive late, twice and in any order, one crash |
| reads | `LinearizableReads` | two reads at an old and a new leader; the new one does not know that an entry it holds is committed |
| membership | `SnapshotFaithful`, `LeaderIsMember` | a server is added, the leader removes itself, a second election, one crash; logs are compacted after each entry |
| server | `DurableLog`, `PromisesDurable`, `KvIsReplay`, `AnswersAgree`, `LinearizableReads`, `ConfirmedReadsServed` | a server that leads, has won a term without knowing that an entry it holds is committed, has been deposed without knowing it, is ahead with entries that will be overwritten, or lags behind a snapshot; batches of two events, retried writes, one crash between any two steps |
| replication | `CatchesUp` | a follower with entries of its own that must go, behind a leader whose log is compacted at any time; queues of two messages, one fault (a broken connection or a crash) |
| storage | `IsVersionedMap`, `GetFindsNewest`, `TablesDurable`, `DirectoryCurrent`, `WritesReturn` | batches and deletions through three levels with two snapshots, one crash between any two changes of the disk |
| stale_read | `LinearizableReads` **violated** | finding 1 |
| leader_prevote | `LeaderRefusesPreVotes` **violated** | finding 2 |
| server_restart | `RestartFindsLog` **violated** | finding 3 |
| storage_twice | `IsVersionedMap` **violated** | finding 4: the run `storage` with two crashes |

All runs that pass are exhaustive for their bounds. Deadlock is checked in
`replication` and `storage`, where something can always happen. In the others
the model stops when its bounds are used up and every message has been handled.

`IsVersionedMap` is the refinement: every behaviour of `Storage` is one of
`VersionedMap`, with `shown` as the mapping. `AnswersAgree` compares each answer
with what the first copy of the command returns when the committed entries are
applied one by one, and `KvIsReplay` compares the map and the session table with
that same replay.

`LeaderCompleteness` is about a leader whose majority has not moved on to a newer
term. It does not hold of every leader, nor of the newest one there is: a leader
that was left behind is the newest as soon as its successor has crashed.

Reads at the server. `InheritingInit` is the start in which reads are confirmed:
the server has won term 2 and holds a write that the old leader applied, but has
applied only the entry before it. A batch can then commit that write and the
server's own first entry and take a read, whose index is above `applied`; the
round completes in a later batch, and the read is answered. In `ReadingInit` the
server is deposed: its read must never be answered. `ConfirmedReadsServed` says
that the code's second safeguard, the wait in `ready_reads` until
`idx <= applied` (`core.rs:399`), is never needed by a server with peers: each
`Output` hands over everything up to the commit index, so whatever was committed
when a read was taken is applied before its round can complete. (A server that is
its own quorum confirms a read at once, in the batch that commits its index; the
same `Output` still applies before it serves. It is not one of the runs.) So
dropping that comparison alone changes no answer. If `applied` lagged, for
example because only client writes advanced it, reads would wait there; this is
the mutant.

`GetFindsNewest` needs blocks of two versions: with snapshots open, compaction
leaves tables whose first block starts with key 1 and ends with the newest
version of key 2, and whose second block starts with an older version of key 2.
A search that began at the block starting with the key would miss the newest one
(`sstable.rs:257-265`).

Bounds, all of them in the guards of actions or in `Process`:

- `Elections[t]`: who may start an election for term `t`. Two terms are enough
  for two leaders to compete, three or four for an old entry to be overwritten
  after it was replicated.
- `Links`: the pairs of servers between which messages may arrive. In `lagging`
  only `s3` and `s2` talk, so the leader's other follower stays silent.
- `MaxIndex`: no client proposal at or beyond it; the no-op of a new leader is
  not bounded, so logs get longer than that.
- `MaxBatch`, `MaxInflight`, `SnapshotEvery`, `PeerQueue`, `BlockLimit`,
  `MemLimit`, `L0Trigger`, `LevelBase`, `TargetTable`: small values of the code's
  own configuration, so that windows and queues fill up, batches end, blocks
  split, levels overflow and compaction happens.
- `Budget`: events per batch, two where the code takes up to 513: enough for a
  batch to hold a proposal and the message that deposes the proposer, or an
  installed snapshot and older commits; three in `server_restart`.
- `MaxReads`, `MaxWrites`, `MaxRestarts`, `MaxHeartbeats`, `MaxFaults`, `MaxSeq`,
  `MaxCrashes`: how often each may happen. Six operations are
  enough for tables on three levels of the storage engine.

Fairness, where a liveness property needs it:

- `WritesReturn`: the thread that writes goes on with its flush and compactions
  (weak fairness of `Work`). Nothing is assumed of clients or crashes.
- `CatchesUp`: ticks go on at the leader (heartbeats, snapshot time-out), a
  connection delivers what is written to it, and of infinitely many attempts to
  dial some succeed. These are the timers of `kvd` and TCP to a peer that is up.
  One more assumption is needed: it is not the case that every time an answer is
  to be queued the queue is full (strong fairness of a delivery while the other
  queue has room). Without it TLC finds the loop in which heartbeats fill the
  queue again before each answer; with 1024 places that needs a pipe that stays
  full for good. The other servers are down, so the leader commits only with
  this follower. The decay of the window (`node.rs:516`) is not needed for the
  property, which would not notice if it were gone: the answers to heartbeats
  open the window by themselves.

Each property of a passing run was checked against a mutated definition (the
operators commented "Mutant of ...", listed in `PROJECT.json`): TLC then finds it
violated.

### Findings

1. *A stale echo confirms a read.* The number of a read round restarts at 0 in
   each term, and a follower that rejects an old message echoes that message's
   round under its own, newer term. A server that led, crashed and leads again
   can take such an echo for the confirmation of a new round, and serve a read
   that misses entries a third leader has committed (`node.rs:879`, against
   `node.rs:404` and the repository's README, which call the read linearizable).
2. *A leader grants pre-votes against itself.* `handle_pre_vote` refuses while
   the node has heard from a leader recently, by its own election counter. A
   leader does not advance or reset that counter, so one that was elected late
   keeps granting for its whole term (`node.rs:691`, against the comment above it).
3. *Group commit leaves an overwritten entry on disk.* A leader appends entries 3
   and 4 and, in the same batch of events, is deposed and receives the new
   leader's entry 3. `persist` gets `[3, 4, 3']`, deletes only what was stored
   before, writes all three, and records 3 as the last index: the key of entry 4
   stays, and the next start loads it behind `3'` (`logstore.rs:116`, against the
   comment above `persist`).
4. *A second crash forgets every table.* After a crash between the removal of
   `MANIFEST` and the rename, `MANIFEST.tmp` is the only copy. It is read but not
   put in place, and the next save truncates it first; a crash right then leaves
   no manifest at all (`manifest.rs:74`, against `manifest.rs:6-8` and
   `db.rs:275-277`).

Met while modelling, and not runs of their own:

- An output with an installed snapshot and entries committed before it makes
  `applied` go backwards for a while (`core.rs:363`). The map is right again at
  the end of the batch, because the session table recognises the entries it has
  already seen; `KvIsReplay` covers it for commands that belong to a session.
- A batch that appends entries and then installs a snapshot writes those entries
  behind the snapshot. They can then fail to follow it without a gap. `RaftLog::new`
  has a `debug_assert` for that: a debug build does not start, a release build
  does, with entries whose indexes are not their places. `Restart` follows the
  release build; such batches are not `clean`.
- The client's documentation says that `seq` advances only after a definitive
  response (`client/src/lib.rs:8-9`); `put`, `delete` and `cas` advance it at
  every call. The model follows the code.

## 4. What is proved

The theorems hold for every set of servers, every value of the constants and
without the bounds of the runs: they use only the named assumptions of `RaftNode`
and `Raft` (a finite set of servers, initial voters among them, positive window
and batch sizes, typed bounds).

**`TypeCorrect`** (`RaftProofs`): `Spec => [](TypeOK /\ IndexesLineUp)`. Indexes
are places: an entry's index is where it stands, in logs, messages, snapshots
and state machines; the commit point lies between the base and the end of the
log; the host has applied exactly what is committed. The conjunction is
inductive. Within one event it is not: while a handler runs, entries are queued
that the host has not applied yet. `WF(n, a)` in `RaftNodeProofs` is the
invariant of a node *in the middle of an event* whose host has applied `a`
entries: the queue continues at `a`, or at an installed snapshot, and ends at
the commit point. Each operator of `RaftNode` and each handler of `RaftStep` has
a lemma that it keeps `WF`; `ProcessOK` turns it back into the invariant of the
host. This covers membership changes, compaction, snapshots and crashes.

**`OneLeaderPerTerm`** (`RaftElectionProofs`): with a fixed membership
(`ConfChanges = {}`), `Spec => []ElectionSafety`. `ElectionSafety` is not
inductive. The strengthening `ElectInv` speaks of `Backs(q, i, t)`: q is at term
t with its vote for i or past t, every grant q ever sent in t went to i, and q is
i or such a grant exists. It says that a candidate or leader counts only votes
of servers that back it, that a grant on the network means its sender backs the
receiver, and that the sender of a leader's message is backed by a majority.
Backing is never undone, not even by a crash, because term and vote are durable;
two majorities share a server, and no server backs two in one term.
`RaftVotesProofs` shows what one event can
do to votes: a *calm* event leaves term, vote and role alone; a *mild* one may
raise the term and drop the role; else the vote goes to one candidate or a
counted majority makes a leader.

Only model-checked: log matching, leader completeness, state machine safety, the
read and the snapshot properties, everything under membership changes except
`TypeCorrect`, the server, and the storage engine with its refinement. The two
liveness properties stay with TLC, since fairness is beyond the prover.
`Storage` and `SsTable` use folds and sorting from the community modules, and the
runs of `Server` go through the same `RaftNode` operators that `TypeCorrect` is
proved about.

## 5. What is not modelled, and why

- **`lease_valid`** (`node.rs:170-196`). It compares tick counters, and these
  models have no clock. Read from the code it is weaker than its comment says
  even without clock drift: replies are stamped when they arrive, not when the
  heartbeat they answer was sent, and a vote is granted whatever the voter has
  heard from a leader, so another leader can exist while the lease is still
  valid. A model needs a common clock and per-node counters.
- **Two membership changes at once.** `propose_conf_change` does not wait for an
  entry of the leader's own term; whether two changes of different leaders can
  have disjoint quorums needs at least four servers, beyond exhaustive checking
  with these message sets.
- **An abstract replicated log** that `Raft` implements, with log matching and
  state machine safety as theorems for a fixed membership: the next step for the
  proofs. A theorem about `LogStore` (the durable log after an in-order batch is
  the log in memory) is another.
- **The linearizability search** (`wgl.rs`) and the simulator's random schedule:
  test tools. What they test for is stated here as properties.
- **`SyncPolicy::Never`**: used for the state machine's `Db`, which is rebuilt
  from the Raft snapshot and log at every start.
- **The file system** is assumed to keep remove, rename and writes in order and
  to make a file's data durable at `sync_all`. A crash in the middle of deleting
  dead tables leaves orphans only, so the deletion is one step.
- **I/O errors** other than a crash: the server ends on the first one
  (`expect`); a `Db` that goes on after an error has no user here.
- **Client routing and back-off**: they choose whom to ask and when, which the
  model leaves open. The client accept loop only turns frames into
  events.
- Byte formats, checksums, metrics, command lines, random numbers, benchmarks:
  no state that these properties depend on.
