---------------------------- MODULE Replication ----------------------------
(***************************************************************************)
(* A leader that stays leader brings a follower up to date, over the pipes *)
(* of crates/server/src/net.rs: one queue and one connection each way.  A  *)
(* full queue drops what is sent, a pipe without a connection drops what   *)
(* it takes from its queue, a connection that breaks loses what it holds.  *)
(* The other servers are down; nothing reaches them.                       *)
(*                                                                         *)
(* An event and its whole Output are one step, as in Raft.  The log may be *)
(* compacted after any step: snapshot_every can have any value.            *)
(***************************************************************************)
EXTENDS RaftStep

CONSTANTS
  Lead, Follow,  \* the leader, the follower
  Values,        \* client commands
  PeerQueue,     \* PEER_QUEUE, the messages a pipe holds (1024 in the code)
  MaxIndex,      \* bound: no client proposal beyond this log index
  MaxFaults      \* bound: broken connections and crashes of the follower

ASSUME EndsAssumption == Lead \in Server /\ Follow \in Server /\ Lead # Follow

Ends == {Lead, Follow}

VARIABLES
  node,    \* node[i]: the RaftNode of server i
  queue,   \* queue[i]: what i has sent to the other end, in order, and that
           \* the other end has not received
  up,      \* up[i]: i's pipe has a connection
  faults,  \* broken connections and crashes so far
  last     \* history: the last step, <<action, server>>, of those of Fairness

vars == <<node, queue, up, faults, last>>

Other == <<"Other", Lead>>

OtherEnd(i) == IF i = Lead THEN Follow ELSE Lead

\* No event here sends more than one message to a peer.
TrySend(q, ms) ==
  IF ms = {} \/ Len(q) >= PeerQueue THEN q ELSE Append(q, CHOOSE m \in ms : TRUE)

\* An event leaves server i as n and the queues as `rest`; i's Output is processed.
Settle(i, n, rest) ==
  /\ node' = [node EXCEPT ![i] = TakeOutput(n)]
  /\ queue' = [rest EXCEPT ![i] = TrySend(@, {m \in n.out.messages : m.to = OtherEnd(i)})]

-----------------------------------------------------------------------------
Heartbeat ==
  /\ \E n \in {BroadcastAppend(node[Lead])} : Settle(Lead, n, queue)
  /\ last' = <<"Heartbeat", Lead>>
  /\ UNCHANGED <<up, faults>>

SnapshotSent == \E p \in DOMAIN node[Lead].prs : node[Lead].prs[p].snap = "sent"

\* election_tick_min ticks have passed since a snapshot was sent to p.
SnapshotOverdue ==
  \E p \in DOMAIN node[Lead].prs :
    /\ node[Lead].prs[p].snap = "sent"
    /\ node' = [node EXCEPT ![Lead].prs[p].snap = "overdue"]
    /\ last' = <<"SnapshotOverdue", Lead>>
    /\ UNCHANGED <<queue, up, faults>>

ClientPropose(v) ==
  /\ LastIndex(node[Lead].log) < MaxIndex
  /\ \E n \in {Propose(node[Lead], v)} : Settle(Lead, n, queue)
  /\ last' = Other
  /\ UNCHANGED <<up, faults>>

CompactAt(i) ==
  /\ CanCompact(node[i], node[i].commit)
  /\ node' = [node EXCEPT ![i] = Compact(@, @.commit, <<>>)]
  /\ last' = Other
  /\ UNCHANGED <<queue, up, faults>>

-----------------------------------------------------------------------------
(* The pipes. *)

\* The other end of i's pipe handles the first message.
Arrive(i) ==
  \E j \in {OtherEnd(i)}, m \in {Head(queue[i])} :
    \E n \in {Step(node[j], m)} : Settle(j, n, [queue EXCEPT ![i] = Tail(@)])

\* The message is written to the connection and read at the other end.
Deliver(i) ==
  /\ up[i] /\ queue[i] # <<>>
  /\ Arrive(i)
  /\ last' = <<"Deliver", i>>
  /\ UNCHANGED <<up, faults>>

\* There is no connection: the pipe dials the peer, and succeeds, ...
Dial(i) ==
  /\ ~up[i] /\ queue[i] # <<>>
  /\ up' = [up EXCEPT ![i] = TRUE]
  /\ Arrive(i)
  /\ last' = <<"Dial", i>>
  /\ UNCHANGED faults

\* ... or it fails or has tried too recently, and the message is dropped.
Drop(i) ==
  /\ ~up[i] /\ queue[i] # <<>>
  /\ queue' = [queue EXCEPT ![i] = Tail(@)]
  /\ last' = Other
  /\ UNCHANGED <<node, up, faults>>

\* q without the messages that a connection had taken and not delivered.
Lost(q) == {SubSeq(q, k + 1, Len(q)) : k \in 0 .. Len(q)}

Break(i) ==
  /\ up[i] /\ faults < MaxFaults
  /\ faults' = faults + 1
  /\ up' = [up EXCEPT ![i] = FALSE]
  /\ \E q \in Lost(queue[i]) : queue' = [queue EXCEPT ![i] = q]
  /\ last' = Other
  /\ UNCHANGED node

\* The follower crashes and restarts from what it has persisted.
Restart ==
  /\ faults < MaxFaults
  /\ faults' = faults + 1
  /\ node' = [node EXCEPT ![Follow] =
                NewNode(Follow, @.term, @.votedFor, @.snapshot, @.log.entries)]
  /\ up' = [i \in Ends |-> FALSE]
  /\ \E q \in Lost(queue[Lead]) : queue' = [queue EXCEPT ![Lead] = q, ![Follow] = <<>>]
  /\ last' = Other

Next ==
  \/ Heartbeat
  \/ SnapshotOverdue
  \/ \E v \in Values : ClientPropose(v)
  \/ Restart
  \/ \E i \in Ends : \/ CompactAt(i)
                     \/ Deliver(i)
                     \/ Dial(i)
                     \/ Drop(i)
                     \/ Break(i)

\* The leader's ticks go on, a connection delivers what is written to it, and of
\* infinitely many attempts to dial some succeed.  A queue is not full every time
\* that an answer is put into it.  (The actions are named by `last`: TLC need not
\* find out which of them a step can be, nor when they are enabled.)
Fairness ==
  /\ WF_last(last' = <<"Heartbeat", Lead>>)
  /\ WF_last(SnapshotSent /\ last' = <<"SnapshotOverdue", Lead>>)
  /\ \A i \in Ends :
       /\ WF_last(up[i] /\ queue[i] # <<>> /\ last' = <<"Deliver", i>>)
       /\ SF_last(/\ up[i] /\ queue[i] # <<>> /\ Len(queue[OtherEnd(i)]) < PeerQueue
                  /\ last' = <<"Deliver", i>>)
       /\ SF_last(~up[i] /\ queue[i] # <<>> /\ last' = <<"Dial", i>>)

-----------------------------------------------------------------------------
\* The follower knows all the leader's log to be committed.
CaughtUp == node[Follow].commit = LastIndex(node[Lead].log)

\* Whatever was dropped or lost, the leader's whole log is in the end committed,
\* and the follower knows it.  A snapshot that was lost is sent again ("Waiting
\* forever would wedge this follower permanently", node.rs), and a window that is
\* full of lost messages still lets heartbeats through, whose answers open it.
CatchesUp == []<>CaughtUp
=============================================================================
