--------------------------- MODULE RaftHistories ---------------------------
(***************************************************************************)
(* Histories of a cluster: scripts of events, carried out by the handlers  *)
(* themselves, so that the states they lead to are reachable.  TLC runs    *)
(* that start in the middle of a history compute their initial states here.*)
(* A cluster state is a node for every server, with all it has sent and    *)
(* was not lost in its Output.                                             *)
(***************************************************************************)
EXTENDS RaftStep

Fresh == [i \in Server |-> NewNode(i, 0, None, NoSnapshot, <<>>)]

\* A message by its type, its way and the log index it is about.
About(m) ==
  <<m.type, m.from, m.to,
    IF m.type = "AppendEntries" THEN m.prevIndex
    ELSE IF m.type = "AppendEntriesResp" /\ m.success THEN m.matchIndex ELSE 0>>

Starts(i) == [do |-> "timeout", at |-> i]
Proposes(i, v) == [do |-> "propose", at |-> i, value |-> v]
AsksToRead(i, rid) == [do |-> "read", at |-> i, rid |-> rid]
Restarts(i) == [do |-> "restart", at |-> i]
Gets(type, from, to, idx) == [do |-> "step", what |-> <<type, from, to, idx>>]
\* Every message i has sent is lost, but for those that `kept` describes.
Loses(i, kept) == [do |-> "lose", at |-> i, kept |-> kept]

\* What an event makes of node n.
Local(n, e) ==
  CASE e.do = "timeout"  -> ElectionTimeout(n)
    [] e.do = "propose"  -> Propose(n, e.value)
    [] e.do = "read"     -> ReadIndex(n, e.rid)
    [] e.do = "restart"  -> [NewNode(n.id, n.term, n.votedFor, n.snapshot, n.log.entries)
                               EXCEPT !.out.messages = n.out.messages]
    [] e.do = "lose"     -> [TakeOutput(n) EXCEPT !.out.messages =
                               {m \in n.out.messages : About(m) \in e.kept}]

\* The cluster states an event may lead to from ns.  A message is delivered
\* unless its sender has moved on to another term (pre-votes are about a term to
\* come), an AppendEntries only when it has entries.
After(ns, e) ==
  IF e.do # "step" THEN {[ns EXCEPT ![e.at] = Local(@, e)]}
  ELSE {[ns EXCEPT ![m.to] = Step(@, m)] :
          m \in {x \in ns[e.what[2]].out.messages :
                   /\ About(x) = e.what
                   /\ x.type \in {"PreVote", "PreVoteResp"} \/ x.term = ns[x.from].term
                   /\ x.type = "AppendEntries" => x.entries # <<>>}}

\* The cluster states a script of events leads to.
History(script) ==
  LET h[k \in 0 .. Len(script)] ==
        IF k = 0 THEN {Fresh} ELSE UNION {After(ns, script[k]) : ns \in h[k - 1]}
  IN  h[Len(script)]

\* c wins an election with the vote of v.
Elects(c, v) == <<Starts(c), Gets("RequestVote", c, v, 0),
                  Gets("RequestVoteResp", v, c, 0)>>

\* The entry at idx reaches v from leader l, and the acknowledgement l.
Replicates(l, v, idx) == <<Gets("AppendEntries", l, v, idx - 1),
                           Gets("AppendEntriesResp", v, l, idx)>>
=============================================================================
