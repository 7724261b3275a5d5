----------------------------- MODULE RaftProofs -----------------------------
(***************************************************************************)
(* Spec => [](TypeOK /\ IndexesLineUp), for every set of servers, every set of*)
(* values and every bound: compaction, restarts and the host's process_output*)
(* on top of the handlers of RaftStepProofs.                                *)
(***************************************************************************)
EXTENDS RaftStepProofs

\* Folding the head of a log into its base leaves the rest in place.
LEMMA CompactLogOK ==
  ASSUME NEW log \in Logs, Contiguous(log.entries, log.snapIndex),
         NEW idx \in Nat, log.snapIndex < idx, idx <= LastIndex(log), NEW t \in Nat
  PROVE  /\ CompactLog(log, idx, t) \in Logs
         /\ CompactLog(log, idx, t).snapIndex = idx
         /\ Contiguous(CompactLog(log, idx, t).entries, idx)
         /\ LastIndex(CompactLog(log, idx, t)) = LastIndex(log)
<1> DEFINE lo == idx - log.snapIndex + 1
           rest == SubSeq(log.entries, lo, Len(log.entries))
           r == CompactLog(log, idx, t)
<1>1. /\ log.snapIndex \in Nat /\ log.entries \in Seq(Entries) /\ Len(log.entries) \in Nat
      /\ idx <= log.snapIndex + Len(log.entries)
  BY LogFields DEF LastIndex
<1>2. /\ lo \in Int /\ 1 <= lo /\ Len(log.entries) \in Int
      /\ Len(log.entries) <= Len(log.entries)
      /\ log.snapIndex + lo - 1 = idx
      /\ idx + (IF lo <= Len(log.entries) THEN Len(log.entries) - lo + 1 ELSE 0)
           = log.snapIndex + Len(log.entries)
  <2> DEFINE base == log.snapIndex
             len == Len(log.entries)
  <2>1. base \in Nat /\ len \in Nat /\ base < idx /\ idx <= base + len
    BY <1>1
  <2> HIDE DEF base, len
  <2>2. /\ idx - base + 1 \in Int /\ 1 <= idx - base + 1 /\ len <= len /\ len \in Int
        /\ base + (idx - base + 1) - 1 = idx
        /\ idx + (IF idx - base + 1 <= len THEN len - (idx - base + 1) + 1 ELSE 0)
             = base + len
    BY <2>1
  <2> QED BY <2>2 DEF base, len
<1>3. r = [snapIndex |-> idx, snapTerm |-> t, entries |-> rest]
  BY DEF CompactLog
<1> HIDE DEF lo
<1>4. /\ rest \in Seq(Entries) /\ Contiguous(rest, log.snapIndex + lo - 1)
      /\ Len(rest) = IF lo <= Len(log.entries) THEN Len(log.entries) - lo + 1 ELSE 0
  BY <1>1, <1>2, ContiguousSlice
<1> HIDE DEF rest, r
<1>5. r \in Logs /\ r.snapIndex = idx /\ r.entries = rest
  BY <1>3, <1>4 DEF Logs
<1>6. Contiguous(r.entries, idx)
  BY <1>2, <1>4, <1>5
<1>7. LastIndex(r) = LastIndex(log)
  BY <1>2, <1>4, <1>5 DEF LastIndex
<1> QED BY <1>5, <1>6, <1>7 DEF r

\* Without membership changes every node uses the initial voters, at any index;
\* in any case the voters are a configuration.
LEMMA VotersFixed ==
  ASSUME NEW n, NodeOK(n), NEW idx
  PROVE  VotersAt(n, idx) \in Configurations
<1>1. n.log \in Logs /\ n.snapshot \in Snapshots
  BY DEF NodeOK, NodesOver
<1>2. CASE ConfChanges # {}
  BY <1>2, VotersType DEF Configurations
<1>3. CASE ConfChanges = {}
  <2>1. n.snapshot.voters = InitialVoters /\ n.log.entries \in Seq(Entries)
    BY <1>1, <1>3 DEF Snapshots, Configurations, Logs
  <2>2. \A k \in 1 .. Len(n.log.entries) : n.log.entries[k].kind \in {"Noop", "Normal"}
    <3>1. \A k \in 1 .. Len(n.log.entries) : n.log.entries[k] \in Entries
      BY <2>1, ElementOfSeq
    <3> QED BY <1>3, <3>1 DEF Entries, Kinds
  <2>3. \A v : {k \in 1 .. Len(n.log.entries) :
                 /\ n.log.entries[k].kind \in ConfKinds
                 /\ n.log.entries[k].arg = v
                 /\ n.log.entries[k].index <= idx} = {}
    BY <2>2 DEF ConfKinds
  <2>4. VotersAt(n, idx) = {v \in Server : v \in InitialVoters}
    BY <2>1, <2>3 DEF VotersAt
  <2> QED BY <1>3, <2>4, VotersAssumption DEF Configurations
<1> QED BY <1>2, <1>3

\* compact() at the applied index keeps base, snapshot and commit point in line.
LEMMA CompactOK ==
  ASSUME NEW n, NodeOK(n), NodeLinesUp(n), NEW data \in Seq(Entries),
         Contiguous(data, 0), NEW idx \in Nat, Len(data) = idx, CanCompact(n, idx)
  PROVE  /\ NodeOK(Compact(n, idx, data)) /\ NodeLinesUp(Compact(n, idx, data))
         /\ Compact(n, idx, data).id = n.id
         /\ Compact(n, idx, data).commit = n.commit
<1> DEFINE t == TermAt(n.log, idx)
           log == CompactLog(n.log, idx, t)
           s == [lastIndex |-> idx, lastTerm |-> t, voters |-> VotersAt(n, idx),
                 data |-> data]
           r == Compact(n, idx, data)
<1>1. /\ n.log \in Logs /\ n.commit \in Nat /\ n.log.snapIndex \in Nat
      /\ LastIndex(n.log) \in Nat
  <2>1. n.log \in Logs /\ n.commit \in Nat
    BY DEF NodeOK, NodesOver
  <2> QED BY <2>1, LogFields
<1>2. /\ n.log.snapIndex < idx /\ idx <= n.commit /\ HasTerm(n.log, idx)
      /\ Contiguous(n.log.entries, n.log.snapIndex) /\ n.commit <= LastIndex(n.log)
  BY DEF CanCompact, NodeLinesUp
<1>3. idx \in Int /\ idx <= LastIndex(n.log)
  BY <1>1, <1>2
<1>4. t \in Nat
  BY <1>1, <1>2, <1>3, TermType
<1> HIDE DEF t
<1>5. /\ log \in Logs /\ log.snapIndex = idx /\ Contiguous(log.entries, idx)
      /\ LastIndex(log) = LastIndex(n.log)
  BY <1>1, <1>2, <1>3, <1>4, CompactLogOK
<1>6. s \in Snapshots
  BY <1>4, VotersFixed DEF Snapshots
<1>7. s.lastIndex = idx /\ SnapshotLinesUp(s)
  BY DEF SnapshotLinesUp
<1>8. r = [n EXCEPT !.log = log, !.snapshot = s]
  BY DEF Compact, t
<1> HIDE DEF log, s, r
<1>9. NodeOK(r)
  BY <1>5, <1>6, <1>8 DEF NodeOK, NodesOver
<1>10. r.log = log /\ r.snapshot = s /\ r.commit = n.commit /\ r.id = n.id
  BY <1>8 DEF NodeOK, NodesOver
<1>11. NodeLinesUp(r)
  BY <1>2, <1>5, <1>7, <1>10 DEF NodeLinesUp
<1> QED BY <1>9, <1>10, <1>11 DEF r

\* Taking the output leaves the rest of the node alone.
LEMMA TakeOutputOK ==
  ASSUME NEW n, NodeOK(n), NodeLinesUp(n)
  PROVE  /\ NodeOK(TakeOutput(n)) /\ NodeLinesUp(TakeOutput(n))
         /\ TakeOutput(n).id = n.id /\ TakeOutput(n).commit = n.commit
         /\ TakeOutput(n).out = NoOutput
<1> DEFINE r == TakeOutput(n)
<1>1. NoOutput \in Outputs
  BY VotersAssumption, EmptySeq DEF NoOutput, Outputs, NoSnapshot, Snapshots, Configurations
<1>2. NodeOK(r)
  BY <1>1 DEF NodeOK, NodesOver, TakeOutput
<1>3. /\ r.log = n.log /\ r.snapshot = n.snapshot /\ r.commit = n.commit
      /\ r.out = NoOutput /\ r.id = n.id
  BY DEF NodeOK, NodesOver, TakeOutput
<1> HIDE DEF r
<1>4. NodeLinesUp(r)
  BY <1>3 DEF NodeLinesUp
<1> QED BY <1>2, <1>3, <1>4 DEF r

\* A node whose Output is empty and whose commit point is what the host has
\* applied is well formed.
LEMMA IdleWF ==
  ASSUME NEW n, NEW a \in Nat, NodeOK(n), NodeLinesUp(n), n.out = NoOutput, n.commit = a
  PROVE  WF(n, a)
<1>1. Base(n, a) = a /\ n.out.committed = <<>> /\ n.out.messages = {}
      /\ n.out.snapshot = NoSnapshot
  BY DEF Base, NoOutput, NoSnapshot
<1>2. a = a + Len(<<>>) /\ Contiguous(<<>>, a)
  BY DEF Contiguous
<1>3. SnapshotLinesUp(NoSnapshot)
  BY DEF SnapshotLinesUp, NoSnapshot, Contiguous
<1> QED BY <1>1, <1>2, <1>3 DEF WF, Awaits

\* What process_output hands to the state machine.
LEMMA AppliedOK ==
  ASSUME NEW i \in Server, sm[i] \in Seq(Entries), Contiguous(sm[i], 0),
         NEW n, WF(n, Len(sm[i]))
  PROVE  /\ Applied(i, n.out) \in Seq(Entries)
         /\ Len(Applied(i, n.out)) = n.commit
         /\ Contiguous(Applied(i, n.out), 0)
<1> DEFINE head == IF n.out.snapshot.lastIndex > 0 THEN n.out.snapshot.data ELSE sm[i]
           tail == n.out.committed
           a == Len(sm[i])
<1>1. a \in Nat
  BY LenProperties
<1>2. /\ n.out \in Outputs /\ n.commit \in Nat
  BY <1>1, Fields
<1>3. tail \in Seq(Entries) /\ n.out.snapshot \in Snapshots
      /\ n.out.snapshot.data \in Seq(Entries)
  BY <1>2 DEF Outputs, Snapshots
<1>4. /\ n.commit = Base(n, a) + Len(tail) /\ Contiguous(tail, Base(n, a))
      /\ SnapshotLinesUp(n.out.snapshot)
  BY DEF WF, Awaits
<1>5. head \in Seq(Entries) /\ Len(head) = Base(n, a) /\ Contiguous(head, 0)
  BY <1>3, <1>4 DEF Base, SnapshotLinesUp
<1>6. Applied(i, n.out) = head \o tail
  BY DEF Applied
<1> HIDE DEF head, tail, a
<1>7. 0 + Len(head) = Len(head) /\ Len(head) \in Nat
  BY <1>5, LenProperties
<1>8. Contiguous(tail, 0 + Len(head))
  BY <1>4, <1>5, <1>7
<1>9. /\ head \o tail \in Seq(Entries) /\ Len(head \o tail) = Len(head) + Len(tail)
      /\ Contiguous(head \o tail, 0)
  BY <1>3, <1>5, <1>8, ContiguousConcat
<1> QED BY <1>4, <1>5, <1>6, <1>9

ReadRecords == [floor : Nat, seen : Nat \cup {None}]

\* Filling in served reads keeps the read table a sequence of read records.
LEMMA ServedReads ==
  ASSUME NEW rs \in Seq(ReadRecords), NEW served, NEW c \in Nat
  PROVE  [rid \in DOMAIN rs |-> IF rid \in served THEN [rs[rid] EXCEPT !.seen = c]
                                ELSE rs[rid]] \in Seq(ReadRecords)
<1> DEFINE f == [rid \in DOMAIN rs |-> IF rid \in served THEN [rs[rid] EXCEPT !.seen = c]
                                       ELSE rs[rid]]
<1>1. Len(rs) \in Nat /\ DOMAIN rs = 1 .. Len(rs)
  BY LenProperties
<1>2. \A rid \in DOMAIN rs : rs[rid] \in ReadRecords
  BY <1>1, ElementOfSeq
<1>3. \A rid \in DOMAIN rs : [rs[rid] EXCEPT !.seen = c] \in ReadRecords
  BY <1>2 DEF ReadRecords
<1>4. f \in [1 .. Len(rs) -> ReadRecords]
  BY <1>1, <1>2, <1>3
<1> HIDE DEF f
<1>5. f \in UNION {[1 .. k -> ReadRecords] : k \in Nat}
  BY <1>1, <1>4, Zenon
<1> QED BY <1>5, SeqDef, Zenon DEF f

\* The host's process_output turns a well-formed node back into a good state.
LEMMA ProcessOK ==
  ASSUME TypeOK, IndexesLineUp, NEW i \in Server,
         NEW n, WF(n, Len(sm[i])), n.id = i,
         NEW rs \in Seq(ReadRecords), Process(i, n, rs),
         heartbeats' \in Nat, restarts' \in Nat
  PROVE  TypeOK' /\ IndexesLineUp'
<1> DEFINE applied == Applied(i, n.out)
           since == Len(n.out.committed)
                      + IF n.out.snapshot.lastIndex > 0 THEN 0 ELSE sinceSnap[i]
           due == since >= SnapshotEvery
           served == {r.rid : r \in n.out.readStates}
           after == IF due /\ CanCompact(n, Len(applied))
                      THEN Compact(n, Len(applied), applied) ELSE n
           r == TakeOutput(after)
<1>1. /\ node' = [node EXCEPT ![i] = r]
      /\ msgs' = msgs \cup {m \in n.out.messages : <<m.from, m.to>> \in Links}
      /\ sm' = [sm EXCEPT ![i] = applied]
      /\ sinceSnap' = [sinceSnap EXCEPT ![i] = IF due THEN 0 ELSE since]
      /\ chosen' = IF Len(applied) > Len(chosen) THEN applied ELSE chosen
      /\ reads' = [rid \in DOMAIN rs |->
                     IF rid \in served THEN [rs[rid] EXCEPT !.seen = Len(applied)]
                                       ELSE rs[rid]]
  BY DEF Process
<1>2. /\ sm \in [Server -> Seq(Entries)] /\ sm[i] \in Seq(Entries) /\ Contiguous(sm[i], 0)
      /\ Len(sm[i]) \in Nat
  BY LenProperties DEF TypeOK, IndexesLineUp
<1>3. applied \in Seq(Entries) /\ Len(applied) = n.commit /\ Contiguous(applied, 0)
  BY <1>2, AppliedOK
<1>4. n.commit \in Nat /\ n.out \in Outputs /\ NodeOK(n) /\ NodeLinesUp(n)
  BY <1>2, Fields DEF WF
<1>5. since \in Nat
  <2>1. sinceSnap[i] \in Nat /\ Len(n.out.committed) \in Nat
    BY <1>4, LenProperties DEF TypeOK, Outputs
  <2> QED BY <2>1
<1> HIDE DEF applied, since, due, served
<1>6. /\ NodeOK(after) /\ NodeLinesUp(after) /\ after.id = i /\ after.commit = n.commit
  <2>1. CASE due /\ CanCompact(n, Len(applied))
    <3>1. after = Compact(n, Len(applied), applied)
      BY <2>1
    <3>2. Len(applied) \in Nat
      BY <1>3, <1>4
    <3> HIDE DEF after
    <3> QED BY <1>3, <1>4, <2>1, <3>1, <3>2, CompactOK
  <2>2. CASE ~(due /\ CanCompact(n, Len(applied)))
    BY <1>4, <2>2
  <2> QED BY <2>1, <2>2
<1> HIDE DEF after
<1>7. /\ NodeOK(r) /\ NodeLinesUp(r) /\ r.id = i /\ r.commit = n.commit /\ r.out = NoOutput
  BY <1>6, TakeOutputOK
<1> HIDE DEF r
<1>8. node' = [j \in Server |-> IF j = i THEN r ELSE node[j]]
  BY <1>1 DEF TypeOK
<1>9. \A j \in Server : node'[j] = IF j = i THEN r ELSE node[j]
  BY <1>8
<1>10. \A j \in Server : sm'[j] = IF j = i THEN applied ELSE sm[j]
  BY <1>1, <1>2
<1>11. /\ msgs' \in SUBSET Messages /\ \A m \in msgs' : MessageLinesUp(m)
  <2>1. n.out.messages \in SUBSET Messages /\ \A m \in n.out.messages : MessageLinesUp(m)
    BY <1>4 DEF Outputs, WF
  <2> QED BY <1>1, <2>1 DEF TypeOK, IndexesLineUp
<1>12. TypeOK'
  <2>1. node' = [j \in Server |-> node'[j]]
    BY <1>8
  <2>2. \A j \in Server : NodeOK(node'[j]) /\ node'[j].id = j /\ node'[j].out = NoOutput
    BY <1>7, <1>9 DEF TypeOK
  <2>3. sm' \in [Server -> Seq(Entries)]
    BY <1>1, <1>2, <1>3
  <2>4. sinceSnap' \in [Server -> Nat]
    BY <1>1, <1>5 DEF TypeOK
  <2>5. chosen' \in Seq(Entries)
    BY <1>1, <1>3 DEF TypeOK
  <2>6. reads' \in Seq(ReadRecords)
    <3>1. Len(applied) \in Nat
      BY <1>3, <1>4
    <3>2. [rid \in DOMAIN rs |->
             IF rid \in served THEN [rs[rid] EXCEPT !.seen = Len(applied)]
                               ELSE rs[rid]] \in Seq(ReadRecords)
      BY <3>1, ServedReads, Zenon
    <3> QED BY <1>1, <3>2, Zenon
  <2> QED BY <1>11, <2>1, <2>2, <2>3, <2>4, <2>5, <2>6 DEF TypeOK, ReadRecords
<1>13. IndexesLineUp'
  <2>1. \A j \in Server : NodeLinesUp(node'[j]) /\ Len(sm'[j]) = node'[j].commit
                          /\ Contiguous(sm'[j], 0)
    BY <1>3, <1>7, <1>9, <1>10 DEF IndexesLineUp
  <2> QED BY <1>11, <2>1 DEF IndexesLineUp
<1> QED BY <1>12, <1>13

\* The inductive invariant.
Good == TypeOK /\ IndexesLineUp

\* Between two events every node is well formed for what its host has applied.
LEMMA NodeWF ==
  ASSUME Good, NEW i \in Server
  PROVE  /\ Len(sm[i]) \in Nat /\ WF(node[i], Len(sm[i])) /\ node[i].id = i
         /\ node[i].out.committed = <<>> /\ reads \in Seq(ReadRecords)
<1>1. sm[i] \in Seq(Entries) /\ Len(sm[i]) \in Nat
  BY LenProperties DEF Good, TypeOK
<1>2. /\ NodeOK(node[i]) /\ NodeLinesUp(node[i]) /\ node[i].out = NoOutput
      /\ node[i].commit = Len(sm[i]) /\ node[i].id = i /\ reads \in Seq(ReadRecords)
  BY DEF Good, TypeOK, IndexesLineUp, ReadRecords
<1>3. WF(node[i], Len(sm[i]))
  BY <1>1, <1>2, IdleWF
<1> QED BY <1>1, <1>2, <1>3 DEF NoOutput

\* An event whose handler keeps the node well formed keeps the state good.
LEMMA EventOK ==
  ASSUME Good, NEW i \in Server, NEW n, WF(n, Len(sm[i])), n.id = node[i].id,
         Event(i, n)
  PROVE  Good'
<1>1. Process(i, n, reads) /\ heartbeats' \in Nat /\ restarts' \in Nat
  BY DEF Event, Good, TypeOK
<1>2. reads \in Seq(ReadRecords) /\ n.id = i
  BY NodeWF
<1> QED BY <1>1, <1>2, ProcessOK DEF Good

\* RaftNode::new makes a node that lines up, from a snapshot and entries that do.
LEMMA NewNodeOK ==
  ASSUME NEW i \in Server, NEW t \in Nat, NEW v \in Server \cup {None},
         NEW s \in Snapshots, SnapshotLinesUp(s),
         NEW es \in Seq(Entries), Contiguous(es, s.lastIndex)
  PROVE  /\ NodeOK(NewNode(i, t, v, s, es)) /\ NodeLinesUp(NewNode(i, t, v, s, es))
         /\ NewNode(i, t, v, s, es).id = i /\ NewNode(i, t, v, s, es).out = NoOutput
         /\ NewNode(i, t, v, s, es).commit = s.lastIndex
<1> DEFINE log == [snapIndex |-> s.lastIndex, snapTerm |-> s.lastTerm, entries |-> es]
           r == NewNode(i, t, v, s, es)
<1>1. NoOutput \in Outputs
  BY VotersAssumption, EmptySeq DEF NoOutput, Outputs, NoSnapshot, Snapshots, Configurations
<1>2. s.lastIndex \in Nat /\ s.lastTerm \in Nat
  BY DEF Snapshots
<1>3. log \in Logs /\ log.snapIndex = s.lastIndex /\ log.entries = es
  BY <1>2 DEF Logs
<1>4. s.lastIndex <= LastIndex(log) /\ s.lastIndex <= s.lastIndex
  BY <1>2, <1>3, LogFields
<1> HIDE DEF log
<1>5. NodeOK(r)
  <2>1. NoProgress \in [{} -> ProgressRecords] /\ DOMAIN NoProgress = {}
    BY DEF NoProgress
  <2> QED BY <1>1, <1>2, <1>3, <2>1 DEF NodeOK, NodesOver, NewNode, log
<1>6. /\ r.log = log /\ r.snapshot = s /\ r.commit = s.lastIndex /\ r.id = i
      /\ r.out = NoOutput
  BY DEF NewNode, log
<1> HIDE DEF r
<1>7. NodeLinesUp(r)
  BY <1>3, <1>4, <1>6 DEF NodeLinesUp
<1> QED BY <1>5, <1>6, <1>7 DEF r

\* The initial state is good.
LEMMA InitGood == Init => Good
<1> SUFFICES ASSUME Init PROVE Good
  OBVIOUS
<1>1. /\ NoSnapshot \in Snapshots /\ SnapshotLinesUp(NoSnapshot)
      /\ NoSnapshot.lastIndex = 0
  BY VotersAssumption, EmptySeq
     DEF NoSnapshot, Snapshots, Configurations, SnapshotLinesUp, Contiguous
<1>2. <<>> \in Seq(Entries) /\ Contiguous(<<>>, 0) /\ Len(<<>>) = 0
      /\ Contiguous(<<>>, NoSnapshot.lastIndex)
  BY <1>1, EmptySeq DEF Contiguous
<1>3. ASSUME NEW i \in Server
      PROVE  /\ NodeOK(node[i]) /\ NodeLinesUp(node[i]) /\ node[i].id = i
             /\ node[i].out = NoOutput /\ node[i].commit = 0
  <2> DEFINE zero == 0
             empty == <<>>
             nobody == None
             r == NewNode(i, zero, nobody, NoSnapshot, empty)
  <2>1. node[i] = r
    BY DEF Init
  <2>2. /\ zero \in Nat /\ nobody \in Server \cup {None} /\ empty \in Seq(Entries)
        /\ Contiguous(empty, NoSnapshot.lastIndex)
    BY <1>2
  <2> HIDE DEF zero, empty, nobody
  <2>3. /\ NodeOK(r) /\ NodeLinesUp(r) /\ r.id = i /\ r.out = NoOutput
        /\ r.commit = NoSnapshot.lastIndex
    BY <1>1, <2>2, NewNodeOK
  <2> HIDE DEF r
  <2> QED BY <1>1, <2>1, <2>3
<1>4. TypeOK
  <2>1. node = [i \in Server |-> node[i]]
    BY DEF Init
  <2>2. /\ reads \in Seq([floor : Nat, seen : Nat \cup {None}])
    BY EmptySeq DEF Init
  <2>3. /\ msgs \in SUBSET Messages /\ sm \in [Server -> Seq(Entries)]
        /\ sinceSnap \in [Server -> Nat] /\ chosen \in Seq(Entries)
        /\ heartbeats \in Nat /\ restarts \in Nat
    BY <1>2 DEF Init
  <2> QED BY <1>3, <2>1, <2>2, <2>3 DEF TypeOK
<1>5. IndexesLineUp
  BY <1>2, <1>3 DEF IndexesLineUp, Init
<1> QED BY <1>4, <1>5 DEF Good

\* The election timer alone does not matter to well-formedness.
LEMMA QuietWF ==
  ASSUME NEW n, NEW a \in Nat, WF(n, a)
  PROVE  WF([n EXCEPT !.quiet = TRUE], a) /\ [n EXCEPT !.quiet = TRUE].id = n.id
<1> DEFINE r == [n EXCEPT !.quiet = TRUE]
<1>1. NodeOK(r)
  BY DEF WF, NodeOK, NodesOver
<1>2. /\ r.log = n.log /\ r.snapshot = n.snapshot /\ r.commit = n.commit
      /\ r.out = n.out /\ r.id = n.id
  BY DEF WF, NodeOK, NodesOver
<1> QED BY <1>1, <1>2, Frame DEF WF

\* A snapshot retry falling due keeps a node well formed.
LEMMA OverdueWF ==
  ASSUME NEW n, NEW a \in Nat, WF(n, a), NEW p \in DOMAIN n.prs
  PROVE  /\ WF([n EXCEPT !.prs[p].snap = "overdue"], a)
         /\ [n EXCEPT !.prs[p].snap = "overdue"].id = n.id
<1> DEFINE pr == [n.prs[p] EXCEPT !.snap = "overdue"]
<1>1. pr \in ProgressRecords
  BY Fields DEF ProgressRecords
<1>2. [n EXCEPT !.prs[p].snap = "overdue"] = [n EXCEPT !.prs[p] = pr]
  OBVIOUS
<1> HIDE DEF pr
<1> QED BY <1>1, <1>2, OnePrWF

\* A restart from what was persisted keeps the state good.
LEMMA RestartOK ==
  ASSUME Good, NEW i \in Server, Restart(i)
  PROVE  Good'
<1> DEFINE n == node[i]
           r == NewNode(i, n.term, n.votedFor, n.snapshot, n.log.entries)
<1>1. /\ n.term \in Nat /\ n.votedFor \in Server \cup {None}
      /\ n.snapshot \in Snapshots /\ SnapshotLinesUp(n.snapshot)
      /\ n.log.entries \in Seq(Entries) /\ Contiguous(n.log.entries, n.snapshot.lastIndex)
      /\ n.snapshot.data \in Seq(Entries) /\ n.snapshot.lastIndex \in Nat
  <2>1. /\ NodeOK(n) /\ NodeLinesUp(n)
    BY DEF Good, TypeOK, IndexesLineUp
  <2>2. /\ n.term \in Nat /\ n.votedFor \in Server \cup {None}
        /\ n.snapshot \in Snapshots /\ n.log \in Logs
    BY <2>1 DEF NodeOK, NodesOver
  <2> QED BY <2>1, <2>2, LogFields DEF NodeLinesUp, Snapshots
<1>2. /\ node' = [node EXCEPT ![i] = r] /\ sm' = [sm EXCEPT ![i] = n.snapshot.data]
      /\ sinceSnap' = [sinceSnap EXCEPT ![i] = 0]
      /\ msgs' = msgs /\ chosen' = chosen /\ reads' = reads /\ heartbeats' = heartbeats
      /\ restarts' = restarts + 1
  BY DEF Restart
<1>3. /\ NodeOK(r) /\ NodeLinesUp(r) /\ r.id = i /\ r.out = NoOutput
      /\ r.commit = n.snapshot.lastIndex
  BY <1>1, NewNodeOK
<1>4. Len(n.snapshot.data) = n.snapshot.lastIndex /\ Contiguous(n.snapshot.data, 0)
  BY <1>1 DEF SnapshotLinesUp
<1> HIDE DEF r
<1>5. node' = [j \in Server |-> IF j = i THEN r ELSE node[j]]
  BY <1>2 DEF Good, TypeOK
<1>6. \A j \in Server : /\ node'[j] = IF j = i THEN r ELSE node[j]
                        /\ sm'[j] = IF j = i THEN n.snapshot.data ELSE sm[j]
  BY <1>2, <1>5 DEF Good, TypeOK
<1>7. TypeOK'
  <2>1. node' = [j \in Server |-> node'[j]]
    BY <1>5
  <2>2. \A j \in Server : NodeOK(node'[j]) /\ node'[j].id = j /\ node'[j].out = NoOutput
    BY <1>3, <1>6 DEF Good, TypeOK
  <2>3. sm' \in [Server -> Seq(Entries)]
    BY <1>1, <1>2 DEF Good, TypeOK
  <2>4. sinceSnap' \in [Server -> Nat] /\ restarts' \in Nat
    BY <1>2 DEF Good, TypeOK
  <2> QED BY <1>2, <2>1, <2>2, <2>3, <2>4 DEF Good, TypeOK
<1>8. IndexesLineUp'
  <2>1. \A j \in Server : NodeLinesUp(node'[j]) /\ Len(sm'[j]) = node'[j].commit
                          /\ Contiguous(sm'[j], 0)
    BY <1>3, <1>4, <1>6 DEF Good, IndexesLineUp
  <2> QED BY <1>2, <2>1 DEF Good, IndexesLineUp
<1> QED BY <1>7, <1>8 DEF Good

\* The handlers of step(), after the message's term has been taken over.
LEMMA HeardWF ==
  ASSUME Good, NEW i \in Server, NEW m \in msgs
  PROVE  LET u == UpToTerm(node[i], m)
         IN  /\ m \in Messages /\ MessageLinesUp(m)
             /\ WF(u, Len(sm[i])) /\ u.id = node[i].id /\ u.out.committed = <<>>
<1>1. m \in Messages /\ MessageLinesUp(m)
  BY DEF Good, TypeOK, IndexesLineUp
<1>2. /\ Len(sm[i]) \in Nat /\ WF(node[i], Len(sm[i])) /\ node[i].out.committed = <<>>
  BY NodeWF
<1> QED BY <1>1, <1>2, UpToTermWF

\* Every step of the cluster keeps the state good: one case per action.
LEMMA NextGood ==
  ASSUME Good, Next
  PROVE  Good'
<1>1. PICK i \in Server :
        \/ GoQuiet(i) \/ Timeout(i) \/ Heartbeat(i)
        \/ \E p \in Server : SnapshotOverdue(i, p)
        \/ \E v \in Values : ClientPropose(i, v)
        \/ \E cc \in ConfChanges : ClientConfChange(i, cc)
        \/ ClientRead(i) \/ Restart(i) \/ RecvPreVote(i) \/ RecvPreVoteResp(i)
        \/ RecvStale(i) \/ RecvRequestVote(i) \/ RecvRequestVoteResp(i)
        \/ RecvAppendEntries(i) \/ RecvAppendEntriesResp(i)
        \/ RecvInstallSnapshot(i) \/ RecvInstallSnapshotResp(i)
  BY DEF Next
<1> DEFINE n == node[i]
           a == Len(sm[i])
<1>2. a \in Nat /\ WF(n, a) /\ n.id = i /\ reads \in Seq(ReadRecords)
  BY NodeWF
<1>3. ASSUME NEW r, WF(r, a), r.id = n.id, Event(i, r) PROVE Good'
  BY <1>3, EventOK
<1>4. ASSUME NEW m \in msgs
      PROVE  /\ m \in Messages /\ MessageLinesUp(m)
             /\ WF(UpToTerm(n, m), a) /\ UpToTerm(n, m).id = n.id
             /\ UpToTerm(n, m).out.committed = <<>>
  BY HeardWF
<1> HIDE DEF n, a
<1>5. CASE GoQuiet(i)
  BY <1>2, <1>3, <1>5, QuietWF DEF GoQuiet, n
<1>6. CASE Timeout(i)
  BY <1>2, <1>3, <1>6, ElectionTimeoutWF DEF Timeout, n
<1>7. CASE Heartbeat(i)
  <2>1. WF(BroadcastAppend(n), a) /\ BroadcastAppend(n).id = i
    BY <1>2, BroadcastWF
  <2>2. Process(i, BroadcastAppend(n), reads) /\ heartbeats' \in Nat /\ restarts' \in Nat
    BY <1>7 DEF Heartbeat, Good, TypeOK, n
  <2> QED BY <1>2, <2>1, <2>2, ProcessOK DEF Good, a
<1>8. ASSUME NEW p \in Server, SnapshotOverdue(i, p) PROVE Good'
  <2>1. p \in DOMAIN n.prs /\ Event(i, [n EXCEPT !.prs[p].snap = "overdue"])
    BY <1>8 DEF SnapshotOverdue, n
  <2> QED BY <1>2, <1>3, <2>1, OverdueWF
<1>9. ASSUME NEW v \in Values, ClientPropose(i, v) PROVE Good'
  <2>1. "Normal" \in Kinds /\ v \in Args
    BY DEF Kinds, Args
  <2>2. WF(Propose(n, v), a) /\ Propose(n, v).id = n.id
    BY <1>2, <2>1, AppendLocalWF DEF Propose
  <2> QED BY <1>3, <1>9, <2>2 DEF ClientPropose, n
<1>10. ASSUME NEW cc \in ConfChanges, ClientConfChange(i, cc) PROVE Good'
  <2>1. /\ WF(ProposeConfChange(n, cc.kind, cc.arg), a)
        /\ ProposeConfChange(n, cc.kind, cc.arg).id = n.id
    BY <1>2, ConfChangeWF
  <2> QED BY <1>3, <1>10, <2>1 DEF ClientConfChange, n
<1>11. CASE ClientRead(i)
  <2> DEFINE rid == Len(reads) + 1
             rs == Append(reads, [floor |-> Len(chosen), seen |-> None])
  <2>1. rid \in Nat /\ rs \in Seq(ReadRecords)
    <3>1. Len(reads) \in Nat /\ Len(chosen) \in Nat
      BY <1>2, LenProperties DEF Good, TypeOK
    <3>2. [floor |-> Len(chosen), seen |-> None] \in ReadRecords
      BY <3>1 DEF ReadRecords
    <3> QED BY <1>2, <3>1, <3>2, AppendProperties
  <2>2. /\ Process(i, ReadIndex(n, rid), rs) /\ heartbeats' \in Nat /\ restarts' \in Nat
    BY <1>11 DEF ClientRead, Good, TypeOK, n
  <2> HIDE DEF rid, rs
  <2>3. WF(ReadIndex(n, rid), a) /\ ReadIndex(n, rid).id = i
    BY <1>2, <2>1, ReadIndexWF
  <2> QED BY <2>1, <2>2, <2>3, ProcessOK DEF Good, a
<1>12. CASE Restart(i)
  BY <1>12, RestartOK
<1>13. CASE RecvPreVote(i)
  <2>1. PICK m \in msgs : Event(i, HandlePreVote(n, m))
    BY <1>13 DEF RecvPreVote, n
  <2> QED BY <1>2, <1>3, <1>4, <2>1, HandlePreVoteWF
<1>14. CASE RecvPreVoteResp(i)
  <2>1. PICK m \in msgs : Event(i, HandlePreVoteResp(n, m))
    BY <1>14 DEF RecvPreVoteResp, n
  <2> QED BY <1>2, <1>3, <1>4, <2>1, HandlePreVoteRespWF
<1>15. CASE RecvStale(i)
  <2>1. PICK m \in msgs : Event(i, RejectStale(n, m))
    BY <1>15 DEF RecvStale, n
  <2> QED BY <1>2, <1>3, <1>4, <2>1, RejectStaleWF
<1>16. CASE RecvRequestVote(i)
  <2>1. PICK m \in msgs : Event(i, HandleRequestVote(UpToTerm(n, m), m))
    BY <1>16 DEF RecvRequestVote, n
  <2> QED BY <1>2, <1>3, <1>4, <2>1, HandleRequestVoteWF
<1>17. CASE RecvRequestVoteResp(i)
  <2>1. PICK m \in msgs : Event(i, HandleRequestVoteResp(UpToTerm(n, m), m))
    BY <1>17 DEF RecvRequestVoteResp, n
  <2> QED BY <1>2, <1>3, <1>4, <2>1, HandleRequestVoteRespWF
<1>18. CASE RecvAppendEntries(i)
  <2>1. PICK m \in msgs : /\ m.type = "AppendEntries" /\ ~Overwrites(UpToTerm(n, m), m)
                          /\ Event(i, HandleAppendEntries(UpToTerm(n, m), m))
    BY <1>18 DEF RecvAppendEntries, Receivable, n
  <2> QED BY <1>2, <1>3, <1>4, <2>1, HandleAppendEntriesWF
<1>19. CASE RecvAppendEntriesResp(i)
  <2>1. PICK m \in msgs : /\ m.type = "AppendEntriesResp"
                          /\ Event(i, HandleAppendResp(UpToTerm(n, m), m))
    BY <1>19 DEF RecvAppendEntriesResp, Receivable, n
  <2> QED BY <1>2, <1>3, <1>4, <2>1, HandleAppendRespWF
<1>20. CASE RecvInstallSnapshot(i)
  <2>1. PICK m \in msgs : /\ m.type = "InstallSnapshot"
                          /\ Event(i, HandleInstallSnapshot(UpToTerm(n, m), m))
    BY <1>20 DEF RecvInstallSnapshot, Receivable, n
  <2> QED BY <1>2, <1>3, <1>4, <2>1, HandleInstallSnapshotWF
<1>21. CASE RecvInstallSnapshotResp(i)
  <2>1. PICK m \in msgs : /\ m.type = "InstallSnapshotResp"
                          /\ Event(i, HandleInstallSnapshotResp(UpToTerm(n, m), m))
    BY <1>21 DEF RecvInstallSnapshotResp, Receivable, n
  <2> QED BY <1>2, <1>3, <1>4, <2>1, HandleInstallSnapshotRespWF
<1> QED BY <1>1, <1>5, <1>6, <1>7, <1>8, <1>9, <1>10, <1>11, <1>12, <1>13, <1>14, <1>15,
           <1>16, <1>17, <1>18, <1>19, <1>20, <1>21

-----------------------------------------------------------------------------
\* Every reachable state is well typed, with an empty Output between events, and
\* in it the indexes line up: log.rs's contiguity assertion cannot fail, the
\* commit point stays inside the log and above the snapshot base, and each host
\* has applied exactly the committed prefix, in order.  The two invariants need
\* each other: the commit point stays inside the log because messages line up,
\* and indexes stay typed because the log is where its base says it is.
THEOREM TypeCorrect == Spec => [](TypeOK /\ IndexesLineUp)
<1>1. Init => Good
  BY InitGood
<1>2. Good /\ [Next]_vars => Good'
  <2> SUFFICES ASSUME Good, [Next]_vars PROVE Good'
    OBVIOUS
  <2>1. CASE Next
    BY <2>1, NextGood
  <2>2. CASE UNCHANGED vars
    BY <2>2 DEF vars, Good, TypeOK, IndexesLineUp
  <2> QED BY <2>1, <2>2
<1>3. Good => TypeOK /\ IndexesLineUp
  BY DEF Good
<1> QED BY <1>1, <1>2, <1>3, PTL DEF Spec
=============================================================================
