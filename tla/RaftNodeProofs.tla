--------------------------- MODULE RaftNodeProofs ---------------------------
(***************************************************************************)
(* The operators of RaftNode keep a node well formed.  WF(n, a) is the state*)
(* of a node in the middle of an event, when a entries have been applied by *)
(* its host: the node is typed, its indexes line up, its queued messages line*)
(* up, and what it has queued for its host continues at a and ends at its   *)
(* commit point.                                                            *)
(***************************************************************************)
EXTENDS Raft, TLAPS, SequenceTheorems, WellFoundedInduction

-----------------------------------------------------------------------------
(* Least elements, and contiguous sequences of entries. *)

\* A non-empty set of naturals has its least element in it, which is what Min picks.
LEMMA MinOfNats ==
  ASSUME NEW S \in SUBSET Nat, S # {}
  PROVE  Min(S) \in S /\ \A y \in S : Min(S) <= y
<1> DEFINE R == OpToRel(<, Nat)
<1>1. IsWellFoundedOn(R, Nat)
  BY NatLessThanWellFounded
<1>2. \A x, y \in Nat : <<y, x>> \in R <=> y < x
  BY DEF OpToRel
<1> HIDE DEF R
<1>3. PICK x \in S : \A y \in S : ~(<<y, x>> \in R)
  BY <1>1, WFMin
<1>4. ASSUME NEW y \in S PROVE x <= y
  <2>1. x \in Nat /\ y \in Nat
    OBVIOUS
  <2>2. ~(y < x)
    BY <1>2, <1>3, <2>1, Zenon
  <2> QED BY <2>1, <2>2
<1> QED BY <1>4 DEF Min

\* A slice of a contiguous sequence is contiguous, from where it starts.
LEMMA ContiguousSlice ==
  ASSUME NEW s \in Seq(Entries), NEW base \in Nat, Contiguous(s, base),
         NEW lo \in Int, NEW hi \in Int, 1 <= lo, hi <= Len(s)
  PROVE  /\ SubSeq(s, lo, hi) \in Seq(Entries)
         /\ Len(SubSeq(s, lo, hi)) = IF lo <= hi THEN hi - lo + 1 ELSE 0
         /\ Contiguous(SubSeq(s, lo, hi), base + lo - 1)
         /\ \A k \in 1 .. Len(SubSeq(s, lo, hi)) : SubSeq(s, lo, hi)[k] = s[lo + k - 1]
<1>1. \A k \in lo .. hi : k \in 1 .. Len(s) /\ s[k] \in Entries
  BY LenProperties, ElementOfSeq
<1>2. /\ SubSeq(s, lo, hi) \in Seq(Entries)
      /\ Len(SubSeq(s, lo, hi)) = IF lo <= hi THEN hi - lo + 1 ELSE 0
      /\ \A k \in 1 .. hi - lo + 1 : SubSeq(s, lo, hi)[k] = s[lo + k - 1]
  BY <1>1, SubSeqProperties
<1>3. \A k \in 1 .. Len(SubSeq(s, lo, hi)) :
        k \in 1 .. hi - lo + 1 /\ lo + k - 1 \in 1 .. Len(s)
  BY <1>2, LenProperties
<1> QED BY <1>2, <1>3 DEF Contiguous

\* Two contiguous sequences that meet make one.
LEMMA ContiguousConcat ==
  ASSUME NEW s \in Seq(Entries), NEW t \in Seq(Entries), NEW base \in Nat,
         Contiguous(s, base), Contiguous(t, base + Len(s))
  PROVE  /\ s \o t \in Seq(Entries)
         /\ Len(s \o t) = Len(s) + Len(t)
         /\ Contiguous(s \o t, base)
<1>1. /\ s \o t \in Seq(Entries)
      /\ Len(s \o t) = Len(s) + Len(t)
      /\ \A k \in 1 .. Len(s) + Len(t) :
           (s \o t)[k] = IF k <= Len(s) THEN s[k] ELSE t[k - Len(s)]
  BY ConcatProperties
<1>2. Len(s) \in Nat /\ Len(t) \in Nat
  BY LenProperties
<1>3. ASSUME NEW k \in 1 .. Len(s \o t) PROVE (s \o t)[k].index = base + k
  <2>1. CASE k <= Len(s)
    BY <1>1, <1>2, <2>1 DEF Contiguous
  <2>2. CASE ~(k <= Len(s))
    <3>1. k - Len(s) \in 1 .. Len(t) /\ (s \o t)[k] = t[k - Len(s)]
      BY <1>1, <1>2, <2>2
    <3> QED BY <1>2, <3>1 DEF Contiguous
  <2> QED BY <2>1, <2>2
<1> QED BY <1>1, <1>3 DEF Contiguous

\* An entry with the next index extends a contiguous sequence.
LEMMA ContiguousAppend ==
  ASSUME NEW s \in Seq(Entries), NEW e \in Entries, NEW base \in Nat,
         Contiguous(s, base), e.index = base + Len(s) + 1
  PROVE  /\ Append(s, e) \in Seq(Entries)
         /\ Len(Append(s, e)) = Len(s) + 1
         /\ Contiguous(Append(s, e), base)
<1>1. /\ Append(s, e) \in Seq(Entries)
      /\ Len(Append(s, e)) = Len(s) + 1
      /\ \A k \in 1 .. Len(s) : Append(s, e)[k] = s[k]
      /\ Append(s, e)[Len(s) + 1] = e
  BY AppendProperties
<1>2. Len(s) \in Nat
  BY LenProperties
<1>3. ASSUME NEW k \in 1 .. Len(Append(s, e))
      PROVE  Append(s, e)[k].index = base + k
  <2>1. k \in 1 .. Len(s) \/ k = Len(s) + 1
    BY <1>1, <1>2
  <2> QED BY <1>1, <1>2, <2>1 DEF Contiguous
<1> QED BY <1>1, <1>3 DEF Contiguous

-----------------------------------------------------------------------------
Base(n, a) == IF n.out.snapshot.lastIndex > 0 THEN n.out.snapshot.lastIndex ELSE a

Awaits(n, a) ==
  /\ n.commit = Base(n, a) + Len(n.out.committed)
  /\ Contiguous(n.out.committed, Base(n, a))
  /\ SnapshotLinesUp(n.out.snapshot)

WF(n, a) ==
  /\ NodeOK(n)
  /\ NodeLinesUp(n)
  /\ \A m \in n.out.messages : MessageLinesUp(m)
  /\ Awaits(n, a)

\* A change that leaves the log, the snapshot, the commit point and what waits
\* to be applied alone only has to be well typed.
LEMMA Frame ==
  ASSUME NEW n, NEW a \in Nat, WF(n, a), NEW r, NodeOK(r),
         r.log = n.log, r.snapshot = n.snapshot, r.commit = n.commit,
         r.out.committed = n.out.committed, r.out.snapshot = n.out.snapshot,
         \A m \in r.out.messages : MessageLinesUp(m)
  PROVE  WF(r, a)
BY DEF WF, NodeLinesUp, Awaits, Base

\* Queueing messages that line up keeps a node well formed (send()).
LEMMA SendWF ==
  ASSUME NEW n, NEW a \in Nat, WF(n, a), NEW ms \in SUBSET Messages,
         \A m \in ms : MessageLinesUp(m)
  PROVE  WF(Send(n, ms), a) /\ Send(n, ms).id = n.id
<1> DEFINE r == Send(n, ms)
<1>1. NodeOK(r) /\ r.id = n.id
  BY DEF WF, NodeOK, NodesOver, Send, Outputs
<1>2. /\ r.log = n.log /\ r.snapshot = n.snapshot /\ r.commit = n.commit
      /\ r.out.committed = n.out.committed /\ r.out.snapshot = n.out.snapshot
      /\ \A m \in r.out.messages : MessageLinesUp(m)
  BY DEF WF, NodeOK, NodesOver, Send, Outputs
<1> QED BY <1>1, <1>2, Frame

\* become_follower keeps a node well formed: it never touches the log.
LEMMA BecomeFollowerWF ==
  ASSUME NEW n, NEW a \in Nat, WF(n, a), NEW t \in Nat, NEW l \in Server \cup {None}
  PROVE  WF(BecomeFollower(n, t, l), a) /\ BecomeFollower(n, t, l).id = n.id
<1> DEFINE r == BecomeFollower(n, t, l)
<1>1. NodeOK(r)
  <2> DEFINE term == Greatest(t, n.term)
             votedFor == IF t > n.term THEN None ELSE n.votedFor
  <2>1. n.term \in Nat /\ n.votedFor \in Server \cup {None}
    BY DEF WF, NodeOK, NodesOver
  <2>2. term \in Nat /\ votedFor \in Server \cup {None}
    BY <2>1 DEF Greatest
  <2>3. NoProgress \in [{} -> ProgressRecords] /\ DOMAIN NoProgress = {}
    BY DEF NoProgress
  <2>4. r = [n EXCEPT !.term = term, !.votedFor = votedFor, !.role = "Follower",
                      !.leader = l, !.prs = NoProgress, !.pendingReads = {},
                      !.quiet = FALSE]
    BY DEF BecomeFollower
  <2> HIDE DEF term, votedFor, r
  <2> QED BY <2>2, <2>3, <2>4 DEF WF, NodeOK, NodesOver
<1>2. /\ r.log = n.log /\ r.snapshot = n.snapshot /\ r.commit = n.commit
      /\ r.out = n.out /\ r.id = n.id
  BY DEF WF, NodeOK, NodesOver, BecomeFollower
<1> QED BY <1>1, <1>2, Frame DEF WF

-----------------------------------------------------------------------------
(* Facts about a well-formed node that the following proofs cite. *)

\* The types of the fields that the proofs below look at.
LEMMA Fields ==
  ASSUME NEW n, NEW a \in Nat, WF(n, a)
  PROVE  /\ n.id \in Server /\ n.term \in Nat /\ n.commit \in Nat
         /\ n.log \in Logs /\ n.snapshot \in Snapshots /\ n.readCtx \in Nat
         /\ n.prs \in [DOMAIN n.prs -> ProgressRecords] /\ DOMAIN n.prs \subseteq Server
         /\ n.out \in Outputs
BY DEF WF, NodeOK, NodesOver

\* The types of the parts of a log; its base is not past its end.
LEMMA LogFields ==
  ASSUME NEW log \in Logs
  PROVE  /\ log.snapIndex \in Nat /\ log.snapTerm \in Nat
         /\ log.entries \in Seq(Entries) /\ Len(log.entries) \in Nat
         /\ LastIndex(log) \in Nat /\ log.snapIndex <= LastIndex(log)
BY LenProperties DEF Logs, LastIndex

\* term(idx) is a term wherever it is defined.
LEMMA TermType ==
  ASSUME NEW log \in Logs, NEW idx \in Int, HasTerm(log, idx)
  PROVE  TermAt(log, idx) \in Nat
<1>1. CASE idx = log.snapIndex
  BY <1>1, LogFields DEF TermAt
<1>2. CASE idx # log.snapIndex
  <2>1. idx - log.snapIndex \in 1 .. Len(log.entries)
    BY <1>2, LogFields DEF HasTerm, LastIndex
  <2>2. log.entries[idx - log.snapIndex] \in Entries
    BY <2>1, LogFields, ElementOfSeq
  <2> QED BY <1>2, <2>2 DEF TermAt, Entries
<1> QED BY <1>1, <1>2

\* slice() above the base returns contiguous entries, starting where it was asked to.
LEMMA SliceOK ==
  ASSUME NEW log \in Logs, Contiguous(log.entries, log.snapIndex),
         NEW from \in Nat, log.snapIndex < from, NEW max \in Nat
  PROVE  /\ Slice(log, from, max) \in Seq(Entries)
         /\ Contiguous(Slice(log, from, max), from - 1)
<1> DEFINE lo == from - log.snapIndex
           end == lo + max - 1
           hi == IF end < Len(log.entries) THEN end ELSE Len(log.entries)
<1>1. /\ lo \in Int /\ hi \in Int /\ 1 <= lo /\ hi <= Len(log.entries)
      /\ log.snapIndex + lo - 1 = from - 1
  BY LogFields
<1>2. Slice(log, from, max) = SubSeq(log.entries, lo, hi)
  <2>1. ~(from < FirstIndex(log))
    BY LogFields DEF FirstIndex
  <2> QED BY <2>1 DEF Slice
<1> HIDE DEF lo, hi
<1>3. /\ SubSeq(log.entries, lo, hi) \in Seq(Entries)
      /\ Contiguous(SubSeq(log.entries, lo, hi), log.snapIndex + lo - 1)
  BY <1>1, LogFields, ContiguousSlice
<1> QED BY <1>1, <1>2, <1>3

\* Voters are servers, whatever the configuration entries say.
LEMMA VotersType ==
  ASSUME NEW n, NEW idx
  PROVE  VotersAt(n, idx) \subseteq Server /\ Voters(n) \subseteq Server
BY DEF Voters, VotersAt

-----------------------------------------------------------------------------
(* Replication keeps a node well formed. *)

\* Replacing the progress table keeps a node well formed.
LEMMA PrsWF ==
  ASSUME NEW n, NEW a \in Nat, WF(n, a), NEW peers \in SUBSET Server,
         NEW f \in [peers -> ProgressRecords]
  PROVE  WF([n EXCEPT !.prs = f], a) /\ [n EXCEPT !.prs = f].id = n.id
<1> DEFINE r == [n EXCEPT !.prs = f]
<1>1. NodeOK(r)
  BY DEF WF, NodeOK, NodesOver
<1>2. /\ r.log = n.log /\ r.snapshot = n.snapshot /\ r.commit = n.commit
      /\ r.out = n.out /\ r.id = n.id
  BY DEF WF, NodeOK, NodesOver
<1> QED BY <1>1, <1>2, Frame DEF WF

\* sync_progress_with_voters keeps a node well formed.
LEMMA SyncWF ==
  ASSUME NEW n, NEW a \in Nat, WF(n, a)
  PROVE  WF(SyncProgressWithVoters(n), a) /\ SyncProgressWithVoters(n).id = n.id
<1> DEFINE f == [p \in Voters(n) \ {n.id} |->
                   IF p \in DOMAIN n.prs THEN n.prs[p] ELSE Progress(LastIndex(n.log) + 1)]
<1>1. LastIndex(n.log) + 1 \in Nat
  BY Fields, LogFields
<1>2. f \in [Voters(n) \ {n.id} -> ProgressRecords]
  BY <1>1, Fields DEF Progress, ProgressRecords
<1>3. Voters(n) \ {n.id} \in SUBSET Server
  BY VotersType
<1> HIDE DEF f
<1>4. WF([n EXCEPT !.prs = f], a) /\ [n EXCEPT !.prs = f].id = n.id
  BY <1>2, <1>3, PrsWF
<1> QED BY <1>4 DEF SyncProgressWithVoters, f

\* A progress record whose window moved is a progress record.
LEMMA ProgressUpdate ==
  ASSUME NEW pr \in ProgressRecords, NEW next \in Nat, NEW inflight \in Nat
  PROVE  [pr EXCEPT !.next = next, !.inflight = inflight] \in ProgressRecords
BY DEF ProgressRecords

\* send_append to one peer leaves a progress record and sends only messages that
\* line up: entries contiguous from prev_index, or the snapshot the node holds.
LEMMA AppendToOK ==
  ASSUME NEW n, NEW a \in Nat, WF(n, a), NEW p \in DOMAIN n.prs
  PROVE  /\ AppendTo(n, p).pr \in ProgressRecords
         /\ AppendTo(n, p).msgs \in SUBSET Messages
         /\ \A m \in AppendTo(n, p).msgs : MessageLinesUp(m)
<1> DEFINE pr == IF n.prs[p].snap = "overdue"
                   THEN [n.prs[p] EXCEPT !.snap = "none"] ELSE n.prs[p]
           prev == pr.next - 1
           batch == Slice(n.log, pr.next, MaxBatch)
           full == batch # <<>> /\ pr.inflight >= MaxInflight
           entries == IF full THEN <<>> ELSE batch
           snap == [pr EXCEPT !.snap = "sent"]
           install == [type |-> "InstallSnapshot", from |-> n.id, to |-> p,
                       term |-> n.term, snapshot |-> n.snapshot]
           sent == [pr EXCEPT !.next = @ + Len(entries),
                              !.inflight = IF full THEN @ - 1
                                           ELSE IF entries # <<>> THEN @ + 1
                                           ELSE @]
           append == [type |-> "AppendEntries", from |-> n.id, to |-> p,
                      term |-> n.term, prevIndex |-> prev,
                      prevTerm |-> TermAt(n.log, prev), entries |-> entries,
                      commit |-> n.commit, readCtx |-> n.readCtx]
<1>1. /\ n.prs[p] \in ProgressRecords /\ p \in Server /\ n.id \in Server
      /\ n.term \in Nat /\ n.commit \in Nat /\ n.readCtx \in Nat
      /\ n.log \in Logs /\ n.snapshot \in Snapshots
  BY Fields
<1>2. pr \in ProgressRecords
  BY <1>1 DEF ProgressRecords
<1> HIDE DEF pr
<1>3. CASE pr.snap = "sent"
  <2>1. AppendTo(n, p) = [pr |-> pr, msgs |-> {}]
    BY <1>3 DEF AppendTo, pr
  <2> QED BY <1>2, <2>1
<1>4. CASE pr.snap # "sent" /\ pr.next <= n.log.snapIndex
  <2>1. AppendTo(n, p) = [pr |-> snap, msgs |-> {install}]
    BY <1>4 DEF AppendTo, pr
  <2>2. snap \in ProgressRecords
    BY <1>2 DEF ProgressRecords
  <2>3. install \in Messages
    BY <1>1 DEF Messages, Installs
  <2>4. MessageLinesUp(install)
    BY DEF MessageLinesUp, WF, NodeLinesUp
  <2> QED BY <2>1, <2>2, <2>3, <2>4
<1>5. CASE pr.snap # "sent" /\ ~(pr.next <= n.log.snapIndex) /\ ~HasTerm(n.log, prev)
  <2>1. AppendTo(n, p) = [pr |-> pr, msgs |-> {}]
    BY <1>5 DEF AppendTo, pr
  <2> QED BY <1>2, <2>1
<1>6. CASE pr.snap # "sent" /\ ~(pr.next <= n.log.snapIndex) /\ HasTerm(n.log, prev)
  <2>1. AppendTo(n, p) = [pr |-> sent, msgs |-> {append}]
    BY <1>6 DEF AppendTo, pr
  <2>2. /\ pr.next \in Nat /\ pr.inflight \in Nat /\ n.log.snapIndex \in Nat
        /\ prev \in Nat /\ n.log.snapIndex < pr.next
    <3>1. pr.next \in Nat /\ pr.inflight \in Nat
      BY <1>2 DEF ProgressRecords
    <3>2. n.log.snapIndex \in Nat
      BY <1>1, LogFields
    <3> QED BY <1>6, <3>1, <3>2
  <2>3. batch \in Seq(Entries) /\ Contiguous(batch, prev)
    BY <1>1, <2>2, SliceOK, ConfigAssumption DEF WF, NodeLinesUp
  <2>4. entries \in Seq(Entries) /\ Len(entries) \in Nat /\ Contiguous(entries, prev)
    BY <2>3, EmptySeq, LenProperties DEF Contiguous
  <2>5. TermAt(n.log, prev) \in Nat
    BY <1>1, <1>6, <2>2, TermType
  <2>6. full => pr.inflight - 1 \in Nat
    BY <2>2, ConfigAssumption
  <2> HIDE DEF entries, batch, full, prev
  <2>7. sent \in ProgressRecords
    <3> DEFINE window == IF full THEN pr.inflight - 1
                         ELSE IF entries # <<>> THEN pr.inflight + 1 ELSE pr.inflight
    <3>1. window \in Nat /\ pr.next + Len(entries) \in Nat
      BY <2>2, <2>4, <2>6
    <3>2. sent = [pr EXCEPT !.next = pr.next + Len(entries), !.inflight = window]
      OBVIOUS
    <3> HIDE DEF window
    <3> QED BY <1>2, <3>1, <3>2, ProgressUpdate
  <2>8. append \in Messages
    BY <1>1, <2>2, <2>4, <2>5 DEF Messages, Appends
  <2>9. MessageLinesUp(append)
    BY <2>4 DEF MessageLinesUp
  <2> QED BY <2>1, <2>7, <2>8, <2>9
<1> QED BY <1>3, <1>4, <1>5, <1>6

\* send_append to some peers keeps a node well formed.
LEMMA SendAppendWF ==
  ASSUME NEW n, NEW a \in Nat, WF(n, a), NEW peers \in SUBSET (DOMAIN n.prs)
  PROVE  WF(SendAppend(n, peers), a) /\ SendAppend(n, peers).id = n.id
<1> DEFINE f == [p \in DOMAIN n.prs |-> IF p \in peers THEN AppendTo(n, p).pr
                                                       ELSE n.prs[p]]
           ms == UNION {AppendTo(n, p).msgs : p \in peers}
           q == [n EXCEPT !.prs = f]
<1>1. f \in [DOMAIN n.prs -> ProgressRecords]
  BY AppendToOK, Fields
<1>2. ms \in SUBSET Messages /\ \A m \in ms : MessageLinesUp(m)
  BY AppendToOK
<1>3. SendAppend(n, peers) = Send(q, ms)
  BY DEF SendAppend, Send, WF, NodeOK, NodesOver, Outputs
<1> HIDE DEF f, ms
<1>4. WF(q, a) /\ q.id = n.id
  BY <1>1, Fields, PrsWF
<1> HIDE DEF q
<1>5. WF(Send(q, ms), a) /\ Send(q, ms).id = q.id
  BY <1>2, <1>4, SendWF
<1> QED BY <1>3, <1>4, <1>5

\* broadcast_append keeps a node well formed.
LEMMA BroadcastWF ==
  ASSUME NEW n, NEW a \in Nat, WF(n, a)
  PROVE  WF(BroadcastAppend(n), a) /\ BroadcastAppend(n).id = n.id
<1> DEFINE s == SyncProgressWithVoters(n)
<1>1. WF(s, a) /\ s.id = n.id
  BY SyncWF
<1> HIDE DEF s
<1>2. WF(SendAppend(s, DOMAIN s.prs), a) /\ SendAppend(s, DOMAIN s.prs).id = s.id
  BY <1>1, SendAppendWF
<1> QED BY <1>1, <1>2 DEF BroadcastAppend, s

\* The arithmetic of the window between two commit points.
LEMMA CommitWindow ==
  ASSUME NEW base \in Nat, NEW len \in Nat, NEW old \in Nat, NEW new \in Nat,
         base <= old, old < new, new <= base + len
  PROVE  /\ old - base + 1 \in Int /\ new - base \in Int
         /\ 1 <= old - base + 1 /\ old - base + 1 <= new - base /\ new - base <= len
         /\ (new - base) - (old - base + 1) + 1 = new - old
         /\ base + (old - base + 1) - 1 = old
OBVIOUS

\* The entries between two commit points, as a contiguous sequence.
LEMMA NewlyCommitted ==
  ASSUME NEW log \in Logs, Contiguous(log.entries, log.snapIndex),
         NEW old \in Nat, NEW new \in Nat,
         log.snapIndex <= old, old < new, new <= log.snapIndex + Len(log.entries)
  PROVE  LET newly == SubSeq(log.entries, old - log.snapIndex + 1, new - log.snapIndex)
         IN  /\ newly \in Seq(Entries)
             /\ Len(newly) = new - old
             /\ Contiguous(newly, old)
<1> DEFINE lo == old - log.snapIndex + 1
           hi == new - log.snapIndex
<1>1. /\ log.entries \in Seq(Entries) /\ Len(log.entries) \in Nat
      /\ log.snapIndex \in Nat
  BY LogFields
<1>2. /\ lo \in Int /\ hi \in Int /\ 1 <= lo /\ lo <= hi /\ hi <= Len(log.entries)
      /\ hi - lo + 1 = new - old
      /\ log.snapIndex + lo - 1 = old
  BY <1>1, CommitWindow
<1> HIDE DEF lo, hi
<1>3. /\ SubSeq(log.entries, lo, hi) \in Seq(Entries)
      /\ Len(SubSeq(log.entries, lo, hi)) = hi - lo + 1
      /\ Contiguous(SubSeq(log.entries, lo, hi), log.snapIndex + lo - 1)
  BY <1>1, <1>2, ContiguousSlice
<1>4. /\ SubSeq(log.entries, lo, hi) \in Seq(Entries)
      /\ Len(SubSeq(log.entries, lo, hi)) = new - old
      /\ Contiguous(SubSeq(log.entries, lo, hi), old)
  BY <1>2, <1>3
<1> QED BY <1>4 DEF lo, hi

\* advance_commit_to keeps a node well formed, and hands out exactly the entries
\* between the old and the new commit point.
LEMMA AdvanceCommitWF ==
  ASSUME NEW n, NEW a \in Nat, WF(n, a), NEW c \in Nat,
         n.commit < c, c <= LastIndex(n.log)
  PROVE  WF(AdvanceCommitTo(n, c), a) /\ AdvanceCommitTo(n, c).id = n.id
<1> DEFINE newly == SubSeq(n.log.entries, n.commit - n.log.snapIndex + 1,
                           c - n.log.snapIndex)
           r == [n EXCEPT !.commit = c, !.out.committed = @ \o newly]
           base == Base(n, a)
<1>1. /\ n.log \in Logs /\ n.commit \in Nat /\ n.term \in Nat /\ n.out \in Outputs
      /\ Contiguous(n.log.entries, n.log.snapIndex) /\ n.log.snapIndex <= n.commit
  BY Fields DEF WF, NodeLinesUp
<1>2. c <= n.log.snapIndex + Len(n.log.entries)
  BY DEF LastIndex
<1>5. newly \in Seq(Entries) /\ Len(newly) = c - n.commit /\ Contiguous(newly, n.commit)
  BY <1>1, <1>2, NewlyCommitted
<1> HIDE DEF newly
<1>6. /\ base \in Nat /\ n.out.committed \in Seq(Entries)
      /\ n.commit = base + Len(n.out.committed)
      /\ Contiguous(n.out.committed, base)
  BY <1>1 DEF WF, Awaits, Base, Outputs, Snapshots
<1> HIDE DEF base
<1>7. /\ n.out.committed \o newly \in Seq(Entries)
      /\ Len(n.out.committed \o newly) = Len(n.out.committed) + Len(newly)
      /\ Contiguous(n.out.committed \o newly, base)
  BY <1>5, <1>6, ContiguousConcat
<1>8. NodeOK(r)
  BY <1>7 DEF WF, NodeOK, NodesOver, Outputs
<1>9. /\ r.log = n.log /\ r.snapshot = n.snapshot /\ r.commit = c
      /\ r.out.committed = n.out.committed \o newly
      /\ r.out.snapshot = n.out.snapshot /\ r.out.messages = n.out.messages
      /\ r.id = n.id /\ r.term = n.term /\ r.role = n.role
  BY DEF WF, NodeOK, NodesOver, Outputs
<1> HIDE DEF r
<1>10. NodeLinesUp(r)
  <2>1. n.log.snapIndex <= c
    BY <1>1, LogFields
  <2> QED BY <1>9, <2>1 DEF WF, NodeLinesUp
<1>11. Base(r, a) = base
  BY <1>9 DEF Base, base
<1>12. Awaits(r, a)
  <2>1. c = base + Len(n.out.committed \o newly)
    <3>1. Len(n.out.committed) \in Nat
      BY <1>6, LenProperties
    <3> QED BY <1>5, <1>6, <1>7, <3>1
  <2> QED BY <1>7, <1>9, <1>11, <2>1 DEF Awaits, WF
<1>13. WF(r, a)
  BY <1>8, <1>9, <1>10, <1>12 DEF WF
<1>14. WF(BecomeFollower(r, r.term, None), a) /\ BecomeFollower(r, r.term, None).id = r.id
  BY <1>1, <1>9, <1>13, BecomeFollowerWF
<1>15. AdvanceCommitTo(n, c) \in {r, BecomeFollower(r, r.term, None)}
  BY DEF AdvanceCommitTo, r, newly
<1> QED BY <1>9, <1>13, <1>14, <1>15

\* maybe_advance_commit never commits past the end of the log.
LEMMA MaybeAdvanceWF ==
  ASSUME NEW n, NEW a \in Nat, WF(n, a)
  PROVE  WF(MaybeAdvanceCommit(n), a) /\ MaybeAdvanceCommit(n).id = n.id
<1> DEFINE matched == [v \in Voters(n) |->
                         IF v = n.id THEN LastIndex(n.log)
                         ELSE IF v \in DOMAIN n.prs THEN n.prs[v].matched ELSE 0]
           c == Max(QuorumValues(n, matched))
<1>1. CASE c > n.commit /\ TermIs(n.log, c, n.term)
  <2>1. n.log \in Logs /\ n.commit \in Nat
    BY Fields
  <2>2. n.log.snapIndex \in Nat /\ LastIndex(n.log) \in Nat
    BY <2>1, LogFields
  <2>3. c \in Nat /\ n.commit < c /\ c <= LastIndex(n.log)
    BY <1>1, <2>1, <2>2 DEF TermIs, HasTerm
  <2> HIDE DEF c
  <2>4. WF(AdvanceCommitTo(n, c), a) /\ AdvanceCommitTo(n, c).id = n.id
    BY <2>3, AdvanceCommitWF
  <2>5. MaybeAdvanceCommit(n) \in {AdvanceCommitTo(n, c), n}
    BY DEF MaybeAdvanceCommit, c
  <2> QED BY <2>4, <2>5
<1>2. CASE ~(c > n.commit /\ TermIs(n.log, c, n.term))
  <2>1. MaybeAdvanceCommit(n) = n
    BY <1>2 DEF MaybeAdvanceCommit
  <2> QED BY <2>1
<1> QED BY <1>1, <1>2


\* Pushing the entry with the next index keeps a node well formed.
LEMMA PushWF ==
  ASSUME NEW n, NEW a \in Nat, WF(n, a), NEW e \in Entries,
         e.index = LastIndex(n.log) + 1
  PROVE  LET r == [n EXCEPT !.log = Push(@, e), !.out.append = Append(@, e)]
         IN  WF(r, a) /\ r.id = n.id
<1> DEFINE r == [n EXCEPT !.log = Push(@, e), !.out.append = Append(@, e)]
<1>1. n.log \in Logs /\ Contiguous(n.log.entries, n.log.snapIndex) /\ n.out \in Outputs
  BY Fields DEF WF, NodeLinesUp
<1>2. n.log.entries \in Seq(Entries) /\ n.log.snapIndex \in Nat /\ Len(n.log.entries) \in Nat
  BY <1>1, LogFields
<1>3. /\ Append(n.log.entries, e) \in Seq(Entries)
      /\ Len(Append(n.log.entries, e)) = Len(n.log.entries) + 1
      /\ Contiguous(Append(n.log.entries, e), n.log.snapIndex)
  <2>1. e.index = n.log.snapIndex + Len(n.log.entries) + 1
    BY DEF LastIndex
  <2> QED BY <1>1, <1>2, <2>1, ContiguousAppend
<1>4. /\ Push(n.log, e) \in Logs
      /\ Push(n.log, e).entries = Append(n.log.entries, e)
      /\ Push(n.log, e).snapIndex = n.log.snapIndex
  BY <1>1, <1>3 DEF Push, Logs
<1>5. Append(n.out.append, e) \in Seq(Entries)
  BY <1>1, AppendProperties DEF Outputs
<1>6. NodeOK(r)
  BY <1>4, <1>5 DEF WF, NodeOK, NodesOver, Outputs
<1>7. /\ r.log = Push(n.log, e) /\ r.snapshot = n.snapshot /\ r.commit = n.commit
      /\ r.out.committed = n.out.committed /\ r.out.snapshot = n.out.snapshot
      /\ r.out.messages = n.out.messages /\ r.id = n.id
  BY DEF WF, NodeOK, NodesOver, Outputs
<1> HIDE DEF r
<1>8. n.commit <= LastIndex(r.log)
  <2>1. n.commit <= n.log.snapIndex + Len(n.log.entries) /\ n.commit \in Nat
    BY Fields DEF WF, NodeLinesUp, LastIndex
  <2>2. LastIndex(r.log) = n.log.snapIndex + (Len(n.log.entries) + 1)
    BY <1>3, <1>4, <1>7 DEF LastIndex
  <2> QED BY <1>2, <2>1, <2>2
<1>9. NodeLinesUp(r)
  BY <1>3, <1>4, <1>7, <1>8 DEF WF, NodeLinesUp
<1>10. Awaits(r, a)
  BY <1>7 DEF WF, Awaits, Base
<1>11. WF(r, a)
  BY <1>6, <1>7, <1>9, <1>10 DEF WF
<1> QED BY <1>7, <1>11 DEF r

\* append_local keeps a node well formed.
LEMMA AppendLocalWF ==
  ASSUME NEW n, NEW a \in Nat, WF(n, a), NEW kind \in Kinds, NEW arg \in Args
  PROVE  WF(AppendLocal(n, kind, arg), a) /\ AppendLocal(n, kind, arg).id = n.id
<1> DEFINE e == [index |-> LastIndex(n.log) + 1, term |-> n.term,
                 kind |-> kind, arg |-> arg]
           p == [n EXCEPT !.log = Push(@, e), !.out.append = Append(@, e)]
           q == MaybeAdvanceCommit(p)
<1>1. e \in Entries /\ e.index = LastIndex(n.log) + 1
  <2>1. LastIndex(n.log) + 1 \in Nat /\ n.term \in Nat
    BY Fields, LogFields
  <2> QED BY <2>1 DEF Entries, Kinds, Args
<1>2. AppendLocal(n, kind, arg) = BroadcastAppend(q)
  BY DEF AppendLocal
<1> HIDE DEF e
<1>3. WF(p, a) /\ p.id = n.id
  BY <1>1, PushWF
<1> HIDE DEF p
<1>4. WF(q, a) /\ q.id = n.id
  BY <1>3, MaybeAdvanceWF
<1> HIDE DEF q
<1> QED BY <1>2, <1>4, BroadcastWF

\* become_leader, with its no-op entry, keeps a node well formed.
LEMMA BecomeLeaderWF ==
  ASSUME NEW n, NEW a \in Nat, WF(n, a)
  PROVE  WF(BecomeLeader(n), a) /\ BecomeLeader(n).id = n.id
<1> DEFINE f == [p \in Voters(n) \ {n.id} |-> Progress(LastIndex(n.log) + 1)]
           l == [n EXCEPT !.role = "Leader", !.leader = n.id,
                          !.pendingReads = {}, !.readCtx = 0, !.prs = f]
           q == AppendLocal(l, "Noop", None)
<1>1. f \in [Voters(n) \ {n.id} -> ProgressRecords] /\ DOMAIN f \subseteq Server
  <2>1. LastIndex(n.log) + 1 \in Nat
    BY Fields, LogFields
  <2>2. Progress(LastIndex(n.log) + 1) \in ProgressRecords
    BY <2>1 DEF Progress, ProgressRecords
  <2> QED BY <2>2, VotersType
<1>2. BecomeLeader(n) = BroadcastAppend(q)
  BY DEF BecomeLeader
<1> HIDE DEF f
<1>3. NodeOK(l)
  BY <1>1 DEF WF, NodeOK, NodesOver
<1>4. /\ l.log = n.log /\ l.snapshot = n.snapshot /\ l.commit = n.commit
      /\ l.out = n.out /\ l.id = n.id
  BY DEF WF, NodeOK, NodesOver
<1> HIDE DEF l
<1>5. WF(l, a)
  BY <1>3, <1>4, Frame DEF WF
<1>6. WF(q, a) /\ q.id = l.id
  BY <1>5, AppendLocalWF DEF Kinds, Args
<1> HIDE DEF q
<1> QED BY <1>2, <1>4, <1>6, BroadcastWF

\* The vote requests of a candidate are messages.
LEMMA BallotsOK ==
  ASSUME NEW n, NEW a \in Nat, WF(n, a), NEW t \in Nat,
         NEW type \in {"PreVote", "RequestVote"}
  PROVE  /\ Ballots(n, type, t) \in SUBSET Messages
         /\ \A m \in Ballots(n, type, t) : MessageLinesUp(m)
<1>1. /\ n.log \in Logs /\ LastIndex(n.log) \in Nat /\ n.id \in Server
      /\ n.log.snapIndex \in Nat /\ n.log.snapIndex <= LastIndex(n.log)
  BY Fields, LogFields
<1>2. LastTerm(n.log) \in Nat
  <2>1. HasTerm(n.log, LastIndex(n.log))
    BY <1>1 DEF HasTerm
  <2> QED BY <1>1, <2>1, TermType DEF LastTerm
<1>3. Voters(n) \ {n.id} \subseteq Server
  BY VotersType
<1>4. ASSUME NEW p \in Voters(n) \ {n.id}
      PROVE  [type |-> type, from |-> n.id, to |-> p, term |-> t,
              lastIndex |-> LastIndex(n.log), lastTerm |-> LastTerm(n.log)] \in Votes
  BY <1>1, <1>2, <1>3 DEF Votes
<1> QED BY <1>4 DEF Ballots, Messages, MessageLinesUp, Votes

\* campaign keeps a node well formed, also when it wins at once.
LEMMA CampaignWF ==
  ASSUME NEW n, NEW a \in Nat, WF(n, a)
  PROVE  WF(Campaign(n), a) /\ Campaign(n).id = n.id
<1> DEFINE c == [n EXCEPT !.term = @ + 1, !.votedFor = n.id, !.role = "Candidate",
                          !.leader = None, !.votes = {n.id}]
<1>1. NodeOK(c)
  <2>1. n.term + 1 \in Nat /\ n.id \in Server /\ {n.id} \in SUBSET Server
    BY Fields
  <2> QED BY <2>1 DEF WF, NodeOK, NodesOver
<1>2. /\ c.log = n.log /\ c.snapshot = n.snapshot /\ c.commit = n.commit
      /\ c.out = n.out /\ c.id = n.id
  BY DEF WF, NodeOK, NodesOver
<1>3. Campaign(n) \in {BecomeLeader(c), Send(c, Ballots(c, "RequestVote", c.term))}
  BY DEF Campaign
<1> HIDE DEF c
<1>4. WF(c, a)
  BY <1>1, <1>2, Frame DEF WF
<1>5. WF(BecomeLeader(c), a) /\ BecomeLeader(c).id = c.id
  BY <1>4, BecomeLeaderWF
<1>6. /\ Ballots(c, "RequestVote", c.term) \in SUBSET Messages
      /\ \A m \in Ballots(c, "RequestVote", c.term) : MessageLinesUp(m)
  BY <1>4, Fields, BallotsOK
<1>7. /\ WF(Send(c, Ballots(c, "RequestVote", c.term)), a)
      /\ Send(c, Ballots(c, "RequestVote", c.term)).id = c.id
  BY <1>4, <1>6, SendWF
<1> QED BY <1>2, <1>3, <1>5, <1>7

\* campaign_pre keeps a node well formed.
LEMMA CampaignPreWF ==
  ASSUME NEW n, NEW a \in Nat, WF(n, a)
  PROVE  WF(CampaignPre(n), a) /\ CampaignPre(n).id = n.id
<1> DEFINE c == [n EXCEPT !.role = "PreCandidate", !.votes = {n.id}]
<1>1. NodeOK(c)
  BY DEF WF, NodeOK, NodesOver
<1>2. /\ c.log = n.log /\ c.snapshot = n.snapshot /\ c.commit = n.commit
      /\ c.out = n.out /\ c.id = n.id
  BY DEF WF, NodeOK, NodesOver
<1>3. CampaignPre(n) \in {Campaign(c), Send(c, Ballots(c, "PreVote", c.term + 1))}
  BY DEF CampaignPre
<1> HIDE DEF c
<1>4. WF(c, a)
  BY <1>1, <1>2, Frame DEF WF
<1>5. WF(Campaign(c), a) /\ Campaign(c).id = c.id
  BY <1>4, CampaignWF
<1>6. /\ Ballots(c, "PreVote", c.term + 1) \in SUBSET Messages
      /\ \A m \in Ballots(c, "PreVote", c.term + 1) : MessageLinesUp(m)
  <2>1. c.term + 1 \in Nat
    BY <1>4, Fields
  <2> QED BY <1>4, <2>1, BallotsOK
<1>7. /\ WF(Send(c, Ballots(c, "PreVote", c.term + 1)), a)
      /\ Send(c, Ballots(c, "PreVote", c.term + 1)).id = c.id
  BY <1>4, <1>6, SendWF
<1> QED BY <1>2, <1>3, <1>5, <1>7

\* An election timeout keeps a node well formed.
LEMMA ElectionTimeoutWF ==
  ASSUME NEW n, NEW a \in Nat, WF(n, a)
  PROVE  WF(ElectionTimeout(n), a) /\ ElectionTimeout(n).id = n.id
<1> DEFINE r == ResetElectionTimer(n)
<1>1. NodeOK(r)
  BY DEF WF, NodeOK, NodesOver, ResetElectionTimer
<1>2. /\ r.log = n.log /\ r.snapshot = n.snapshot /\ r.commit = n.commit
      /\ r.out = n.out /\ r.id = n.id
  BY DEF WF, NodeOK, NodesOver, ResetElectionTimer
<1> HIDE DEF r
<1>3. WF(r, a)
  BY <1>1, <1>2, Frame DEF WF
<1>4. ElectionTimeout(n) \in {r, CampaignPre(r), Campaign(r)}
  BY DEF ElectionTimeout, r
<1> QED BY <1>2, <1>3, <1>4, CampaignWF, CampaignPreWF

-----------------------------------------------------------------------------
(* Reads keep a node well formed. *)

\* release_reads keeps a node well formed.
LEMMA ReleaseReadsWF ==
  ASSUME NEW n, NEW a \in Nat, WF(n, a), NEW ctx
  PROVE  WF(ReleaseReads(n, ctx), a) /\ ReleaseReads(n, ctx).id = n.id
<1> DEFINE released == {x \in n.pendingReads : x.ctx <= ctx}
           states == {[rid |-> x.rid, index |-> x.index] : x \in released}
           r == [n EXCEPT !.pendingReads = @ \ released,
                          !.out.readStates = @ \cup states]
<1>1. n.pendingReads \subseteq [ctx : Nat, rid : Nat, index : Nat]
  BY DEF WF, NodeOK, NodesOver
<1>2. states \subseteq [rid : Nat, index : Nat]
  BY <1>1
<1>3. ReleaseReads(n, ctx) = r
  BY DEF ReleaseReads
<1> HIDE DEF released, states
<1>4. NodeOK(r)
  BY <1>2 DEF WF, NodeOK, NodesOver, Outputs
<1>5. /\ r.log = n.log /\ r.snapshot = n.snapshot /\ r.commit = n.commit
      /\ r.out.committed = n.out.committed /\ r.out.snapshot = n.out.snapshot
      /\ r.out.messages = n.out.messages /\ r.id = n.id
  BY DEF WF, NodeOK, NodesOver, Outputs
<1> HIDE DEF r
<1> QED BY <1>3, <1>4, <1>5, Frame DEF WF

\* read_index keeps a node well formed.
LEMMA ReadIndexWF ==
  ASSUME NEW n, NEW a \in Nat, WF(n, a), NEW rid \in Nat
  PROVE  WF(ReadIndex(n, rid), a) /\ ReadIndex(n, rid).id = n.id
<1> DEFINE ctx == n.readCtx + 1
           r == [n EXCEPT !.readCtx = ctx,
                          !.pendingReads = @ \cup {[ctx |-> ctx, rid |-> rid,
                                                    index |-> n.commit]}]
<1>1. ctx \in Nat /\ [ctx |-> ctx, rid |-> rid, index |-> n.commit]
                        \in [ctx : Nat, rid : Nat, index : Nat]
  BY Fields
<1>2. ReadIndex(n, rid) \in {ReleaseReads(r, ctx), BroadcastAppend(r)}
  BY DEF ReadIndex
<1> HIDE DEF ctx
<1>3. NodeOK(r)
  BY <1>1 DEF WF, NodeOK, NodesOver
<1>4. /\ r.log = n.log /\ r.snapshot = n.snapshot /\ r.commit = n.commit
      /\ r.out = n.out /\ r.id = n.id
  BY DEF WF, NodeOK, NodesOver
<1> HIDE DEF r
<1>5. WF(r, a)
  BY <1>3, <1>4, Frame DEF WF
<1> QED BY <1>2, <1>4, <1>5, ReleaseReadsWF, BroadcastWF

\* process_read_acks keeps a node well formed.
LEMMA ProcessReadAcksWF ==
  ASSUME NEW n, NEW a \in Nat, WF(n, a)
  PROVE  WF(ProcessReadAcks(n), a) /\ ProcessReadAcks(n).id = n.id
<1>1. \E ctx : ProcessReadAcks(n) \in {n, ReleaseReads(n, ctx)}
  BY DEF ProcessReadAcks
<1> QED BY <1>1, ReleaseReadsWF
=============================================================================
