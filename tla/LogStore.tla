------------------------------ MODULE LogStore ------------------------------
(***************************************************************************)
(* Raft's durable state on a storage Db, crates/server/src/logstore.rs.  A *)
(* store is a record [term, votedFor, snap, keys, first, last]: what the   *)
(* keys m/hs and m/snap and the keys e/<index> hold, and the two indexes   *)
(* the LogStore keeps in memory.  A batch is written atomically and is     *)
(* durable when it returns (SyncPolicy::Always).                           *)
(***************************************************************************)
EXTENDS Naturals, Sequences, FiniteSets

NewStore(noVote, noSnapshot) ==
  [term |-> 0, votedFor |-> noVote, snap |-> noSnapshot,
   keys |-> [i \in {} |-> 0], first |-> 0, last |-> 0]

\* The stored entries in the order of their keys, as the scan returns them.
ScanEntries(store) ==
  LET stored == DOMAIN store.keys
  IN  [k \in 1 .. Cardinality(stored) |->
         store.keys[CHOOSE i \in stored :
                      Cardinality({j \in stored : j < i}) = k - 1]]

\* LogStore::open finds the indexes of the first and the last stored entry.
Open(store) ==
  LET es == ScanEntries(store)
  IN  [store EXCEPT !.first = IF es = <<>> THEN 0 ELSE es[1].index,
                    !.last  = IF es = <<>> THEN 0 ELSE es[Len(es)].index]

\* One write_batch: first the deletions, then the puts; of several puts to one
\* key the last one wins.
WriteBatch(keys, deleted, puts) ==
  LET PutsAt(i) == {k \in 1 .. Len(puts) : puts[k].index = i}
      LastPut(i) == CHOOSE k \in PutsAt(i) : \A x \in PutsAt(i) : x <= k
  IN  [i \in (DOMAIN keys \ deleted) \cup {puts[k].index : k \in 1 .. Len(puts)} |->
         IF PutsAt(i) # {} THEN puts[LastPut(i)] ELSE keys[i]]

\* Mutant of Truncated: the stored suffix is only overwritten.
NothingTruncated(append, last) == {}

\* The stored indexes that an append invalidates.
Truncated(append, last) ==
  IF append # <<>> /\ last # 0 /\ append[1].index <= last
    THEN append[1].index .. last ELSE {}

\* LogStore::persist of one Output.  snap.lastIndex = 0: no snapshot installed.
Persist(store, term, votedFor, append, snap) ==
  LET installed == snap.lastIndex > 0
      first     == IF installed THEN 0 ELSE store.first
      last      == IF installed THEN 0 ELSE store.last
      replaced  == IF installed /\ store.last # 0 THEN store.first .. store.last ELSE {}
      firstNew  == append[1].index
  IN  [term |-> term, votedFor |-> votedFor,
       snap |-> IF installed THEN snap ELSE store.snap,
       keys |-> WriteBatch(store.keys, replaced \cup Truncated(append, last),
                          append),
       first |-> IF append # <<>> /\ (first = 0 \/ firstNew < first)
                   THEN firstNew ELSE first,
       last |-> IF append # <<>> THEN append[Len(append)].index ELSE last]

\* LogStore::compact_to: record a local snapshot and drop what it covers.
CompactTo(store, snap) ==
  LET covers == store.last # 0 /\ store.first <= snap.lastIndex
      upto   == IF snap.lastIndex < store.last THEN snap.lastIndex ELSE store.last
      all    == snap.lastIndex >= store.last
  IN  [store EXCEPT
         !.snap  = snap,
         !.keys  = WriteBatch(@, IF covers THEN store.first .. upto ELSE {}, <<>>),
         !.first = IF ~covers THEN @ ELSE IF all THEN 0 ELSE snap.lastIndex + 1,
         !.last  = IF covers /\ all THEN 0 ELSE @]
=============================================================================
