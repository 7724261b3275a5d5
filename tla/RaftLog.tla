------------------------------ MODULE RaftLog ------------------------------
(***************************************************************************)
(* The in-memory log of crates/raft/src/log.rs: the entries above a        *)
(* snapshot base.  A log is a record [snapIndex, snapTerm, entries]; an    *)
(* entry carries its own index, as in types.rs.                            *)
(***************************************************************************)
EXTENDS Naturals, Sequences, FiniteSetsExt

FirstIndex(log) == log.snapIndex + 1

LastIndex(log) == log.snapIndex + Len(log.entries)

\* The term at idx, defined for idx in the snapshot boundary and above.
TermAt(log, idx) ==
  IF idx = log.snapIndex THEN log.snapTerm
                         ELSE log.entries[idx - log.snapIndex].term

LastTerm(log) == TermAt(log, LastIndex(log))

\* `log.term(idx).is_some()`: idx is neither compacted away nor past the end.
HasTerm(log, idx) == idx \in log.snapIndex .. LastIndex(log)

\* `log.term(idx) == Some(t)`
TermIs(log, idx, t) == HasTerm(log, idx) /\ TermAt(log, idx) = t

\* `log.get(idx)` for an idx strictly above the base.
Get(log, idx) == log.entries[idx - log.snapIndex]

\* At most max entries from index `from` on, clamped to the log.
Slice(log, from, max) ==
  LET start == (IF from < FirstIndex(log) THEN FirstIndex(log) ELSE from)
                 - log.snapIndex
      end   == start + max - 1
  IN  SubSeq(log.entries, start,
             IF end < Len(log.entries) THEN end ELSE Len(log.entries))

Push(log, e) == [log EXCEPT !.entries = Append(@, e)]

\* Drop every entry with index >= idx (idx is above the base, or log.rs panics).
TruncateFrom(log, idx) ==
  [log EXCEPT !.entries = SubSeq(@, 1, idx - log.snapIndex - 1)]

\* Fold the entries up to idx into the base.
CompactLog(log, idx, term) ==
  [snapIndex |-> idx, snapTerm |-> term,
   entries   |-> SubSeq(log.entries, idx - log.snapIndex + 1, Len(log.entries))]

ResetToSnapshot(idx, term) ==
  [snapIndex |-> idx, snapTerm |-> term, entries |-> <<>>]
=============================================================================
