------------------------------ MODULE SsTable -------------------------------
(***************************************************************************)
(* Sorted tables of key versions (crates/storage/src/sstable.rs, bloom.rs) *)
(* and the merge of several of them (iter.rs).  A version is a record      *)
(* [key, seq, del]: the operation number seq put the value seq at key, or  *)
(* deleted it.  A table is its blocks, in the order they are in the file,  *)
(* and its Bloom filter; a file that was not completely written has none.  *)
(***************************************************************************)
EXTENDS Integers, Sequences, FiniteSetsExt, SequencesExt

CONSTANTS
  BlockLimit,  \* Options::block_bytes, in versions
  BloomBits,   \* bits of a filter
  Probes       \* BloomFilter::k

\* The order of versions in a table: keys up, and the newest version of a key first.
Before(v, w) == v.key < w.key \/ (v.key = w.key /\ v.seq > w.seq)

\* S as a sequence, for a strict total order Lt on it.
Sorted(S, Lt(_, _)) ==
  [i \in 1..Cardinality(S) |->
     CHOOSE v \in S : Cardinality({w \in S : Lt(w, v)}) = i - 1]

\* A key's probe positions; the arithmetic stands for fnv1a and mix.
ProbesOf(k) == {(5 * k + i * (2 * k + 1)) % BloomBits : i \in 0..(Probes - 1)}

MayContain(bloom, k) == ProbesOf(k) \subseteq bloom

TornTable == [blocks |-> <<>>, bloom |-> {}]

\* TableBuilder::add for every version in order, then finish: a block is closed as
\* soon as it is full, so the versions of one key may straddle blocks.
Build(versions) ==
  LET es == Sorted(versions, Before)
      n == Len(es)
      full == (n + BlockLimit - 1) \div BlockLimit
  IN [blocks |-> [i \in 1..full |->
                    SubSeq(es, (i - 1) * BlockLimit + 1,
                           IF i < full THEN i * BlockLimit ELSE n)],
      bloom |-> UNION {ProbesOf(v.key) : v \in versions}]

MinKey(t) == t.blocks[1][1].key

MaxKey(t) == Last(Last(t.blocks)).key

\* What iterating over the table yields.
Versions(t) == UNION {ToSet(t.blocks[i]) : i \in DOMAIN t.blocks}

\* Mutant of FirstBlock: an exact match of a block's first key skips the block before.
FirstBlockAtKey(t, k) ==
  LET upto == Cardinality({i \in DOMAIN t.blocks : t.blocks[i][1].key <= k})
  IN IF upto = 0 THEN 1 ELSE upto

\* The last block whose first key is below k: the newest versions of k may end it
\* even if the next block starts with k.
FirstBlock(t, k) ==
  LET below == Cardinality({i \in DOMAIN t.blocks : t.blocks[i][1].key < k})
  IN IF below = 0 THEN 1 ELSE below

\* The blocks SsTable::get reads: it goes on as long as the next one starts at or below k.
BlocksRead(t, k) ==
  {i \in FirstBlock(t, k)..Len(t.blocks) :
     i = FirstBlock(t, k) \/ t.blocks[i][1].key <= k}

\* SsTable::get: of those blocks, the first version of k that is visible at s.  A set,
\* empty for None.
TableGet(t, k, s) ==
  IF k < MinKey(t) \/ k > MaxKey(t) \/ ~MayContain(t.bloom, k) THEN {}
  ELSE UNION {{v \in hits : \A w \in hits : w = v \/ Before(v, w)} :
         hits \in {{v \in UNION {ToSet(t.blocks[i]) : i \in BlocksRead(t, k)} :
                      v.key = k /\ v.seq <= s}}}

\* VisibleIter over MergeIter: of every key the newest version visible at s.
Visible(versions, s) ==
  {v \in versions : v.seq <= s /\ \A w \in versions :
                      (w.key = v.key /\ w.seq <= s) => w.seq <= v.seq}
=============================================================================
