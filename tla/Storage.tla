------------------------------ MODULE Storage -------------------------------
(***************************************************************************)
(* The LSM storage engine (crates/storage): a write-ahead log, a memtable, *)
(* levels of sorted tables, and the manifest file that says which tables   *)
(* are at which level.  One process owns the directory; between any two    *)
(* changes of the disk it may crash and be started again.  Sizes in bytes  *)
(* become numbers of versions.  SyncPolicy::Always, as the Raft log uses.  *)
(***************************************************************************)
EXTENDS SsTable, TLC

CONSTANTS
  Keys,          \* a set of integers, ordered as the code orders byte strings
  Batches,       \* what clients write: sequences of [key, del]
  Handles,       \* places a client keeps a Snapshot in
  MemLimit,      \* Options::memtable_bytes
  L0Trigger,     \* Options::l0_trigger
  LevelBase, LevelMultiplier,
  TargetTable,   \* Options::target_table_bytes
  MaxSeq, MaxCrashes   \* bounds on the behaviours

VARIABLES
  wal,     \* disk: the frames of the log
  main,    \* disk: the file MANIFEST
  tmp,     \* disk: the file MANIFEST.tmp
  files,   \* disk: the tables, by id
  mem,     \* MemTable: a set of versions
  man,     \* Db::manifest; Db::levels are its tables, opened
  seq,     \* Db::seq
  snaps,   \* SnapshotRegistry: sequence number -> how many snapshots hold it
  held,    \* held[h]: the set of the Snapshot in h, empty if there is none
  pc,      \* where flush, compaction and the saving of the manifest stand
  job,     \* what is left to do once the manifest is saved
  crashes,
  shown    \* what clients can read: determined by the rest, kept to compare states

vars == <<wal, main, tmp, files, mem, man, seq, snaps, held, pc, job, crashes, shown>>
disk == <<wal, main, tmp, files>>
memory == <<mem, man, seq>>
client == <<snaps, held>>

NoManifest == [levels |-> <<<<>>>>, next |-> 0, last |-> 0]
NoFile == [is |-> "absent", man |-> NoManifest]
TornFile == [is |-> "torn", man |-> NoManifest]
NoJob == [new |-> {}, dead |-> {}, reset |-> FALSE]
NoSnaps == [s \in {} |-> 0]

\* A frame whose CRC fails.
TornFrame == [first |-> 0, ops |-> <<>>]

(***************************************************************************)
(* Reading                                                                 *)
(***************************************************************************)
Referenced(m) == UNION {ToSet(m.levels[i]) : i \in DOMAIN m.levels}

Memory == [mem |-> mem, man |-> man, seq |-> seq]

Newest(versions) == {v \in versions : \A w \in versions : w.seq <= v.seq}

\* The table of a sorted level whose key range may hold k.
Covering(level, k, fs) ==
  LET idx == 1 + Cardinality({i \in DOMAIN level : MaxKey(fs[level[i]]) < k})
  IN {level[i] : i \in {j \in DOMAIN level : j = idx /\ MinKey(fs[level[j]]) <= k}}

\* What one source answers: the memtable (0), level 0 (1), whose tables overlap and
\* are all asked, or one of the sorted levels.
Answer(db, i, k, s, fs) ==
  CASE i = 0 -> Newest({v \in db.mem : v.key = k /\ v.seq <= s})
    [] i = 1 -> Newest(UNION {TableGet(fs[id], k, s) : id \in ToSet(db.man.levels[1])})
    [] OTHER -> UNION {TableGet(fs[id], k, s) : id \in Covering(db.man.levels[i], k, fs)}

\* The value a reader is given for what the search found.
ValueOf(found) == IF \E v \in found : ~v.del THEN Max({v.seq : v \in found}) ELSE 0

\* Db::get_at: the first source that has a version of the key decides.
GetAt(db, k, s, fs) ==
  LET from[i \in 0..(Len(db.man.levels) + 1)] ==
        IF i > Len(db.man.levels) THEN {}
        ELSE UNION {IF hit # {} THEN hit ELSE from[i + 1] : hit \in {Answer(db, i, k, s, fs)}}
  IN CHOOSE value \in {ValueOf(found) : found \in {from[0]}} : TRUE

Reads(db, s, fs) == [k \in Keys |-> GetAt(db, k, s, fs)]

\* Db::scan_at over all keys.
ScanAt(db, s, fs) ==
  {v \in Visible(db.mem \cup UNION {Versions(fs[id]) : id \in Referenced(db.man)}, s) : ~v.del}

(***************************************************************************)
(* Opening the directory                                                   *)
(***************************************************************************)
\* Manifest::load: MANIFEST, or else MANIFEST.tmp.
Load(mainFile, tmpFile) ==
  IF mainFile.is = "whole" THEN mainFile.man
  ELSE IF tmpFile.is = "whole" THEN tmpFile.man ELSE NoManifest

\* Wal::replay: the frames before the first torn one; the rest is cut off.
Replay(frames) ==
  LET torn == {i \in DOMAIN frames : frames[i] = TornFrame}
  IN IF torn = {} THEN frames ELSE SubSeq(frames, 1, Min(torn) - 1)

VersionsOf(frame) ==
  {[key |-> frame.ops[i].key, seq |-> frame.first + i - 1, del |-> frame.ops[i].del]
     : i \in DOMAIN frame.ops}

\* What Db::open builds in memory from the disk.
Opened ==
  LET m == Load(main, tmp)
      versions == UNION {VersionsOf(f) : f \in ToSet(Replay(wal))}
  IN [mem |-> versions, man |-> m,
      seq |-> Max({m.last} \cup {v.seq : v \in versions})]

\* SsTable::open succeeds on every table of the manifest.
CanOpen ==
  \A id \in Referenced(Load(main, tmp)) : id \in DOMAIN files /\ files[id] # TornTable

\* What reads give now and through every snapshot; for a process that is down, what
\* they will give once it is started.
Shown ==
  LET From(db) ==
        [clock |-> db.seq, now |-> Reads(db, db.seq, files),
         pinned |-> [h \in Handles |-> {Reads(db, s, files) : s \in held[h]}]]
  IN CHOOSE r \in {From(db) : db \in {IF pc = "down" THEN Opened ELSE Memory}} : TRUE

Init ==
  /\ wal = <<>> /\ main = NoFile /\ tmp = NoFile /\ files = <<>>
  /\ mem = {} /\ man = NoManifest /\ seq = 0
  /\ snaps = NoSnaps /\ held = [h \in Handles |-> {}]
  /\ pc = "idle" /\ job = NoJob /\ crashes = 0
  /\ shown = Shown

Show == shown' = Shown'

AfterWrite(m) == IF Cardinality(m) >= MemLimit THEN "flush" ELSE "idle"

\* Mutant of Open: a torn frame stays in the log, and new ones go after it.
OpenKeepsTail ==
  /\ pc = "down"
  /\ CanOpen
  /\ mem' = Opened.mem /\ man' = Opened.man /\ seq' = Opened.seq
  /\ pc' = AfterWrite(mem')
  /\ UNCHANGED <<disk, client, job, crashes>>
  /\ Show

\* Db::open: read the manifest, replay the log, and flush if that filled the memtable.
Open ==
  /\ pc = "down"
  /\ CanOpen
  /\ mem' = Opened.mem /\ man' = Opened.man /\ seq' = Opened.seq
  /\ wal' = Replay(wal)
  /\ pc' = AfterWrite(mem')
  /\ UNCHANGED <<main, tmp, files, client, job, crashes>>
  /\ Show

(***************************************************************************)
(* Writes and snapshots                                                    *)
(***************************************************************************)
\* Db::write_batch up to maybe_flush: one frame, contiguous sequence numbers.
Write(b) ==
  /\ pc = "idle"
  /\ seq + Len(b) <= MaxSeq
  /\ wal' = Append(wal, [first |-> seq + 1, ops |-> b])
  /\ mem' = mem \cup VersionsOf([first |-> seq + 1, ops |-> b])
  /\ seq' = seq + Len(b)
  /\ pc' = AfterWrite(mem')
  /\ UNCHANGED <<main, tmp, files, man, client, job, crashes>>
  /\ Show

\* Db::snapshot.
TakeSnapshot(h) ==
  /\ pc = "idle" /\ held[h] = {}
  /\ held' = [held EXCEPT ![h] = {seq}]
  /\ snaps' = IF seq \in DOMAIN snaps THEN [snaps EXCEPT ![seq] = @ + 1]
              ELSE (seq :> 1) @@ snaps
  /\ UNCHANGED <<disk, memory, pc, job, crashes>>
  /\ Show

Released(s) ==
  IF snaps[s] > 1 THEN [snaps EXCEPT ![s] = @ - 1]
  ELSE [t \in DOMAIN snaps \ {s} |-> snaps[t]]

\* Snapshot::drop: another thread may drop it while the engine is compacting.
DropSnapshot(h) ==
  /\ pc # "down"
  /\ \E s \in held[h] : snaps' = Released(s)
  /\ held' = [held EXCEPT ![h] = {}]
  /\ UNCHANGED <<disk, memory, pc, job, crashes>>
  /\ Show

(***************************************************************************)
(* Flush and compaction                                                    *)
(***************************************************************************)
\* Db::flush: the memtable becomes a level 0 table.
Flush ==
  /\ pc = "flush"
  /\ files' = (man.next :> Build(mem)) @@ files
  /\ man' = [man EXCEPT !.next = @ + 1, !.last = seq,
                        !.levels[1] = Append(@, man.next)]
  /\ job' = [new |-> {man.next}, dead |-> {}, reset |-> TRUE]
  /\ pc' = "sync"
  /\ UNCHANGED <<wal, main, tmp, mem, seq, client, crashes>>
  /\ Show

\* Mutant of SyncTables: the manifest is saved without waiting for the tables.
SyncTablesLater ==
  /\ pc = "sync" /\ pc' = "create"
  /\ UNCHANGED <<disk, memory, client, job, crashes>>
  /\ Show

\* TableBuilder::finish: the tables are durable from here on.
SyncTables ==
  /\ pc = "sync"
  /\ job' = [job EXCEPT !.new = {}]
  /\ pc' = "create"
  /\ UNCHANGED <<disk, memory, client, crashes>>
  /\ Show

\* Manifest::save, one change of the disk at a time.
CreateTmp ==
  /\ pc = "create" /\ pc' = "fill"
  /\ tmp' = TornFile
  /\ UNCHANGED <<wal, main, files, memory, client, job, crashes>>
  /\ Show

FillTmp ==
  /\ pc = "fill" /\ pc' = "remove"
  /\ tmp' = [is |-> "whole", man |-> man]
  /\ UNCHANGED <<wal, main, files, memory, client, job, crashes>>
  /\ Show

RemoveMain ==
  /\ pc = "remove" /\ pc' = "rename"
  /\ main' = NoFile
  /\ UNCHANGED <<wal, tmp, files, memory, client, job, crashes>>
  /\ Show

Rename ==
  /\ pc = "rename" /\ pc' = "finish"
  /\ main' = tmp /\ tmp' = NoFile
  /\ UNCHANGED <<wal, files, memory, client, job, crashes>>
  /\ Show

\* The end of flush (the log is reset) and of compact_level (dead files go).
Finish ==
  /\ pc = "finish" /\ pc' = "compact"
  /\ IF job.reset THEN mem' = {} /\ wal' = <<>> ELSE UNCHANGED <<mem, wal>>
  /\ files' = Restrict(files, DOMAIN files \ job.dead)
  /\ job' = NoJob
  /\ UNCHANGED <<main, tmp, man, seq, client, crashes>>
  /\ Show

Size(level) == Cardinality(UNION {{<<id, v>> : v \in Versions(files[id])} : id \in ToSet(level)})

LevelLimit(i) == LevelBase * LevelMultiplier ^ (i - 2)

\* The levels maybe_compact finds too large; it takes the first.
Oversized ==
  {i \in DOMAIN man.levels : IF i = 1 THEN Len(man.levels[1]) >= L0Trigger
                             ELSE Size(man.levels[i]) > LevelLimit(i)}

NextLevel(i) == IF i < Len(man.levels) THEN man.levels[i + 1] ELSE <<>>

\* Mutant of Sources: a deeper level has nothing to compact while the next is empty.
SourcesToMerge(i) ==
  IF i = 1 THEN ToSet(man.levels[1])
  ELSE {id \in {Min(ToSet(man.levels[i]))} : NextLevel(i) # <<>>}

\* compact_level's inputs: all of level 0, the oldest table of a deeper level.
Sources(i) ==
  IF i = 1 THEN ToSet(man.levels[1]) ELSE {Min(ToSet(man.levels[i]))}

\* The tables of the next level whose key range meets that of the inputs.
Overlapping(i) ==
  LET src == Sources(i)
      minK == Min({MinKey(files[id]) : id \in src})
      maxK == Max({MaxKey(files[id]) : id \in src})
  IN {id \in ToSet(NextLevel(i)) : MaxKey(files[id]) >= minK /\ MinKey(files[id]) <= maxK}

\* Mutant of MinSnap: open snapshots are overlooked.
MinSnapNow == seq

\* The oldest sequence number somebody can still read at.
MinSnap == IF DOMAIN snaps = {} THEN seq ELSE Min(DOMAIN snaps)

\* What compaction keeps: all that is newer than the oldest snapshot, and of every
\* key the newest version that is not, unless it is a deletion with nothing below.
Kept(versions, bottom) ==
  {v \in versions : v.seq > MinSnap}
    \cup {v \in Visible(versions, MinSnap) : ~(v.del /\ bottom)}

\* The output tables: a new one is begun at a key once the last one is full.
Rotated(kept, keys) ==
  LET Add(acc, k) ==
        LET more == {v \in kept : v.key = k}
        IN IF Cardinality(acc.open) >= TargetTable
           THEN [done |-> Append(acc.done, acc.open), open |-> more]
           ELSE [acc EXCEPT !.open = @ \cup more]
      end == FoldLeft(Add, [done |-> <<>>, open |-> {}],
                      Sorted(keys, LAMBDA a, b : a < b))
  IN IF end.open = {} THEN end.done ELSE Append(end.done, end.open)

AtBottom(i) == \A l \in (i + 2)..Len(man.levels) : man.levels[l] = <<>>

\* Db::compact_level with inputs src, up to the saving of the manifest.
CompactLevel(i, src) ==
  \E dst \in {Overlapping(i)} :
  \E input \in {UNION {Versions(files[id]) : id \in src \cup dst}} :
  \E out \in {Rotated(Kept(input, AtBottom(i)), {v.key : v \in input})} :
    LET made == man.next..(man.next + Len(out) - 1)
        padded == IF i < Len(man.levels) THEN man.levels ELSE Append(man.levels, <<>>)
    IN /\ files' = [id \in made |-> Build(out[id - man.next + 1])] @@ files
       /\ man' = [man EXCEPT
            !.next = @ + Len(out),
            !.levels = [padded EXCEPT
              ![i] = SelectSeq(@, LAMBDA id : id \notin src),
              ![i + 1] = Sorted((ToSet(@) \ dst) \cup made,
                           LAMBDA x, y : MinKey(files'[x]) < MinKey(files'[y]))]]
       /\ job' = [new |-> made, dead |-> src \cup dst, reset |-> FALSE]
       /\ pc' = "sync"

\* maybe_compact finds a level too large; compact_level returns at once without inputs.
Compact ==
  /\ pc = "compact" /\ Oversized # {}
  /\ \E src \in {Sources(Min(Oversized))} :
       IF src = {} THEN UNCHANGED <<files, man, job, pc>>
       ELSE CompactLevel(Min(Oversized), src)
  /\ UNCHANGED <<wal, main, tmp, mem, seq, client, crashes>>
  /\ Show

\* maybe_compact finds nothing to do: the write returns.
Return ==
  /\ pc = "compact" /\ Oversized = {}
  /\ pc' = "idle"
  /\ UNCHANGED <<disk, memory, client, job, crashes>>
  /\ Show

(***************************************************************************)
(* Crashes                                                                 *)
(***************************************************************************)
\* Memory is lost and so are tables that were not synced yet.
LoseMemory ==
  /\ crashes < MaxCrashes /\ crashes' = crashes + 1
  /\ mem' = {} /\ man' = NoManifest /\ seq' = 0
  /\ snaps' = NoSnaps /\ held' = [h \in Handles |-> {}]
  /\ files' = [id \in DOMAIN files |-> IF id \in job.new THEN TornTable ELSE files[id]]
  /\ job' = NoJob
  /\ pc' = "down"
  /\ UNCHANGED <<main, tmp>>

Crash == pc # "down" /\ LoseMemory /\ UNCHANGED wal /\ Show

\* A crash while a frame is being appended to the log.
TornWrite ==
  /\ pc = "idle" /\ seq < MaxSeq
  /\ LoseMemory
  /\ wal' = Append(wal, TornFrame)
  /\ Show

Work ==
  \/ Flush \/ SyncTables \/ CreateTmp \/ FillTmp \/ RemoveMain \/ Rename
  \/ Finish \/ Compact \/ Return

Next ==
  \/ \E b \in Batches : Write(b)
  \/ \E h \in Handles : TakeSnapshot(h) \/ DropSnapshot(h)
  \/ Work
  \/ Crash \/ TornWrite \/ Open

\* A write in progress is a loop of the calling thread, which keeps running.
Spec == Init /\ [][Next]_vars /\ WF_vars(Work)

-----------------------------------------------------------------------------
Promised == INSTANCE VersionedMap WITH
  clock <- shown.clock, now <- shown.now, pinned <- shown.pinned

\* The engine is a versioned map: a batch takes effect at once, flushes and
\* compactions change neither the current map nor what an open snapshot shows, and
\* a crash between any two writes to the disk loses no acknowledged batch.
IsVersionedMap == Promised!Spec

\* A point read, which stops at the first level that has the key, finds what a scan
\* of everything finds, for the current map and for every open snapshot: no level
\* hides a newer version, and the block search misses none.
GetFindsNewest ==
  pc # "down" =>
    \A s \in {seq} \cup UNION {held[h] : h \in Handles} :
      LET found == ScanAt(Memory, s, files)
      IN Reads(Memory, s, files)
           = [k \in Keys |-> ValueOf({v \in found : v.key = k})]

\* Db::open never meets a manifest that names a table which is missing or was not
\* completely written.
TablesDurable == CanOpen

\* Between operations the directory holds all that memory holds: were the process
\* to crash now, the next one would serve the same map and number on from there.
DirectoryCurrent ==
  pc = "idle" =>
    /\ Opened.seq = seq
    /\ Reads(Opened, Opened.seq, files) = shown.now

\* A write comes back: the compactions it sets off run out of oversized levels.
WritesReturn == pc = "flush" ~> pc \in {"idle", "down"}
=============================================================================
