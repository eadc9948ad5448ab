---------------------------- MODULE SearchIndex ----------------------------
(***************************************************************************)
(* The USN indexer of one NTFS volume in the search service: its index in  *)
(* memory, and the two caches it starts from.  The binary snapshot is one  *)
(* file replaced by a rename; the SQLite rows and their checkpoint are     *)
(* written by transactions of their own after a full scan and by one       *)
(* transaction every five minutes.  Each cache carries the position in the *)
(* change journal (the USN) from which it is to be caught up.              *)
(*                                                                         *)
(* A file is known by its record number; name and parent folder are one    *)
(* place.  One journal record is one buffer.  Hardlinks, sizes (only       *)
(* whether they are known) and the identity of the volume are left out.    *)
(***************************************************************************)
EXTENDS Naturals, Sequences, FiniteSets

CONSTANTS
  File,         \* record numbers of the MFT
  Place,        \* a name in a folder
  Modes,        \* values of MTT_SEARCH_SKIP_SQLITE_DATA a service is started with
  MaxChanges,   \* bound: changes of the disk
  MaxFaults,    \* bound: failing reads and writes, and times the journal is lost
  NONE

ASSUME IndexAssumption ==
  /\ IsFiniteSet(File) /\ Modes \subseteq BOOLEAN
  /\ MaxChanges \in Nat /\ MaxFaults \in Nat
  /\ NONE \notin Place /\ NONE \notin [jid : Nat, usn : Nat, at : [File -> Place \cup {NONE}]]
  /\ NONE \notin [jid : Nat, usn : Nat, count : Nat]

VARIABLES
  disk,     \* [File -> Place or NONE]
  journal,  \* the records of the journal, the dropped ones included
  first,    \* FirstUsn: as many records are dropped
  jid,      \* UsnJournalID
  rows,     \* file_records
  state,    \* volume_state, or NONE
  binary,   \* index_<drive>.bin, or NONE
  phase,    \* where the indexer thread stands
  skip,     \* skip_sqlite_data_persistence
  info,     \* the journal as query_usn_journal found it
  index,    \* VolumeIndex
  worker,   \* the background size refresh: "idle", "pass" or "flush"
  todo,     \* files the scan has not read, or rows save_volume has not written
  leaving,  \* the service is shutting down
  changes, faults,
  drift     \* ghost: how the rows stand to their checkpoint ("none": the rows there are
            \* are those of it; "gap": the rows to be written no longer make them the
            \* index's; "rows": the checkpoint is not theirs; "served": an index was
            \* loaded from such rows)

volume == <<disk, journal, first, jid, changes>>
caches == <<rows, state, binary>>
thread == <<phase, skip, info, todo, leaving>>
vars == <<volume, caches, thread, index, worker, faults, drift>>

Places == [File -> Place \cup {NONE}]

Nothing == [f \in File |-> NONE]

Present(at) == {f \in File : at[f] # NONE}

\* VolumeIndex::empty
Empty == [at |-> Nothing, jid |-> 0, usn |-> 0, added |-> {}, removed |-> {},
          dirty |-> FALSE, sized |-> FALSE, unsized |-> FALSE]

NoInfo == [jid |-> 0, usn |-> 0]

Init ==
  /\ disk \in Places /\ journal = << >> /\ first = 0 /\ jid = 1
  /\ rows = Nothing /\ state = NONE /\ binary = NONE
  /\ phase = "down" /\ skip = FALSE /\ info = NoInfo
  /\ index = Empty /\ worker = "idle" /\ todo = {} /\ leaving = FALSE
  /\ changes = 0 /\ faults = 0
  /\ drift = "none"

Fault == faults < MaxFaults /\ faults' = faults + 1

----------------------------------------------------------------------------
(* The volume (external): its files, and the journal NTFS keeps of them.   *)

\* A file is created, moved, rewritten or deleted, and the journal says so.
Change(f, p) ==
  /\ changes < MaxChanges /\ changes' = changes + 1
  /\ p # NONE \/ disk[f] # NONE
  /\ disk' = [disk EXCEPT ![f] = p]
  /\ journal' = Append(journal,
       [file |-> f, at |-> p, sized |-> p # NONE /\ disk[f] \in {NONE, p}])
  /\ UNCHANGED <<first, jid, caches, thread, index, worker, faults, drift>>

\* The journal is full: its oldest records go.
Expire(n) ==
  /\ Fault
  /\ n \in first + 1..Len(journal)
  /\ first' = n
  /\ UNCHANGED <<disk, journal, jid, changes, caches, thread, index, worker, drift>>

\* The journal is deleted and created anew.
NewJournal ==
  /\ Fault
  /\ jid' = jid + 1 /\ journal' = << >> /\ first' = 0
  /\ UNCHANGED <<disk, changes, caches, thread, index, worker, drift>>

\* The snapshot fails its HMAC when it is next read.
Spoil ==
  /\ phase = "down" /\ binary # NONE /\ Fault
  /\ binary' = NONE
  /\ UNCHANGED <<volume, rows, state, thread, index, worker, drift>>

\* FSCTL_READ_USN_JOURNAL from a position.
Readable(usn) == info.jid = jid /\ first <= usn

----------------------------------------------------------------------------
(* The index and its records.                                              *)

\* Mutant: a removal leaves the record among the pending additions.
AppliedKeepsAddition(i, r) ==
  [i EXCEPT
     !.at[r.file] = r.at,
     !.usn = i.usn + 1,
     !.added = IF r.at = NONE THEN @ ELSE @ \cup {r.file},
     !.removed = IF r.at = NONE THEN @ \cup {r.file} ELSE @ \ {r.file},
     !.dirty = TRUE]

\* Mutant: the position stays when a record is applied.
AppliedInPlace(i, r) ==
  [i EXCEPT !.at[r.file] = r.at, !.added = @ \cup {r.file}, !.dirty = TRUE]

\* parse_usn_records for one record: insert_record, move_record or
\* remove_record, whose no-ops leave the sets of pending rows alone.
Applied(i, r) ==
  LET f == r.file
      same == i.at[f] = r.at
  IN [i EXCEPT
        !.at[f] = r.at,
        !.usn = i.usn + 1,
        !.added = IF same THEN @ ELSE IF r.at = NONE THEN @ \ {f} ELSE @ \cup {f},
        !.removed = IF same THEN @
                    ELSE IF r.at # NONE THEN @ \ {f}
                    ELSE IF f \in i.added THEN @ ELSE @ \cup {f},
        !.dirty = @ \/ ~same,
        !.unsized = @ \/ r.sized]

\* Mutant: the snapshot's position is the journal's end.
SnapshotAtEnd(i) == [jid |-> i.jid, usn |-> Len(journal), at |-> i.at]

\* index_db::binary::save
Snapshot(i) == [jid |-> i.jid, usn |-> i.usn, at |-> i.at]

\* PersistedVolumeState
Checkpoint(i) == [jid |-> i.jid, usn |-> i.usn, count |-> Cardinality(Present(i.at))]

\* Every change a copy of the index lacks has a record after its position.
Covers(at, usn) == \A f \in File :
  at[f] = disk[f] \/ \E n \in usn + 1..Len(journal) : journal[n].file = f

\* Ghosts.  Some row is not what a copy of the index has.
Parted(at) == \E f \in File : rows[f] # NONE /\ rows[f] # at[f]

\* clear_pending forgets what the rows lack of the index.
Forgets(at) == IF drift \notin {"none", "gap"} THEN drift
               ELSE IF Parted(at) THEN "gap" ELSE "none"

\* A checkpoint is written, and the rows are left as they are.
LeavesRows(at) == IF drift # "served" /\ Parted(at) THEN "rows" ELSE drift

\* The rows are written as well.
WithRows == IF drift = "served" THEN drift ELSE "none"

\* remove_record takes a file that has a row for one that never reached the database.
Orphans(i, r) == r.at = NONE /\ r.file \in i.added /\ rows[r.file] # NONE

\* publish_and_run
Publish(i) ==
  /\ phase' = "serve" /\ index' = i /\ todo' = {}
  /\ worker' = IF i.sized THEN "idle" ELSE "pass"

Serving == phase \in {"serve", "state", "flush"}

----------------------------------------------------------------------------
(* Start: the caches, the journal and the choice between them.             *)

Start ==
  /\ phase = "down" /\ phase' = "query"
  /\ skip' \in Modes
  /\ UNCHANGED <<volume, caches, info, todo, leaving, index, worker, faults, drift>>

Query ==
  /\ phase = "query"
  /\ \/ /\ phase' = "choose" /\ info' = [jid |-> jid, usn |-> Len(journal)]
        /\ UNCHANGED faults
     \/ Fault /\ phase' = "fallback" /\ UNCHANGED info
  /\ UNCHANGED <<volume, caches, skip, todo, leaving, index, worker, drift>>

\* prefer_sqlite_with_mode
PreferRows == binary # NONE /\ state # NONE /\
  \/ ~skip /\ state.jid = binary.jid /\ state.usn > binary.usn
  \/ state.jid = info.jid /\ binary.jid # info.jid

FromRows == state # NONE /\ (binary = NONE \/ PreferRows)
FromBinary == binary # NONE /\ ~PreferRows

\* has_usable_cached_records of a snapshot of this journal.
UsableBinary == binary.jid = info.jid /\ binary.at # Nothing

\* Mutant: the rows are not counted.
UsableUncounted == state.jid = info.jid /\ rows # Nothing

\* Rows are used when there are as many as the checkpoint says.
UsableRows ==
  /\ state.jid = info.jid
  /\ state.count > 0 /\ state.count = Cardinality(Present(rows))

Load(i) == phase' = "catchup" /\ index' = i /\ UNCHANGED todo

Scan == phase' = "scan" /\ index' = Empty /\ todo' = File

\* The discarded snapshot is removed, or stays when that fails.
Choose ==
  /\ phase = "choose"
  /\ \/ /\ FromBinary
        /\ IF UsableBinary
             THEN /\ Load([Empty EXCEPT !.at = binary.at, !.jid = info.jid,
                                        !.usn = binary.usn, !.sized = TRUE])
                  /\ drift' = Forgets(binary.at)
             ELSE Scan /\ UNCHANGED drift
        /\ UNCHANGED <<caches, faults>>
     \/ /\ FromRows
        /\ IF UsableRows
             THEN /\ Load([Empty EXCEPT !.at = rows, !.jid = info.jid, !.usn = state.usn])
                  /\ drift' = IF drift = "rows" THEN "served" ELSE Forgets(rows)
             ELSE Scan /\ UNCHANGED drift
        /\ \/ binary' = NONE /\ UNCHANGED faults
           \/ binary # NONE /\ Fault /\ UNCHANGED binary
        /\ UNCHANGED <<rows, state>>
     \/ binary = NONE /\ state = NONE /\ Scan /\ UNCHANGED <<caches, faults, drift>>
  /\ UNCHANGED <<volume, skip, info, leaving, worker>>

\* read_usn_changes: one buffer, and the index is published.  A journal that
\* cannot be read from the position of the cache leads to a full scan.
CatchUp ==
  /\ phase = "catchup"
  /\ \/ /\ Readable(index.usn)
        /\ Publish(IF index.usn < Len(journal)
                     THEN Applied(index, journal[index.usn + 1]) ELSE index)
        /\ UNCHANGED faults
     \/ /\ (~Readable(index.usn) /\ UNCHANGED faults) \/ Fault
        /\ Scan /\ UNCHANGED worker
  /\ UNCHANGED <<volume, caches, skip, info, leaving, drift>>

----------------------------------------------------------------------------
(* build_and_persist: the scan of the MFT, record by record while files    *)
(* change, and what it writes.                                             *)

ReadRecord(f) ==
  /\ phase = "scan" /\ f \in todo
  /\ index' = [index EXCEPT !.at[f] = disk[f]]
  /\ todo' = todo \ {f}
  /\ UNCHANGED <<volume, caches, phase, skip, info, leaving, worker, faults, drift>>

\* Mutant: the position is the journal's end when the scan is over.
PositionAfterScan == Len(journal)

\* The position is the journal's end before the scan.
ScanPosition == info.usn

\* validate_mft_index and save_and_remap.
SaveBinary ==
  /\ phase = "scan" /\ todo = {} /\ index.at # Nothing
  /\ LET i == [index EXCEPT !.jid = info.jid, !.usn = ScanPosition, !.sized = TRUE]
     IN \/ /\ binary' = Snapshot(i) /\ index' = i
           /\ phase' = "written" /\ UNCHANGED faults
        \/ /\ Fault /\ index' = [i EXCEPT !.dirty = FALSE]
           /\ phase' = "unwritten" /\ UNCHANGED binary
  /\ UNCHANGED <<volume, rows, state, skip, info, todo, leaving, worker, drift>>

\* The scan fails or finds nothing: the file system is walked instead, which
\* is not followed here.
ScanFails ==
  /\ phase = "scan"
  /\ (todo = {} /\ index.at = Nothing /\ UNCHANGED faults) \/ Fault
  /\ phase' = "fallback" /\ index' = Empty /\ todo' = {}
  /\ UNCHANGED <<volume, caches, skip, info, leaving, worker, drift>>

\* save_volume_state_snapshot, before any row is written.
SaveState ==
  /\ phase \in {"written", "unwritten"}
  /\ \/ /\ state' = Checkpoint(index) /\ (~skip \/ phase = "written") /\ UNCHANGED faults
        /\ drift' = LeavesRows(index.at)
     \/ Fault /\ UNCHANGED <<state, drift>>
     \/ skip /\ phase = "unwritten" /\ UNCHANGED <<state, faults, drift>>
  /\ phase' = IF ~skip THEN "delete" ELSE IF phase = "written" THEN "purge" ELSE "ready"
  /\ UNCHANGED <<volume, rows, binary, skip, info, todo, leaving, index, worker>>

\* purge_volume_data, whose errors are ignored; the first transaction of
\* save_volume, whose failure ends it.
DeleteRows ==
  /\ phase \in {"purge", "delete"}
  /\ \/ /\ rows' = Nothing /\ drift' = WithRows /\ UNCHANGED faults
        /\ IF phase = "purge" THEN phase' = "ready" /\ UNCHANGED todo
           ELSE phase' = "insert" /\ todo' = Present(index.at)
     \/ Fault /\ phase' = "ready" /\ UNCHANGED <<rows, todo, drift>>
  /\ UNCHANGED <<volume, state, binary, skip, info, leaving, index, worker>>

\* One transaction of save_volume per batch of rows.
InsertRows ==
  /\ phase = "insert" /\ todo # {}
  /\ \/ /\ \E batch \in SUBSET todo \ {{}} :
             /\ rows' = [f \in File |-> IF f \in batch THEN index.at[f] ELSE rows[f]]
             /\ todo' = todo \ batch
        /\ drift' = IF drift = "served" \/ state \in {NONE, Checkpoint(index)} THEN drift
                    ELSE "rows"
        /\ UNCHANGED <<phase, faults>>
     \/ Fault /\ phase' = "ready" /\ UNCHANGED <<rows, drift>> /\ todo' = {}
  /\ UNCHANGED <<volume, state, binary, skip, info, leaving, index, worker>>

\* The end of save_volume.
PublishCheckpoint ==
  /\ phase = "insert" /\ todo = {}
  /\ \/ state' = Checkpoint(index) /\ drift' = WithRows /\ UNCHANGED faults
     \/ Fault /\ UNCHANGED <<state, drift>>
  /\ phase' = "ready"
  /\ UNCHANGED <<volume, rows, binary, skip, info, todo, leaving, index, worker>>

\* What failed to be written is forgotten.
Ready ==
  /\ phase = "ready" /\ Publish(index)
  /\ drift' = Forgets(index.at)
  /\ UNCHANGED <<volume, caches, skip, info, leaving, faults>>

----------------------------------------------------------------------------
(* run_incremental.                                                        *)

\* A buffer is read and applied; a read that fails is tried again, whatever
\* the reason.
Read ==
  /\ phase = "serve" /\ ~leaving
  /\ Readable(index.usn) /\ index.usn < Len(journal)
  /\ LET r == journal[index.usn + 1]
     IN /\ index' = Applied(index, r)
        /\ drift' = IF drift = "none" /\ Orphans(index, r) THEN "gap" ELSE drift
  /\ UNCHANGED <<volume, caches, thread, worker, faults>>

\* The pending sizes are read; the values may be the known ones.
RefreshSizes ==
  /\ phase = "serve" /\ ~leaving /\ index.sized /\ index.unsized
  /\ \E new \in BOOLEAN :
       index' = [index EXCEPT !.unsized = FALSE, !.dirty = @ \/ new]
  /\ UNCHANGED <<volume, caches, thread, worker, faults, drift>>

MayFlush == index.dirty /\ index.sized /\ ~index.unsized

\* flush_binary_snapshot_if_dirty writes the whole index.
Flushed == MayFlush /\ binary' = Snapshot(index) /\ index' = [index EXCEPT !.dirty = FALSE]

\* Nothing to write, not now, or the write fails.
NotFlushed ==
  /\ (~MayFlush /\ UNCHANGED faults) \/ (MayFlush /\ Fault)
  /\ UNCHANGED <<binary, index>>

\* sync_volume_incremental_snapshot: the changed rows and the checkpoint in one
\* transaction.  When it fails the pending sets are restored.
PersistRows ==
  /\ phase = "serve" /\ ~skip
  /\ \/ /\ rows' = [f \in File |-> IF f \in index.added THEN index.at[f]
                                   ELSE IF f \in index.removed THEN NONE ELSE rows[f]]
        /\ state' = Checkpoint(index)
        /\ index' = [index EXCEPT !.added = {}, !.removed = {}]
        /\ drift' = IF drift = "gap" THEN "rows" ELSE drift
        /\ UNCHANGED faults
     \/ Fault /\ UNCHANGED <<rows, state, index, drift>>
  /\ phase' = "flush"
  /\ UNCHANGED <<volume, binary, skip, info, todo, leaving, worker>>

\* Without rows the checkpoint waits for the snapshot.
PersistBinary ==
  /\ phase = "serve" /\ skip
  /\ \/ Flushed /\ phase' = "state" /\ UNCHANGED faults
     \/ NotFlushed /\ phase' = IF index.dirty THEN "flush" ELSE "state"
  /\ UNCHANGED <<volume, rows, state, skip, info, todo, leaving, worker, drift>>

PersistState ==
  /\ phase = "state"
  /\ \/ /\ state' = Checkpoint(index)
        /\ index' = [index EXCEPT !.added = {}, !.removed = {}]
        /\ drift' = LeavesRows(index.at)
        /\ UNCHANGED faults
     \/ Fault /\ UNCHANGED <<state, index, drift>>
  /\ phase' = "flush"
  /\ UNCHANGED <<volume, rows, binary, skip, info, todo, leaving, worker>>

\* The flush after a persist; a thread that is leaving ends with it.
Flush ==
  /\ phase = "flush"
  /\ (Flushed /\ UNCHANGED faults) \/ NotFlushed
  /\ phase' = IF leaving THEN "left" ELSE "serve"
  /\ UNCHANGED <<volume, rows, state, skip, info, todo, leaving, worker, drift>>

\* The service shuts down: the thread persists once more.
Shutdown ==
  /\ phase = "serve" /\ ~leaving
  /\ leaving' = TRUE
  /\ UNCHANGED <<volume, caches, phase, skip, info, todo, index, worker, faults, drift>>

\* The volume is removed, which persists nothing; the service ends or is
\* killed, or the machine stops.
Halt ==
  /\ phase # "down"
  /\ phase' = "down" /\ skip' = FALSE /\ info' = NoInfo
  /\ index' = Empty /\ worker' = "idle" /\ todo' = {} /\ leaving' = FALSE
  /\ UNCHANGED <<volume, caches, faults, drift>>

----------------------------------------------------------------------------
(* spawn_background_size_refresh: a thread of its own, for an index whose  *)
(* cache had no sizes.                                                     *)

SizePass ==
  /\ worker = "pass" /\ Serving /\ ~leaving
  /\ \/ /\ index' = [index EXCEPT !.sized = TRUE, !.dirty = @ \/ ~index.sized]
        /\ worker' = "flush" /\ UNCHANGED faults
     \/ Fault /\ worker' = "idle" /\ UNCHANGED index
  /\ UNCHANGED <<volume, caches, thread, drift>>

SizeFlush ==
  /\ worker = "flush" /\ Serving /\ ~leaving
  /\ (Flushed /\ UNCHANGED faults) \/ NotFlushed
  /\ worker' = "idle"
  /\ UNCHANGED <<volume, rows, state, thread, drift>>

----------------------------------------------------------------------------

Outside ==
  \/ \E f \in File, p \in Place \cup {NONE} : Change(f, p)
  \/ \E n \in 1..MaxChanges : Expire(n)
  \/ NewJournal
  \/ Spoil
  \/ Shutdown
  \/ Halt

Starting ==
  \/ Query \/ Choose \/ CatchUp
  \/ (\E f \in File : ReadRecord(f)) \/ SaveBinary \/ ScanFails
  \/ SaveState \/ DeleteRows \/ InsertRows \/ PublishCheckpoint \/ Ready

Persist == PersistRows \/ PersistBinary \/ PersistState \/ Flush

Next == Outside \/ Start \/ Starting \/ Read \/ RefreshSizes \/ Persist
        \/ SizePass \/ SizeFlush

Spec == Init /\ [][Next]_vars

\* The thread runs: a start and a persist go on to their end, and every pass of the
\* loop reads the journal before it looks at the time to persist, so persisting
\* does not keep it from reading.
FairSpec == Spec /\ WF_vars(Starting) /\ WF_vars(PersistState \/ Flush) /\ SF_vars(Read)

----------------------------------------------------------------------------
(* Properties.                                                             *)

\* Every variable has its type.
TypeOK ==
  /\ disk \in Places /\ rows \in Places
  /\ journal \in Seq([file : File, at : Place \cup {NONE}, sized : BOOLEAN])
  /\ first \in Nat /\ jid \in Nat \ {0}
  /\ state = NONE \/ state \in [jid : Nat, usn : Nat, count : Nat]
  /\ binary = NONE \/ binary \in [jid : Nat, usn : Nat, at : Places]
  /\ phase \in {"down", "query", "choose", "catchup", "scan", "written", "unwritten",
                "delete", "purge", "insert", "ready", "serve", "state", "flush",
                "left", "fallback"}
  /\ info \in [jid : Nat, usn : Nat]
  /\ index \in [at : Places, jid : Nat, usn : Nat, added : SUBSET File,
                removed : SUBSET File, dirty : BOOLEAN, sized : BOOLEAN,
                unsized : BOOLEAN]
  /\ worker \in {"idle", "pass", "flush"} /\ todo \subseteq File
  /\ skip \in BOOLEAN /\ leaving \in BOOLEAN
  /\ drift \in {"none", "gap", "rows", "served"}
  /\ changes \in Nat /\ faults \in Nat

\* What a search finds differs from the disk only in files the journal has yet
\* to tell of: whatever was scanned while files changed, whichever cache the
\* index was loaded from, and wherever a crash fell, one between a checkpoint and
\* the batches of rows it is for included (index_volume, run_incremental).  Once
\* an index was loaded from rows under a checkpoint that is not theirs it says
\* nothing: one that moved on although rows that differ were forgotten
\* (clear_pending, remove_record) or are not written (without SQLite data), or
\* one written before old rows were deleted or new ones had their own.
IndexFollows ==
  Serving /\ drift # "served" /\ index.jid = jid => Covers(index.at, index.usn)

\* The snapshot on disk can be caught up at any time, whatever is written when
\* (flush_binary_snapshot_if_dirty, from two threads); with the same exception, for
\* an index loaded from such rows is written to the snapshot as it is.
SnapshotFollows ==
  drift # "served" /\ binary # NONE /\ binary.jid = jid => Covers(binary.at, binary.usn)

\* What take_pending_snapshot refuses never comes to be: a record that waits to be
\* written is in the index (persistence.rs), and no record waits for both.
PendingIsKnown ==
  /\ index.added \subseteq Present(index.at)
  /\ index.added \cap index.removed = {}

\* The rows an index is served from lack no change that the journal is not read
\* for again (sync.rs: the checkpoint and its record deltas become durable together).
RowsFollow ==
  Serving /\ worker = "pass" /\ index.jid = jid => Covers(index.at, index.usn)

\* An indexer that starts serves an index that has read the whole journal, unless
\* it stops, walks the file system instead, or loses the journal.
IndexCatchesUp ==
  phase = "query" ~> \/ phase \in {"down", "left", "fallback"} \/ leaving
                     \/ Serving /\ (index.usn = Len(journal) \/ ~Readable(index.usn))
============================================================================
