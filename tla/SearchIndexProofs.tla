------------------------- MODULE SearchIndexProofs -------------------------
(***************************************************************************)
(* That the index and its binary snapshot can always be caught up: each    *)
(* lacks only changes the journal tells of after its position.  The        *)
(* strengthening says what a position is (never beyond the journal it      *)
(* belongs to), what the journal knows of the disk (the last record on a   *)
(* file tells where it is), and what a scan under way has.  And that no    *)
(* row waits to be written for a file that is gone.                        *)
(***************************************************************************)
EXTENDS SearchIndex, FiniteSetTheorems, TLAPS

Record == [file : File, at : Place \cup {NONE}, sized : BOOLEAN]
Indexes == [at : Places, jid : Nat, usn : Nat, added : SUBSET File,
            removed : SUBSET File, dirty : BOOLEAN, sized : BOOLEAN, unsized : BOOLEAN]
Snapshots == [jid : Nat, usn : Nat, at : Places]
Checkpoints == [jid : Nat, usn : Nat, count : Nat]

\* Phases in which the index holds what was loaded or scanned.
Held == {"catchup", "written", "unwritten", "delete", "purge", "insert", "ready",
         "serve", "state", "flush", "left"}

\* The last record on a file tells where the file is.
Told == \A n \in 1..Len(journal) :
  (\A m \in n + 1..Len(journal) : journal[m].file # journal[n].file)
    => disk[journal[n].file] = journal[n].at

\* A position is in a journal of the past, or not beyond the end of this one.
Behind(c) == c.jid <= jid /\ (c.jid = jid => c.usn <= Len(journal))

Positions ==
  /\ Behind(info) /\ Behind(index)
  /\ state # NONE => Behind(state)
  /\ binary # NONE => Behind(binary)

\* Every change to some files that a copy lacks has a record after a position.
Knows(S, at, usn) == \A f \in S :
  at[f] = disk[f] \/ \E n \in usn + 1..Len(journal) : journal[n].file = f

\* The same after a step.
KnowsNext(S, at, usn) == \A f \in S :
  at[f] = disk'[f] \/ \E n \in usn + 1..Len(journal') : journal'[n].file = f

\* What the scan has read is out of date only where the journal goes on.
Scanned == phase = "scan" /\ info.jid = jid => Knows(File \ todo, index.at, info.usn)

Loaded ==
  phase \in Held /\ drift # "served" /\ index.jid = jid => Covers(index.at, index.usn)

\* The rows there are are those of a copy of the index.
PartOf(at) == \A f \in File : rows[f] # NONE => rows[f] = at[f]

\* The copy lacks nothing the journal does not tell of after the checkpoint, and
\* the checkpoint has counted it.
Vouches(S) == PartOf(S) /\ Covers(S, state.usn) /\ Cardinality(Present(S)) = state.count

\* The rows, complete or not, are those of a copy the checkpoint stands for: a crash
\* between them leaves too few.
RowsVouched ==
  drift \in {"none", "gap"} /\ state # NONE /\ state.jid = jid /\ rows # Nothing
    => \E S \in Places : Vouches(S)

\* Phases in which changes are read into the index.
Awake == {"catchup", "serve", "state", "flush", "left"}

\* A row that differs from the index waits to be written or deleted.
Tracked ==
  /\ phase = "catchup" => index.added = {}
  /\ phase \in Awake /\ drift = "none" =>
       \A f \in File \ (index.added \cup index.removed) : rows[f] # NONE => rows[f] = index.at[f]

\* The rows of a scan are written over none.
Inserting == phase = "insert" => PartOf(index.at)

RowsInv == RowsVouched /\ Tracked /\ Inserting

IInv == TypeOK /\ Told /\ Positions /\ Scanned /\ Loaded /\ SnapshotFollows /\ RowsInv

----------------------------------------------------------------------------

LEMMA Counted ==
  ASSUME NEW at \in Places
  PROVE  Cardinality(Present(at)) \in Nat
<1>1. Present(at) \subseteq File  BY DEF Present
<1>2. IsFiniteSet(Present(at))  BY <1>1, IndexAssumption, FS_Subset
<1> QED  BY <1>2, FS_CardinalityType

LEMMA CheckpointTyped ==
  ASSUME NEW i \in Indexes
  PROVE  Checkpoint(i) \in Checkpoints /\ Checkpoint(i).jid = i.jid /\ Checkpoint(i).usn = i.usn
<1>1. i.at \in Places  BY DEF Indexes
<1>2. Cardinality(Present(i.at)) \in Nat  BY <1>1, Counted
<1> QED  BY <1>2 DEF Checkpoint, Checkpoints, Indexes

\* The fields a record of the journal changes.
With(i, a, u, add, rem, d, z) ==
  [i EXCEPT !.at = a, !.usn = u, !.added = add, !.removed = rem, !.dirty = d, !.unsized = z]

LEMMA Rebuilt ==
  ASSUME NEW i \in Indexes, NEW a \in Places, NEW u \in Nat, NEW add \in SUBSET File,
         NEW rem \in SUBSET File, NEW d \in BOOLEAN, NEW z \in BOOLEAN
  PROVE  /\ With(i, a, u, add, rem, d, z) \in Indexes
         /\ With(i, a, u, add, rem, d, z).at = a
         /\ With(i, a, u, add, rem, d, z).usn = u
         /\ With(i, a, u, add, rem, d, z).jid = i.jid
BY DEF Indexes, With

LEMMA AppliedTyped ==
  ASSUME NEW i \in Indexes, NEW r \in Record
  PROVE  /\ Applied(i, r) \in Indexes
         /\ Applied(i, r).at = [i.at EXCEPT ![r.file] = r.at]
         /\ Applied(i, r).usn = i.usn + 1 /\ Applied(i, r).jid = i.jid
<1> DEFINE f == r.file
           same == i.at[f] = r.at
           at == [i.at EXCEPT ![f] = r.at]
           add == IF same THEN i.added ELSE IF r.at = NONE THEN i.added \ {f} ELSE i.added \cup {f}
           rem == IF same THEN i.removed
                  ELSE IF r.at # NONE THEN i.removed \ {f}
                  ELSE IF f \in i.added THEN i.removed ELSE i.removed \cup {f}
           d == i.dirty \/ ~same
           z == i.unsized \/ r.sized
           u == i.usn + 1
           new == With(i, at, u, add, rem, d, z)
<1>1. Applied(i, r) = new  BY DEF Applied, With
<1>2. f \in File /\ r.at \in Place \cup {NONE}  BY DEF Record
<1>3. i.at \in [File -> Place \cup {NONE}] /\ u \in Nat  BY DEF Indexes, Places
<1>4. at \in Places  BY <1>2, <1>3 DEF Places
<1>5. add \in SUBSET File /\ rem \in SUBSET File  BY <1>2 DEF Indexes
<1>6. d \in BOOLEAN /\ z \in BOOLEAN  OBVIOUS
<1>7. new \in Indexes /\ new.at = at /\ new.usn = u /\ new.jid = i.jid
  <2> HIDE DEF at, add, rem, d, z, u
  <2> QED  BY <1>3, <1>4, <1>5, <1>6, Rebuilt
<1> QED  BY <1>1, <1>7

LEMMA SnapshotTyped ==
  ASSUME NEW i \in Indexes
  PROVE  Snapshot(i) \in Snapshots /\ Snapshot(i) = [jid |-> i.jid, usn |-> i.usn, at |-> i.at]
BY DEF Snapshot, Snapshots, Indexes

LEMMA EmptyTyped == Empty \in Indexes /\ Empty.jid = 0 /\ Empty.usn = 0
BY DEF Empty, Indexes, Nothing, Places

----------------------------------------------------------------------------
(* Types.                                                                   *)

\* The index is an index whatever a step does to it.
LEMMA IndexTyped ==
  ASSUME TypeOK, [Next]_vars
  PROVE  index' \in Indexes /\ Empty \in Indexes
<1>0. index \in Indexes /\ disk \in Places /\ rows \in Places /\ info \in [jid : Nat, usn : Nat]
  BY DEF TypeOK, Indexes
<1>e. Empty \in Indexes  BY EmptyTyped
<1>a. ASSUME index.usn < Len(journal) PROVE Applied(index, journal[index.usn + 1]) \in Indexes
  <2>1. index.usn + 1 \in 1..Len(journal)  BY <1>0, <1>a DEF TypeOK, Indexes
  <2>2. journal[index.usn + 1] \in Record
    <3>1. journal \in Seq(Record)  BY DEF TypeOK, Record
    <3> QED  BY <2>1, <3>1
  <2> QED  BY <1>0, <2>2, AppliedTyped
<1>1. CASE UNCHANGED index  BY <1>0, <1>e, <1>1
<1>2. CASE Choose
  <2>1. CASE index' = Empty  BY <2>1, <1>e
  <2>2. CASE FromBinary /\ index' = [Empty EXCEPT !.at = binary.at, !.jid = info.jid,
                                     !.usn = binary.usn, !.sized = TRUE]
    <3>1. binary.at \in Places /\ binary.usn \in Nat /\ info.jid \in Nat
      BY <2>2, <1>0 DEF FromBinary, TypeOK
    <3> QED  BY <2>2, <3>1, <1>e DEF Indexes
  <2>3. CASE FromRows /\ index' = [Empty EXCEPT !.at = rows, !.jid = info.jid, !.usn = state.usn]
    <3>1. state.usn \in Nat /\ info.jid \in Nat
      BY <2>3, <1>0 DEF FromRows, TypeOK
    <3> QED  BY <2>3, <3>1, <1>0, <1>e DEF Indexes
  <2> QED  BY <1>2, <2>1, <2>2, <2>3 DEF Choose, Load, Scan
<1>3. CASE CatchUp
  <2>1. CASE index' = Empty  BY <2>1, <1>e
  <2>2. CASE index' = (IF index.usn < Len(journal)
                         THEN Applied(index, journal[index.usn + 1]) ELSE index)
    BY <2>2, <1>a, <1>0, <1>e
  <2> QED  BY <1>3, <2>1, <2>2 DEF CatchUp, Publish, Scan
<1>4. CASE \E f \in File : ReadRecord(f)
  <2>1. PICK f \in File : index' = [index EXCEPT !.at[f] = disk[f]]
    BY <1>4 DEF ReadRecord
  <2>2. disk[f] \in Place \cup {NONE} /\ index.at \in Places  BY <1>0 DEF Places, Indexes
  <2>3. [index.at EXCEPT ![f] = disk[f]] \in Places  BY <2>2 DEF Places
  <2> QED  BY <2>1, <2>3, <1>0, <1>e DEF Indexes
<1>5. CASE SaveBinary
  <2>1. info.jid \in Nat /\ info.usn \in Nat  BY <1>0
  <2> QED  BY <1>5, <2>1, <1>0, <1>e DEF SaveBinary, Indexes, ScanPosition
<1>6. CASE ScanFails \/ Halt  BY <1>6, <1>e DEF ScanFails, Halt
<1>7. CASE Read  BY <1>7, <1>a, <1>e DEF Read
<1>8. CASE RefreshSizes
  <2>1. PICK new \in BOOLEAN :
          index' = [index EXCEPT !.unsized = FALSE, !.dirty = index.dirty \/ new]
    BY <1>8 DEF RefreshSizes
  <2>2. (index.dirty \/ new) \in BOOLEAN  BY Zenon
  <2> QED  BY <2>1, <2>2, <1>0, <1>e DEF Indexes
<1>9. CASE PersistRows \/ PersistState
  BY <1>9, <1>0, <1>e DEF PersistRows, PersistState, Indexes
<1>10. CASE PersistBinary \/ Flush \/ SizeFlush
  BY <1>10, <1>0, <1>e DEF PersistBinary, Flush, SizeFlush, Flushed, NotFlushed, Indexes
<1>11. CASE SizePass
  <2>1. (index.dirty \/ ~index.sized) \in BOOLEAN  BY Zenon
  <2>2. index' = index \/ index' = [index EXCEPT !.sized = TRUE, !.dirty = index.dirty \/ ~index.sized]
    BY <1>11 DEF SizePass
  <2> QED  BY <2>1, <2>2, <1>0, <1>e DEF Indexes
<1>12. CASE Outside /\ ~Halt
  BY <1>12, <1>1 DEF Outside, Change, Expire, NewJournal, Spoil, Shutdown
<1>13. CASE Start \/ Query  BY <1>13, <1>1 DEF Start, Query
<1>14. CASE SaveState \/ DeleteRows \/ InsertRows \/ PublishCheckpoint
  BY <1>14, <1>1 DEF SaveState, DeleteRows, InsertRows, PublishCheckpoint
<1>15. CASE Ready  BY <1>15, <1>1 DEF Ready, Publish
<1>16. CASE UNCHANGED vars  BY <1>16, <1>1 DEF vars
<1> QED
  BY <1>2, <1>3, <1>4, <1>5, <1>6, <1>7, <1>8, <1>9, <1>10, <1>11, <1>12, <1>13, <1>14, <1>15, <1>16
  DEF Next, Starting, Persist, Outside

\* The caches, which are written from the index.
LEMMA CachesTyped ==
  ASSUME TypeOK, [Next]_vars
  PROVE  /\ rows' \in Places
         /\ state' = NONE \/ state' \in Checkpoints
         /\ binary' = NONE \/ binary' \in Snapshots
<1>0. /\ index \in Indexes /\ rows \in Places /\ Nothing \in Places
      /\ state = NONE \/ state \in Checkpoints
      /\ binary = NONE \/ binary \in Snapshots
  BY DEF TypeOK, Indexes, Checkpoints, Snapshots, Nothing, Places
<1>1. Checkpoint(index) \in Checkpoints /\ Snapshot(index) \in Snapshots
  BY <1>0, CheckpointTyped, SnapshotTyped
<1>2. CASE UNCHANGED caches  BY <1>0, <1>2 DEF caches
<1>3. CASE Spoil \/ Choose  BY <1>3, <1>0 DEF Spoil, Choose, caches
<1>4. CASE SaveBinary
  <2> DEFINE i == [index EXCEPT !.jid = info.jid, !.usn = ScanPosition, !.sized = TRUE]
  <2>1. info.jid \in Nat /\ info.usn \in Nat  BY DEF TypeOK
  <2>2. i \in Indexes  BY <2>1, <1>0 DEF Indexes, ScanPosition
  <2>3. binary' = binary \/ binary' = Snapshot(i)  BY <1>4 DEF SaveBinary
  <2>4. Snapshot(i) \in Snapshots
    <3> HIDE DEF i
    <3> QED  BY <2>2, SnapshotTyped
  <2> QED  BY <1>4, <1>0, <2>3, <2>4 DEF SaveBinary
<1>5. CASE SaveState \/ DeleteRows \/ PublishCheckpoint \/ PersistState
  BY <1>5, <1>0, <1>1 DEF SaveState, DeleteRows, PublishCheckpoint, PersistState
<1>6. CASE InsertRows
  <2>1. index.at \in Places  BY <1>0 DEF Indexes
  <2>2. rows' \in Places
    <3>1. CASE rows' = rows  BY <3>1, <1>0
    <3>2. CASE \E batch \in SUBSET todo \ {{}} :
                rows' = [f \in File |-> IF f \in batch THEN index.at[f] ELSE rows[f]]
      BY <3>2, <2>1, <1>0 DEF Places
    <3> QED  BY <3>1, <3>2, <1>6 DEF InsertRows
  <2> QED  BY <2>2, <1>6, <1>0 DEF InsertRows
<1>7. CASE PersistRows
  <2>1. index.at \in Places  BY <1>0 DEF Indexes
  <2>2. rows' \in Places
    <3>1. CASE rows' = rows  BY <3>1, <1>0
    <3>2. CASE rows' = [f \in File |-> IF f \in index.added THEN index.at[f]
                                      ELSE IF f \in index.removed THEN NONE ELSE rows[f]]
      BY <3>2, <2>1, <1>0 DEF Places
    <3> QED  BY <3>1, <3>2, <1>7 DEF PersistRows
  <2>3. state' = state \/ state' = Checkpoint(index)  BY <1>7 DEF PersistRows
  <2> QED  BY <2>2, <2>3, <1>7, <1>0, <1>1 DEF PersistRows
<1>8. CASE PersistBinary \/ Flush \/ SizeFlush
  BY <1>8, <1>0, <1>1 DEF PersistBinary, Flush, SizeFlush, Flushed, NotFlushed
<1>9. CASE Outside /\ ~Spoil
  BY <1>9, <1>2 DEF Outside, Change, Expire, NewJournal, Shutdown, Halt
<1>10. CASE Start \/ Query \/ CatchUp \/ (\E f \in File : ReadRecord(f)) \/ ScanFails \/ Ready
  BY <1>10, <1>2 DEF Start, Query, CatchUp, ReadRecord, ScanFails, Ready
<1>11. CASE Read \/ RefreshSizes \/ SizePass  BY <1>11, <1>2 DEF Read, RefreshSizes, SizePass
<1>12. CASE UNCHANGED vars  BY <1>12, <1>2 DEF vars
<1> QED
  BY <1>3, <1>4, <1>5, <1>6, <1>7, <1>8, <1>9, <1>10, <1>11, <1>12
  DEF Next, Starting, Persist, Outside

\* The disk and its journal, which the service does not write.
LEMMA VolumeTyped ==
  ASSUME TypeOK, [Next]_vars
  PROVE  /\ disk' \in Places /\ journal' \in Seq(Record)
         /\ first' \in Nat /\ jid' \in Nat \ {0} /\ changes' \in Nat
<1>0. /\ disk \in Places /\ journal \in Seq(Record)
      /\ first \in Nat /\ jid \in Nat \ {0} /\ changes \in Nat
  BY DEF TypeOK, Record
<1>1. CASE UNCHANGED volume  BY <1>0, <1>1 DEF volume
<1>2. CASE \E f \in File, p \in Place \cup {NONE} : Change(f, p)
  <2>1. PICK f \in File, p \in Place \cup {NONE} : Change(f, p)  BY <1>2
  <2> DEFINE b == p # NONE /\ disk[f] \in {NONE, p}
             new == [file |-> f, at |-> p, sized |-> b]
  <2>2. b \in BOOLEAN  OBVIOUS
  <2>3. new \in Record
    <3> HIDE DEF b
    <3> QED  BY <2>2 DEF Record
  <2>4. journal' = Append(journal, new)  BY <2>1 DEF Change
  <2>5. journal' \in Seq(Record)
    <3> HIDE DEF new
    <3> QED  BY <2>3, <2>4, <1>0
  <2>6. disk' = [disk EXCEPT ![f] = p] /\ UNCHANGED <<first, jid>> /\ changes' = changes + 1
    BY <2>1 DEF Change
  <2> QED  BY <2>5, <2>6, <1>0 DEF Places
<1>3. CASE \E n \in 1..MaxChanges : Expire(n)
  BY <1>3, <1>0 DEF Expire
<1>4. CASE NewJournal  BY <1>4, <1>0 DEF NewJournal
<1>5. CASE Spoil \/ Shutdown \/ Halt  BY <1>5, <1>1 DEF Spoil, Shutdown, Halt
<1>6. CASE Start \/ Starting
  BY <1>6, <1>1 DEF Start, Starting, Query, Choose, CatchUp, ReadRecord, SaveBinary, ScanFails,
     SaveState, DeleteRows, InsertRows, PublishCheckpoint, Ready
<1>7. CASE Read \/ RefreshSizes \/ Persist \/ SizePass \/ SizeFlush
  BY <1>7, <1>1 DEF Read, RefreshSizes, Persist, PersistRows, PersistBinary, PersistState, Flush,
     SizePass, SizeFlush
<1>8. CASE UNCHANGED vars  BY <1>8, <1>1 DEF vars
<1> QED  BY <1>2, <1>3, <1>4, <1>5, <1>6, <1>7, <1>8 DEF Next, Outside

\* The thread, its worker and the counters.
LEMMA ThreadTyped ==
  ASSUME TypeOK, [Next]_vars
  PROVE  /\ phase' \in {"down", "query", "choose", "catchup", "scan", "written", "unwritten",
                "delete", "purge", "insert", "ready", "serve", "state", "flush",
                "left", "fallback"}
         /\ info' \in [jid : Nat, usn : Nat] /\ worker' \in {"idle", "pass", "flush"}
         /\ todo' \subseteq File /\ faults' \in Nat
         /\ skip' \in BOOLEAN /\ leaving' \in BOOLEAN
         /\ drift' \in {"none", "gap", "rows", "served"}
<1> USE DEF TypeOK
<1>1. CASE Start \/ Query
  BY <1>1, IndexAssumption DEF Start, Query, Fault
<1>2. CASE Choose
  BY <1>2 DEF Choose, Load, Scan, Fault, volume, Forgets
<1>3. CASE CatchUp
  BY <1>3 DEF CatchUp, Publish, Scan, Fault, caches
<1>4. CASE \E f \in File : ReadRecord(f)
  BY <1>4 DEF ReadRecord
<1>5. CASE SaveBinary \/ ScanFails
  BY <1>5 DEF SaveBinary, ScanFails, Fault
<1>6. CASE SaveState \/ DeleteRows \/ PublishCheckpoint
  BY <1>6 DEF SaveState, DeleteRows, PublishCheckpoint, Fault, Present, LeavesRows, WithRows
<1>7. CASE InsertRows  BY <1>7 DEF InsertRows, Fault
<1>8. CASE Ready  BY <1>8 DEF Ready, Publish, Forgets
<1>9. CASE Read \/ RefreshSizes  BY <1>9 DEF Read, RefreshSizes, thread
<1>10. CASE PersistRows \/ PersistState
  BY <1>10 DEF PersistRows, PersistState, Fault, LeavesRows
<1>11. CASE PersistBinary \/ Flush
  <2>1. phase' \in {"state", "flush", "left", "serve"}
    BY <1>11 DEF PersistBinary, Flush
  <2>2. UNCHANGED <<info, worker, todo, skip, leaving, drift>>
    BY <1>11 DEF PersistBinary, Flush
  <2>3. faults' = faults \/ faults' = faults + 1
    BY <1>11 DEF PersistBinary, Flush, NotFlushed, Fault
  <2> QED  BY <2>1, <2>2, <2>3
<1>12. CASE SizePass \/ SizeFlush
  BY <1>12 DEF SizePass, SizeFlush, NotFlushed, Fault, thread
<1>13. CASE Outside /\ ~Halt
  <2>1. UNCHANGED <<phase, skip, info, todo, worker, drift>>
    BY <1>13 DEF Outside, Change, Expire, NewJournal, Spoil, Shutdown, thread
  <2>3. leaving' \in BOOLEAN
    <3>1. (leaving' = leaving) \/ (leaving' = TRUE)
      BY <1>13 DEF Outside, Change, Expire, NewJournal, Spoil, Shutdown, thread
    <3> QED  BY <3>1
  <2>2. faults' = faults \/ faults' = faults + 1
    BY <1>13 DEF Outside, Change, Expire, NewJournal, Spoil, Shutdown, Fault
  <2> QED  BY <2>1, <2>2, <2>3
<1>15. CASE Halt
  <2>1. /\ phase' = "down" /\ skip' = FALSE /\ info' = NoInfo /\ worker' = "idle"
        /\ todo' = {} /\ leaving' = FALSE /\ UNCHANGED <<faults, drift>>
    BY <1>15 DEF Halt
  <2>2. NoInfo \in [jid : Nat, usn : Nat]  BY DEF NoInfo
  <2> QED  BY <2>1, <2>2
<1>14. CASE UNCHANGED vars  BY <1>14 DEF vars, thread
<1> QED
  BY <1>1, <1>2, <1>3, <1>4, <1>5, <1>6, <1>7, <1>8, <1>9, <1>10, <1>11, <1>12, <1>13, <1>14,
     <1>15
  DEF Next, Starting, Persist, Outside

LEMMA TypeStep == TypeOK /\ [Next]_vars => TypeOK'
<1> SUFFICES ASSUME TypeOK, [Next]_vars PROVE TypeOK'  OBVIOUS
<1>1. index' \in Indexes  BY IndexTyped
<1>2. rows' \in Places /\ (state' = NONE \/ state' \in Checkpoints)
      /\ (binary' = NONE \/ binary' \in Snapshots)
  BY CachesTyped
<1> QED  BY <1>1, <1>2, VolumeTyped, ThreadTyped DEF TypeOK, Indexes, Checkpoints, Snapshots, Record

LEMMA TypeInit == Init => TypeOK
<1> SUFFICES ASSUME Init PROVE TypeOK  OBVIOUS
<1>1. index \in Indexes  BY EmptyTyped DEF Init
<1>2. rows \in Places /\ disk \in Places  BY DEF Init, Nothing, Places
<1>3. journal \in Seq(Record) /\ info \in [jid : Nat, usn : Nat]  BY DEF Init, NoInfo
<1>4. state = NONE /\ binary = NONE /\ first \in Nat /\ jid \in Nat \ {0}  BY DEF Init
<1>5. /\ phase = "down" /\ worker = "idle" /\ todo = {} /\ changes = 0 /\ faults = 0
      /\ skip \in BOOLEAN /\ leaving \in BOOLEAN /\ drift = "none"
  BY DEF Init
<1> QED  BY <1>1, <1>2, <1>3, <1>4, <1>5 DEF TypeOK, Indexes, Record

\* Types: what every step keeps, whatever files, faults and interleavings there are.
THEOREM IndexTypes == Spec => []TypeOK
<1> QED  BY TypeInit, TypeStep, PTL DEF Spec

----------------------------------------------------------------------------
(* What a copy of the index lacks.                                          *)

LEMMA JournalTyped ==
  ASSUME TypeOK
  PROVE  journal \in Seq(Record) /\ Len(journal) \in Nat
BY DEF TypeOK, Record

\* A change of the disk is behind no position.
LEMMA KnowsChange ==
  ASSUME TypeOK, NEW f \in File, NEW p \in Place \cup {NONE}, Change(f, p),
         NEW usn \in Nat, usn <= Len(journal), NEW at, NEW S \in SUBSET File,
         Knows(S, at, usn)
  PROVE  KnowsNext(S, at, usn)
<1> DEFINE new == [file |-> f, at |-> p, sized |-> p # NONE /\ disk[f] \in {NONE, p}]
<1>1. journal' = Append(journal, new) /\ new.file = f /\ disk' = [disk EXCEPT ![f] = p]
  BY DEF Change
<1>2. /\ Len(journal') = Len(journal) + 1 /\ Len(journal) \in Nat
      /\ journal'[Len(journal) + 1].file = f
      /\ \A n \in 1..Len(journal) : journal'[n] = journal[n]
  <2> HIDE DEF new
  <2> QED  BY <1>1, JournalTyped
<1> SUFFICES ASSUME NEW g \in S
             PROVE  at[g] = disk'[g] \/ \E n \in usn + 1..Len(journal') : journal'[n].file = g
  BY DEF KnowsNext
<1>5. at[g] = disk[g] \/ \E n \in usn + 1..Len(journal) : journal[n].file = g  BY DEF Knows
<1>3. CASE g = f
  <2>1. Len(journal) + 1 \in usn + 1..Len(journal')  BY <1>2
  <2> QED  BY <2>1, <1>2, <1>3
<1>4. CASE g # f
  <2>1. disk'[g] = disk[g]  BY <1>1, <1>4 DEF TypeOK, Places
  <2>2. \A n \in usn + 1..Len(journal) : n \in 1..Len(journal) /\ n \in usn + 1..Len(journal')
    BY <1>2
  <2> QED  BY <2>1, <2>2, <1>2, <1>5
<1> QED  BY <1>3, <1>4

\* The record after the position is applied and the position moves on.
LEMMA CoversApplied ==
  ASSUME TypeOK, Told, index.usn < Len(journal), Covers(index.at, index.usn)
  PROVE  LET new == Applied(index, journal[index.usn + 1]) IN Covers(new.at, new.usn)
<1> DEFINE u == index.usn + 1
           r == journal[u]
<1>1. index \in Indexes /\ index.usn \in Nat /\ index.at \in Places  BY DEF TypeOK, Indexes
<1>2. u \in 1..Len(journal) /\ r \in Record  BY <1>1, JournalTyped
<1>3. /\ Applied(index, r).at = [index.at EXCEPT ![r.file] = r.at]
      /\ Applied(index, r).usn = u
  <2> HIDE DEF r
  <2> QED  BY <1>1, <1>2, AppliedTyped
<1>4. ASSUME NEW f \in File
      PROVE  \/ [index.at EXCEPT ![r.file] = r.at][f] = disk[f]
             \/ \E n \in u + 1..Len(journal) : journal[n].file = f
  <2>1. CASE f = r.file /\ ~\E n \in u + 1..Len(journal) : journal[n].file = f
    <3>1. disk[f] = r.at  BY <2>1, <1>2 DEF Told
    <3> QED  BY <3>1, <2>1, <1>1 DEF Places
  <2>2. CASE f # r.file
    <3>1. index.at[f] = disk[f] \/ \E n \in u..Len(journal) : journal[n].file = f
      BY DEF Covers
    <3>2. \A n \in u..Len(journal) : n = u \/ n \in u + 1..Len(journal)
      BY <1>1, <1>2, JournalTyped
    <3> QED  BY <3>1, <3>2, <2>2, <1>1 DEF Places
  <2> QED  BY <2>1, <2>2
<1> QED  BY <1>3, <1>4 DEF Covers

----------------------------------------------------------------------------
(* The step.                                                                *)

\* Who writes to the disk or the journal, and that they write nothing else.
LEMMA VolumeMoves ==
  ASSUME [Next]_vars
  PROVE  \/ UNCHANGED <<disk, journal, jid>>
         \/ /\ \/ \E f \in File, p \in Place \cup {NONE} : Change(f, p)
               \/ NewJournal
            /\ UNCHANGED <<rows, state, binary, phase, info, index, todo, drift>>
<1>1. CASE \E f \in File, p \in Place \cup {NONE} : Change(f, p)
  BY <1>1 DEF Change, caches, thread
<1>2. CASE NewJournal
  BY <1>2 DEF NewJournal, caches, thread
<1>3. CASE Outside /\ ~NewJournal /\ ~\E f \in File, p \in Place \cup {NONE} : Change(f, p)
  BY <1>3 DEF Outside, Expire, Spoil, Shutdown, Halt, volume
<1>4. CASE Start \/ Starting
  BY <1>4 DEF Start, Starting, Query, Choose, CatchUp, ReadRecord, SaveBinary, ScanFails,
     SaveState, DeleteRows, InsertRows, PublishCheckpoint, Ready, volume
<1>5. CASE Read \/ RefreshSizes \/ Persist \/ SizePass \/ SizeFlush
  BY <1>5 DEF Read, RefreshSizes, Persist, PersistRows, PersistBinary, PersistState, Flush,
     SizePass, SizeFlush, volume
<1>6. CASE UNCHANGED vars  BY <1>6 DEF vars, volume
<1> QED  BY <1>1, <1>2, <1>3, <1>4, <1>5, <1>6 DEF Next

\* What was served from such rows stays known.
LEMMA ServedStays ==
  ASSUME [Next]_vars, drift' # "served"
  PROVE  drift # "served"
<1>1. CASE drift' = drift  BY <1>1
<1>2. CASE Choose  BY <1>2 DEF Choose, Forgets
<1>3. CASE SaveState \/ DeleteRows \/ InsertRows \/ PublishCheckpoint \/ Ready
  BY <1>3 DEF SaveState, DeleteRows, InsertRows, PublishCheckpoint, Ready, Forgets, LeavesRows,
     WithRows
<1>4. CASE Read \/ PersistRows \/ PersistState
  BY <1>4 DEF Read, PersistRows, PersistState, LeavesRows
<1>5. CASE Outside \/ Start
  BY <1>5, <1>1 DEF Outside, Change, Expire, NewJournal, Spoil, Shutdown, Halt, Start
<1>6. CASE Query \/ CatchUp \/ (\E f \in File : ReadRecord(f)) \/ SaveBinary \/ ScanFails
  BY <1>6, <1>1 DEF Query, CatchUp, ReadRecord, SaveBinary, ScanFails
<1>7. CASE RefreshSizes \/ PersistBinary \/ Flush \/ SizePass \/ SizeFlush
  BY <1>7, <1>1 DEF RefreshSizes, PersistBinary, Flush, SizePass, SizeFlush
<1>8. CASE UNCHANGED vars  BY <1>8, <1>1 DEF vars
<1> QED
  BY <1>2, <1>3, <1>4, <1>5, <1>6, <1>7, <1>8 DEF Next, Starting, Persist

\* The last record on a file tells where it is.
LEMMA ToldStep == TypeOK /\ Told /\ [Next]_vars => Told'
<1> SUFFICES ASSUME TypeOK, Told, [Next]_vars PROVE Told'  OBVIOUS
<1>1. CASE UNCHANGED <<disk, journal, jid>>  BY <1>1 DEF Told
<1>2. CASE \E f \in File, p \in Place \cup {NONE} : Change(f, p)
  <2>1. PICK f \in File, p \in Place \cup {NONE} : Change(f, p)  BY <1>2
  <2> DEFINE new == [file |-> f, at |-> p, sized |-> p # NONE /\ disk[f] \in {NONE, p}]
             N == Len(journal)
  <2>2. /\ journal' = Append(journal, new) /\ new.file = f /\ new.at = p
        /\ disk' = [disk EXCEPT ![f] = p]
    BY <2>1 DEF Change
  <2>3. /\ Len(journal') = N + 1 /\ N \in Nat /\ journal'[N + 1] = new
        /\ \A n \in 1..N : journal'[n] = journal[n]
    <3> HIDE DEF new
    <3> QED  BY <2>2, JournalTyped
  <2>4. disk \in Places  BY DEF TypeOK
  <2> SUFFICES ASSUME NEW n \in 1..N + 1,
                      \A m \in n + 1..N + 1 : journal'[m].file # journal'[n].file
               PROVE  disk'[journal'[n].file] = journal'[n].at
    BY <2>3 DEF Told
  <2>5. CASE n = N + 1  BY <2>5, <2>2, <2>3, <2>4 DEF Places
  <2>6. CASE n \in 1..N
    <3>1. N + 1 \in n + 1..N + 1  BY <2>6, <2>3
    <3>2. journal'[n] = journal[n] /\ journal[n].file # f  BY <2>6, <2>2, <2>3, <3>1
    <3>3. \A m \in n + 1..N : m \in n + 1..N + 1 /\ journal'[m] = journal[m]
      BY <2>6, <2>3
    <3>4. disk[journal[n].file] = journal[n].at  BY <2>6, <3>2, <3>3 DEF Told
    <3> QED  BY <3>2, <3>4, <2>2, <2>4 DEF Places
  <2> QED  BY <2>3, <2>5, <2>6
<1>3. CASE NewJournal
  <2>1. Len(journal') = 0  BY <1>3 DEF NewJournal
  <2> QED  BY <2>1 DEF Told
<1> QED  BY <1>1, <1>2, <1>3, VolumeMoves

\* A change of the disk, or a journal made anew.
LEMMA VolumeStep ==
  ASSUME IInv, [Next]_vars, ~UNCHANGED <<disk, journal, jid>>
  PROVE  (Positions /\ Scanned /\ Loaded /\ SnapshotFollows /\ RowsInv)'
<1>0. /\ TypeOK /\ Positions /\ Scanned /\ Loaded /\ SnapshotFollows /\ RowsInv
      /\ index.usn \in Nat /\ info.usn \in Nat /\ index.jid \in Nat /\ info.jid \in Nat
      /\ state # NONE => (state.jid \in Nat /\ state.usn \in Nat)
      /\ binary # NONE => (binary.jid \in Nat /\ binary.usn \in Nat)
      /\ jid \in Nat /\ Len(journal) \in Nat
  BY JournalTyped DEF IInv, TypeOK
<1>1. UNCHANGED <<rows, state, binary, phase, info, index, todo, drift>>
  BY VolumeMoves
<1>2. CASE \E f \in File, p \in Place \cup {NONE} : Change(f, p)
  <2>1. PICK f \in File, p \in Place \cup {NONE} : Change(f, p)  BY <1>2
  <2>2. jid' = jid  BY <2>1 DEF Change
  <2>3. Len(journal') = Len(journal) + 1
    <3> DEFINE new == [file |-> f, at |-> p, sized |-> p # NONE /\ disk[f] \in {NONE, p}]
    <3>1. journal' = Append(journal, new)  BY <2>1 DEF Change
    <3> HIDE DEF new
    <3> QED  BY <3>1, JournalTyped
  <2>4. Positions'  BY <1>0, <1>1, <2>2, <2>3 DEF Positions, Behind
  <2>5. Scanned'
    <3> SUFFICES ASSUME phase' = "scan", info'.jid = jid'
                 PROVE  Knows(File \ todo, index.at, info.usn)'
      BY DEF Scanned
    <3>1. info.usn <= Len(journal)  BY <1>0, <1>1, <2>2 DEF Positions, Behind
    <3>2. Knows(File \ todo, index.at, info.usn)  BY <1>0, <1>1, <2>2 DEF Scanned
    <3>3. File \ todo \in SUBSET File  OBVIOUS
    <3>4. KnowsNext(File \ todo, index.at, info.usn)
      BY <1>0, <2>1, <3>1, <3>2, <3>3, KnowsChange
    <3> QED  BY <3>4, <1>1 DEF Knows, KnowsNext
  <2>6. Loaded'
    <3> SUFFICES ASSUME phase' \in Held, drift' # "served", index'.jid = jid'
                 PROVE  Covers(index.at, index.usn)'
      BY DEF Loaded
    <3>1. index.usn <= Len(journal)  BY <1>0, <1>1, <2>2 DEF Positions, Behind
    <3>2. Covers(index.at, index.usn)  BY <1>0, <1>1, <2>2 DEF Loaded
    <3>3. Knows(File, index.at, index.usn)  BY <3>2 DEF Covers, Knows
    <3>4. File \in SUBSET File  OBVIOUS
    <3>5. KnowsNext(File, index.at, index.usn)  BY <1>0, <2>1, <3>1, <3>3, <3>4, KnowsChange
    <3> QED  BY <3>5, <1>1 DEF Covers, KnowsNext
  <2>7. SnapshotFollows'
    <3> SUFFICES ASSUME drift' # "served", binary' # NONE, binary'.jid = jid'
                 PROVE  Covers(binary.at, binary.usn)'
      BY DEF SnapshotFollows
    <3>1. binary.usn <= Len(journal) /\ binary.usn \in Nat
      BY <1>0, <1>1, <2>2 DEF Positions, Behind
    <3>2. Covers(binary.at, binary.usn)  BY <1>0, <1>1, <2>2 DEF SnapshotFollows
    <3>3. Knows(File, binary.at, binary.usn)  BY <3>2 DEF Covers, Knows
    <3>4. File \in SUBSET File  OBVIOUS
    <3>5. KnowsNext(File, binary.at, binary.usn)  BY <1>0, <2>1, <3>1, <3>3, <3>4, KnowsChange
    <3> QED  BY <3>5, <1>1 DEF Covers, KnowsNext
  <2>8. RowsVouched'
    <3> SUFFICES ASSUME drift' \in {"none", "gap"}, state' # NONE, state'.jid = jid',
                        rows' # Nothing
                 PROVE  \E S \in Places : Vouches(S)'
      BY DEF RowsVouched, Nothing
    <3>1. state.usn <= Len(journal) /\ state.usn \in Nat
      BY <1>0, <1>1, <2>2 DEF Positions, Behind
    <3>2. PICK S \in Places : Vouches(S)
      BY <1>0, <1>1, <2>2 DEF RowsInv, RowsVouched
    <3>3. Knows(File, S, state.usn)  BY <3>2 DEF Vouches, Covers, Knows
    <3>4. File \in SUBSET File  OBVIOUS
    <3>5. KnowsNext(File, S, state.usn)  BY <1>0, <2>1, <3>1, <3>3, <3>4, KnowsChange
    <3>6. Vouches(S)'
      BY <3>2, <3>5, <1>1 DEF Vouches, PartOf, Covers, KnowsNext
    <3> QED  BY <3>6
  <2>9. (Tracked /\ Inserting)'
    BY <1>0, <1>1 DEF RowsInv, Tracked, Inserting, PartOf
  <2> QED  BY <2>4, <2>5, <2>6, <2>7, <2>8, <2>9 DEF RowsInv
<1>3. CASE NewJournal
  <2>1. jid' = jid + 1  BY <1>3 DEF NewJournal
  <2>2. /\ info.jid < jid' /\ index.jid < jid'
        /\ state # NONE => state.jid < jid'
        /\ binary # NONE => binary.jid < jid'
    BY <1>0, <2>1 DEF Positions, Behind
  <2>3. RowsInv'
    BY <1>0, <1>1, <2>2 DEF RowsInv, RowsVouched, Tracked, Inserting, PartOf
  <2> QED  BY <1>0, <1>1, <2>1, <2>2, <2>3 DEF Positions, Behind, Scanned, Loaded, SnapshotFollows
<1> QED  BY <1>2, <1>3, VolumeMoves

\* A position comes from a cache, from the journal or from the record read.
LEMMA PositionsStep ==
  ASSUME IInv, [Next]_vars, UNCHANGED <<disk, journal, jid>>
  PROVE  Positions'
<1>0. /\ TypeOK /\ Positions /\ index \in Indexes
      /\ jid \in Nat \ {0} /\ Len(journal) \in Nat
  BY JournalTyped DEF IInv, TypeOK, Indexes
<1>1. \A c : Behind(c) <=> (c.jid <= jid' /\ (c.jid = jid' => c.usn <= Len(journal')))
  BY DEF Behind
<1>2. Behind(info')
  <2>1. CASE info' = info  BY <2>1, <1>0 DEF Positions
  <2>2. CASE info' = NoInfo  BY <2>2, <1>0 DEF Behind, NoInfo
  <2>3. CASE info' = [jid |-> jid, usn |-> Len(journal)]  BY <2>3, <1>0 DEF Behind
  <2>4. CASE Outside  BY <2>4, <2>1, <2>2 DEF Outside, Change, Expire, NewJournal, Spoil, Shutdown, Halt, thread
  <2>5. CASE Start \/ Starting
    BY <2>5, <2>1, <2>3 DEF Start, Starting, Query, Choose, CatchUp, ReadRecord, SaveBinary,
       ScanFails, SaveState, DeleteRows, InsertRows, PublishCheckpoint, Ready
  <2>6. CASE Read \/ RefreshSizes \/ Persist \/ SizePass \/ SizeFlush
    BY <2>6, <2>1 DEF Read, RefreshSizes, Persist, PersistRows, PersistBinary, PersistState, Flush,
       SizePass, SizeFlush, thread
  <2>7. CASE UNCHANGED vars  BY <2>7, <2>1 DEF vars, thread
  <2> QED  BY <2>4, <2>5, <2>6, <2>7 DEF Next
<1>3. Behind(index')
  <2>1. CASE index'.jid = index.jid /\ index'.usn = index.usn
    BY <2>1, <1>0 DEF Positions, Behind
  <2>2. CASE index' = Empty  BY <2>2, <1>0, EmptyTyped DEF Behind
  <2>3. CASE index.usn < Len(journal) /\ index' = Applied(index, journal[index.usn + 1])
    <3>1. index.usn \in Nat /\ index.usn + 1 \in 1..Len(journal)  BY <2>3, <1>0 DEF Indexes
    <3>2. journal[index.usn + 1] \in Record  BY <3>1, JournalTyped, <1>0
    <3>3. index'.usn = index.usn + 1 /\ index'.jid = index.jid  BY <2>3, <3>2, <1>0, AppliedTyped
    <3> QED  BY <3>1, <3>3, <2>3, <1>0 DEF Positions, Behind
  <2>4. CASE Choose
    <3>1. CASE FromBinary /\ UsableBinary /\ index' = [Empty EXCEPT !.at = binary.at,
                 !.jid = info.jid, !.usn = binary.usn, !.sized = TRUE]
      <4>1. index'.jid = info.jid /\ index'.usn = binary.usn /\ binary.jid = info.jid
        BY <3>1, EmptyTyped DEF UsableBinary, Indexes
      <4>2. binary # NONE  BY <3>1 DEF FromBinary
      <4> QED  BY <4>1, <4>2, <1>0 DEF Positions, Behind
    <3>2. CASE FromRows /\ UsableRows /\ index' = [Empty EXCEPT !.at = rows, !.jid = info.jid,
                 !.usn = state.usn]
      <4>1. index'.jid = info.jid /\ index'.usn = state.usn /\ state.jid = info.jid
        BY <3>2, EmptyTyped DEF UsableRows, Indexes
      <4>2. state # NONE  BY <3>2 DEF FromRows
      <4> QED  BY <4>1, <4>2, <1>0 DEF Positions, Behind
    <3> QED  BY <2>4, <3>1, <3>2, <2>2 DEF Choose, Load, Scan
  <2>5. CASE CatchUp
    BY <2>5, <2>1, <2>2, <2>3 DEF CatchUp, Publish, Scan
  <2>6. CASE SaveBinary
    <3>1. index'.jid = info.jid /\ index'.usn = info.usn
      BY <2>6, <1>0 DEF SaveBinary, ScanPosition, Indexes
    <3> QED  BY <3>1, <1>0 DEF Positions, Behind
  <2>7. CASE ScanFails \/ Halt  BY <2>7, <2>2 DEF ScanFails, Halt
  <2>8. CASE Read  BY <2>8, <2>3 DEF Read
  <2>9. CASE \/ \E f \in File : ReadRecord(f)
             \/ RefreshSizes \/ PersistRows \/ PersistState \/ SizePass
    BY <2>9, <2>1, <1>0 DEF ReadRecord, RefreshSizes, PersistRows, PersistState, SizePass, Indexes
  <2>10. CASE PersistBinary \/ Flush \/ SizeFlush
    BY <2>10, <2>1, <1>0 DEF PersistBinary, Flush, SizeFlush, Flushed, NotFlushed, Indexes
  <2>11. CASE UNCHANGED index  BY <2>11, <2>1
  <2>12. CASE Outside /\ ~Halt
    BY <2>12, <2>11 DEF Outside, Change, Expire, NewJournal, Spoil, Shutdown
  <2>13. CASE Start \/ Query \/ SaveState \/ DeleteRows \/ InsertRows \/ PublishCheckpoint \/ Ready
    BY <2>13, <2>11 DEF Start, Query, SaveState, DeleteRows, InsertRows, PublishCheckpoint, Ready,
       Publish
  <2>14. CASE UNCHANGED vars  BY <2>14, <2>11 DEF vars
  <2> QED
    BY <2>4, <2>5, <2>6, <2>7, <2>8, <2>9, <2>10, <2>12, <2>13, <2>14
    DEF Next, Starting, Persist, Outside
<1>4. \/ state' = state \/ (state' = Checkpoint(index))
  <2>1. CASE UNCHANGED caches  BY <2>1 DEF caches
  <2>2. CASE Outside \/ Start
    BY <2>2, <2>1 DEF Outside, Change, Expire, NewJournal, Spoil, Shutdown, Halt, Start
  <2>3. CASE Starting
    BY <2>3, <2>1 DEF Starting, Query, Choose, CatchUp, ReadRecord, SaveBinary,
       ScanFails, SaveState, DeleteRows, InsertRows, PublishCheckpoint, Ready
  <2>4. CASE Read \/ RefreshSizes \/ Persist \/ SizePass \/ SizeFlush
    BY <2>4, <2>1 DEF Read, RefreshSizes, Persist, PersistRows, PersistBinary, PersistState, Flush,
       SizePass, SizeFlush
  <2>5. CASE UNCHANGED vars  BY <2>5, <2>1 DEF vars
  <2> QED  BY <2>2, <2>3, <2>4, <2>5 DEF Next
<1>5. state' # NONE => Behind(state')
  BY <1>4, <1>0, CheckpointTyped DEF Positions, Behind
<1>6. binary' # NONE => Behind(binary')
  <2>1. CASE binary' = binary \/ binary' = NONE  BY <2>1, <1>0 DEF Positions
  <2>2. CASE binary' = Snapshot(index)
    BY <2>2, <1>0, SnapshotTyped DEF Positions, Behind
  <2>3. CASE SaveBinary /\ binary' # binary
    <3>1. binary'.jid = info.jid /\ binary'.usn = info.usn
      BY <2>3, <1>0 DEF SaveBinary, Snapshot, ScanPosition, Indexes
    <3> QED  BY <3>1, <1>0 DEF Positions, Behind
  <2>4. CASE UNCHANGED caches  BY <2>4, <2>1 DEF caches
  <2>5. CASE Outside \/ Start
    BY <2>5, <2>4, <2>1 DEF Outside, Change, Expire, NewJournal, Spoil, Shutdown, Halt, Start
  <2>6. CASE Starting /\ ~SaveBinary
    BY <2>6, <2>4, <2>1 DEF Starting, Query, Choose, CatchUp, ReadRecord,
       ScanFails, SaveState, DeleteRows, InsertRows, PublishCheckpoint, Ready
  <2>7. CASE Read \/ RefreshSizes \/ Persist \/ SizePass \/ SizeFlush
    BY <2>7, <2>4, <2>1, <2>2 DEF Read, RefreshSizes, Persist, PersistRows, PersistBinary,
       PersistState, Flush, SizePass, SizeFlush, Flushed, NotFlushed
  <2>8. CASE UNCHANGED vars  BY <2>8, <2>4 DEF vars
  <2> QED  BY <2>1, <2>3, <2>5, <2>6, <2>7, <2>8 DEF Next
<1> QED  BY <1>1, <1>2, <1>3, <1>5, <1>6 DEF Positions, Behind

\* The scan reads a record that is on the disk, and starts with none.
LEMMA ScannedStep ==
  ASSUME IInv, [Next]_vars, UNCHANGED <<disk, journal, jid>>
  PROVE  Scanned'
<1>0. TypeOK /\ Scanned /\ index \in Indexes /\ todo \subseteq File
  BY DEF IInv, TypeOK, Indexes
<1>1. CASE phase' # "scan"  BY <1>1 DEF Scanned
<1>2. CASE UNCHANGED <<phase, info, index, todo>>  BY <1>0, <1>2 DEF Scanned, Knows
<1>3. CASE Choose \/ CatchUp
  <2>1. phase' # "scan" \/ todo' = File
    BY <1>3 DEF Choose, CatchUp, Load, Scan, Publish
  <2> QED  BY <2>1, <1>1 DEF Scanned, Knows
<1>4. CASE \E f \in File : ReadRecord(f)
  <2>1. PICK f \in File : ReadRecord(f)  BY <1>4
  <2>2. /\ phase = "scan" /\ UNCHANGED <<phase, info>> /\ todo' = todo \ {f}
        /\ index' = [index EXCEPT !.at[f] = disk[f]]
    BY <2>1 DEF ReadRecord
  <2>3. index'.at = [index.at EXCEPT ![f] = disk[f]] /\ index.at \in Places
    BY <2>2, <1>0 DEF Indexes
  <2>4. SUFFICES ASSUME info.jid = jid
                 PROVE  \A g \in File \ todo' :
                   index'.at[g] = disk[g] \/ \E n \in info.usn + 1..Len(journal) : journal[n].file = g
    BY <2>2 DEF Scanned, Knows
  <2>5. Knows(File \ todo, index.at, info.usn)  BY <2>2, <2>4, <1>0 DEF Scanned
  <2> QED  BY <2>2, <2>3, <2>5 DEF Knows, Places
<1>5. CASE phase # "scan" /\ (Read \/ RefreshSizes \/ Persist \/ SizePass \/ SizeFlush)
  <2>1. phase' # "scan"
    BY <1>5 DEF Read, RefreshSizes, Persist, PersistRows, PersistBinary, PersistState, Flush,
       SizePass, SizeFlush, thread
  <2> QED  BY <2>1, <1>1
<1>6. CASE Read \/ RefreshSizes \/ Persist \/ SizePass \/ SizeFlush
  BY <1>6, <1>5 DEF Read, RefreshSizes, Persist, PersistRows, PersistBinary, PersistState, Flush,
     SizePass, SizeFlush, Serving
<1>7. CASE Start \/ Query \/ SaveBinary \/ ScanFails \/ SaveState \/ DeleteRows \/ PublishCheckpoint
           \/ Ready \/ Halt
  <2>1. phase' # "scan"
    BY <1>7 DEF Start, Query, SaveBinary, ScanFails, SaveState, DeleteRows, PublishCheckpoint,
       Ready, Publish, Halt
  <2> QED  BY <2>1, <1>1
<1>8. CASE InsertRows
  <2>1. phase' # "scan"  BY <1>8 DEF InsertRows
  <2> QED  BY <2>1, <1>1
<1>9. CASE Outside /\ ~Halt
  BY <1>9, <1>2 DEF Outside, Change, Expire, NewJournal, Spoil, Shutdown, thread
<1>10. CASE UNCHANGED vars  BY <1>10, <1>2 DEF vars, thread
<1> QED  BY <1>3, <1>4, <1>6, <1>7, <1>8, <1>9, <1>10 DEF Next, Starting, Outside

\* Rows that are as many as the checkpoint has counted are the copy it stands for.
LEMMA RowsComplete ==
  ASSUME TypeOK, RowsVouched, drift \in {"none", "gap"}, state # NONE, state.jid = jid,
         state.count > 0, state.count = Cardinality(Present(rows))
  PROVE  Covers(rows, state.usn)
<1>1. rows \in Places  BY DEF TypeOK
<1>2. rows # Nothing
  <2> SUFFICES ASSUME rows = Nothing PROVE FALSE  OBVIOUS
  <2>1. Present(rows) = {}  BY DEF Present, Nothing
  <2> QED  BY <2>1, FS_EmptySet
<1>3. PICK S \in Places : Vouches(S)  BY <1>2 DEF RowsVouched
<1>4. Present(rows) \subseteq Present(S)
  BY <1>3 DEF Vouches, PartOf, Present
<1>5. IsFiniteSet(Present(S))
  <2>1. Present(S) \subseteq File  BY DEF Present
  <2> QED  BY <2>1, IndexAssumption, FS_Subset
<1>6. Present(rows) = Present(S)
  BY <1>3, <1>4, <1>5, FS_Subset DEF Vouches
<1>7. \A f \in File : rows[f] = S[f]
  BY <1>3, <1>6 DEF Vouches, PartOf, Present
<1> QED  BY <1>3, <1>7 DEF Vouches, Covers

\* What is loaded, scanned or caught up lacks nothing the journal does not tell of.
LEMMA LoadedStep ==
  ASSUME IInv, [Next]_vars, UNCHANGED <<disk, journal, jid>>
  PROVE  Loaded'
<1>0. /\ TypeOK /\ Told /\ Loaded /\ Scanned /\ SnapshotFollows /\ RowsVouched
      /\ index \in Indexes
  BY DEF IInv, RowsInv, TypeOK, Indexes
<1>1. CASE phase' \notin Held  BY <1>1 DEF Loaded
<1>2. CASE /\ index'.at = index.at /\ index'.usn = index.usn /\ index'.jid = index.jid
           /\ phase \in Held
  <2> SUFFICES ASSUME drift' # "served", index'.jid = jid' PROVE Covers(index.at, index.usn)'
    BY DEF Loaded
  <2>1. drift # "served"  BY ServedStays
  <2>2. Covers(index.at, index.usn)  BY <2>1, <1>2, <1>0 DEF Loaded
  <2> QED  BY <2>2, <1>2 DEF Covers
<1>3. CASE UNCHANGED <<index, phase>>
  <2> SUFFICES ASSUME phase' \in Held, drift' # "served", index'.jid = jid'
               PROVE Covers(index.at, index.usn)'
    BY DEF Loaded
  <2>1. drift # "served"  BY ServedStays
  <2>2. Covers(index.at, index.usn)  BY <2>1, <1>3, <1>0 DEF Loaded
  <2> QED  BY <2>2, <1>3 DEF Covers
<1>4. CASE Choose
  <2>1. CASE Scan  BY <2>1, <1>1 DEF Scan, Held
  <2>2. CASE FromBinary /\ UsableBinary /\ index' = [Empty EXCEPT !.at = binary.at,
               !.jid = info.jid, !.usn = binary.usn, !.sized = TRUE]
    <3> SUFFICES ASSUME drift' # "served", index'.jid = jid' PROVE Covers(index.at, index.usn)'
      BY DEF Loaded
    <3>1. drift # "served" /\ binary # NONE /\ binary.jid = jid
      BY <2>2, EmptyTyped, ServedStays DEF FromBinary, UsableBinary, Indexes
    <3>2. Covers(binary.at, binary.usn)  BY <3>1, <1>0 DEF SnapshotFollows
    <3>3. index'.at = binary.at /\ index'.usn = binary.usn  BY <2>2, EmptyTyped DEF Indexes
    <3> QED  BY <3>2, <3>3 DEF Covers
  <2>3. CASE /\ FromRows /\ UsableRows
             /\ index' = [Empty EXCEPT !.at = rows, !.jid = info.jid, !.usn = state.usn]
             /\ drift' = IF drift = "rows" THEN "served" ELSE Forgets(rows)
    <3> SUFFICES ASSUME drift' # "served", index'.jid = jid' PROVE Covers(index.at, index.usn)'
      BY DEF Loaded
    <3>1. drift \in {"none", "gap"}  BY <2>3, <1>0 DEF Forgets, TypeOK
    <3>2. index'.at = rows /\ index'.usn = state.usn /\ index'.jid = info.jid
      BY <2>3, EmptyTyped DEF Indexes
    <3>3. Covers(rows, state.usn)
      BY <2>3, <3>1, <3>2, <1>0, RowsComplete DEF FromRows, UsableRows
    <3> QED  BY <3>2, <3>3 DEF Covers
  <2> QED  BY <1>4, <2>1, <2>2, <2>3 DEF Choose, Load
<1>5. CASE CatchUp
  <2>1. CASE Scan  BY <2>1, <1>1 DEF Scan, Held
  <2>2. CASE /\ phase = "catchup" /\ phase' = "serve"
             /\ index' = (IF index.usn < Len(journal)
                            THEN Applied(index, journal[index.usn + 1]) ELSE index)
    <3> SUFFICES ASSUME drift' # "served", index'.jid = jid' PROVE Covers(index.at, index.usn)'
      BY DEF Loaded
    <3>2. drift # "served"  BY ServedStays
    <3>3. index'.jid = index.jid
      <4>1. CASE index.usn < Len(journal)
        <5>1. index.usn + 1 \in 1..Len(journal)  BY <4>1, <1>0, JournalTyped DEF Indexes
        <5>2. journal[index.usn + 1] \in Record  BY <5>1, <1>0, JournalTyped
        <5> QED  BY <5>2, <4>1, <2>2, <1>0, AppliedTyped
      <4> QED  BY <4>1, <2>2
    <3>4. Covers(index.at, index.usn)  BY <3>2, <3>3, <2>2, <1>0 DEF Loaded, Held
    <3>5. CASE index.usn < Len(journal)
      BY <3>5, <3>4, <2>2, <1>0, CoversApplied DEF Covers
    <3>6. CASE ~(index.usn < Len(journal))  BY <3>6, <3>4, <2>2 DEF Covers
    <3> QED  BY <3>5, <3>6
  <2> QED  BY <1>5, <2>1, <2>2 DEF CatchUp, Publish
<1>6. CASE SaveBinary
  <2>1. /\ phase = "scan" /\ todo = {} /\ phase' \in {"written", "unwritten"}
        /\ index'.at = index.at /\ index'.jid = info.jid /\ index'.usn = info.usn
    BY <1>6, <1>0 DEF SaveBinary, ScanPosition, Indexes
  <2> SUFFICES ASSUME index'.jid = jid' PROVE Covers(index.at, index.usn)'
    BY DEF Loaded
  <2>2. Knows(File \ {}, index.at, info.usn)  BY <2>1, <1>0 DEF Scanned
  <2> QED  BY <2>1, <2>2 DEF Covers, Knows
<1>7. CASE Read
  <2>1. phase = "serve" /\ phase' = "serve" /\ index.usn < Len(journal)
        /\ index' = Applied(index, journal[index.usn + 1])
    BY <1>7 DEF Read, thread
  <2>2. index.usn + 1 \in 1..Len(journal)  BY <2>1, <1>0, JournalTyped DEF Indexes
  <2>3. journal[index.usn + 1] \in Record  BY <2>2, <1>0, JournalTyped
  <2>4. index'.jid = index.jid  BY <2>1, <2>3, <1>0, AppliedTyped
  <2> SUFFICES ASSUME drift' # "served", index'.jid = jid' PROVE Covers(index.at, index.usn)'
    BY DEF Loaded
  <2>5. drift # "served"  BY ServedStays
  <2>6. Covers(index.at, index.usn)  BY <2>1, <2>4, <2>5, <1>0 DEF Loaded, Held
  <2> QED  BY <2>1, <2>6, <1>0, CoversApplied DEF Covers
<1>8. CASE RefreshSizes \/ PersistRows \/ PersistState \/ SizePass
  <2>1. index'.at = index.at /\ index'.usn = index.usn /\ index'.jid = index.jid
    BY <1>8, <1>0 DEF RefreshSizes, PersistRows, PersistState, SizePass, Indexes
  <2>2. phase \in Held
    BY <1>8 DEF RefreshSizes, PersistRows, PersistState, SizePass, Held, Serving, thread
  <2> QED  BY <2>1, <2>2, <1>2
<1>9. CASE PersistBinary \/ Flush \/ SizeFlush
  <2>1. index'.at = index.at /\ index'.usn = index.usn /\ index'.jid = index.jid
    BY <1>9, <1>0 DEF PersistBinary, Flush, SizeFlush, Flushed, NotFlushed, Indexes
  <2>2. phase \in Held
    BY <1>9 DEF PersistBinary, Flush, SizeFlush, Held, Serving
  <2> QED  BY <2>1, <2>2, <1>2
<1>10. CASE SaveState \/ DeleteRows \/ InsertRows \/ PublishCheckpoint \/ Ready
  <2>1. UNCHANGED index
    BY <1>10 DEF SaveState, DeleteRows, InsertRows, PublishCheckpoint, Ready, Publish
  <2>2. phase \in Held
    BY <1>10 DEF SaveState, DeleteRows, InsertRows, PublishCheckpoint, Ready, Publish, Held
  <2> QED  BY <2>1, <2>2, <1>2
<1>11. CASE Start \/ Query \/ ScanFails \/ Halt \/ \E f \in File : ReadRecord(f)
  <2>1. phase' \notin Held
    BY <1>11 DEF Start, Query, ScanFails, Halt, ReadRecord, Held
  <2> QED  BY <2>1, <1>1
<1>12. CASE Outside /\ ~Halt
  BY <1>12, <1>3 DEF Outside, Change, Expire, NewJournal, Spoil, Shutdown, thread
<1>13. CASE UNCHANGED vars  BY <1>13, <1>3 DEF vars, thread
<1> QED
  BY <1>4, <1>5, <1>6, <1>7, <1>8, <1>9, <1>10, <1>11, <1>12, <1>13
  DEF Next, Starting, Persist, Outside

\* A snapshot is written from a scan that is over or from an index that is served.
LEMMA SnapshotStep ==
  ASSUME IInv, [Next]_vars, UNCHANGED <<disk, journal, jid>>
  PROVE  SnapshotFollows'
<1>0. TypeOK /\ Loaded /\ Scanned /\ SnapshotFollows /\ index \in Indexes
  BY DEF IInv, TypeOK, Indexes
<1>1. CASE binary' = binary \/ binary' = NONE
  <2> SUFFICES ASSUME drift' # "served", binary' # NONE, binary'.jid = jid'
               PROVE  Covers(binary.at, binary.usn)'
    BY DEF SnapshotFollows
  <2>1. drift # "served"  BY ServedStays
  <2>2. Covers(binary.at, binary.usn)  BY <2>1, <1>1, <1>0 DEF SnapshotFollows
  <2> QED  BY <2>2, <1>1 DEF Covers
<1>2. CASE UNCHANGED caches  BY <1>2, <1>1 DEF caches
<1>3. CASE SaveBinary
  <2>1. CASE UNCHANGED binary  BY <2>1, <1>1
  <2>2. CASE binary' # binary
    <3>1. /\ phase = "scan" /\ todo = {}
          /\ binary'.at = index.at /\ binary'.jid = info.jid /\ binary'.usn = info.usn
      BY <2>2, <1>3, <1>0 DEF SaveBinary, Snapshot, ScanPosition, Indexes
    <3> SUFFICES ASSUME binary'.jid = jid' PROVE Covers(binary.at, binary.usn)'
      BY DEF SnapshotFollows
    <3>2. Knows(File \ {}, index.at, info.usn)  BY <3>1, <1>0 DEF Scanned
    <3> QED  BY <3>1, <3>2 DEF Covers, Knows
  <2> QED  BY <2>1, <2>2
<1>4. CASE PersistBinary \/ Flush \/ SizeFlush
  <2>1. CASE binary' = Snapshot(index)
    <3>1. /\ binary'.at = index.at /\ binary'.jid = index.jid /\ binary'.usn = index.usn
          /\ phase \in Held /\ phase # "catchup"
      BY <2>1, <1>4, SnapshotTyped, <1>0 DEF PersistBinary, Flush, SizeFlush, Serving, Held
    <3> SUFFICES ASSUME drift' # "served", binary'.jid = jid' PROVE Covers(binary.at, binary.usn)'
      BY DEF SnapshotFollows
    <3>2. drift # "served"  BY ServedStays
    <3>3. Covers(index.at, index.usn)  BY <3>1, <3>2, <1>0 DEF Loaded
    <3> QED  BY <3>1, <3>3 DEF Covers
  <2> QED
    BY <2>1, <1>4, <1>1 DEF PersistBinary, Flush, SizeFlush, Flushed, NotFlushed
<1>5. CASE Outside \/ Start
  BY <1>5, <1>1, <1>2 DEF Outside, Change, Expire, NewJournal, Spoil, Shutdown, Halt, Start
<1>6. CASE Starting /\ ~SaveBinary
  BY <1>6, <1>1, <1>2 DEF Starting, Query, Choose, CatchUp, ReadRecord, ScanFails,
     SaveState, DeleteRows, InsertRows, PublishCheckpoint, Ready
<1>7. CASE Read \/ RefreshSizes \/ PersistRows \/ PersistState \/ SizePass
  BY <1>7, <1>1, <1>2 DEF Read, RefreshSizes, PersistRows, PersistState, SizePass
<1>8. CASE UNCHANGED vars  BY <1>8, <1>2 DEF vars
<1> QED  BY <1>3, <1>4, <1>5, <1>6, <1>7, <1>8 DEF Next, Persist

\* The fields of the rows to be written that a record of the journal changes.
LEMMA AppliedPending ==
  ASSUME NEW i \in Indexes, NEW r \in Record
  PROVE  /\ i.at[r.file] = r.at => /\ Applied(i, r).added = i.added
                                   /\ Applied(i, r).removed = i.removed
         /\ i.at[r.file] # r.at /\ r.at # NONE =>
              /\ Applied(i, r).added = i.added \cup {r.file}
              /\ Applied(i, r).removed = i.removed \ {r.file}
         /\ i.at[r.file] # r.at /\ r.at = NONE =>
              /\ Applied(i, r).added = i.added \ {r.file}
              /\ Applied(i, r).removed = IF r.file \in i.added THEN i.removed
                                         ELSE i.removed \cup {r.file}
BY DEF Applied, Indexes

\* One record read into the index leaves a row out only if it takes the file for one
\* that has none.
LEMMA TrackedApplied ==
  ASSUME TypeOK, NEW r \in Record, index' = Applied(index, r), UNCHANGED rows,
         ~Orphans(index, r),
         \A f \in File \ (index.added \cup index.removed) : rows[f] # NONE => rows[f] = index.at[f]
  PROVE  \A f \in File \ (index'.added \cup index'.removed) : rows'[f] # NONE => rows'[f] = index'.at[f]
<1>1. index \in Indexes /\ index.at \in Places  BY DEF TypeOK, Indexes
<1>2. index'.at = [index.at EXCEPT ![r.file] = r.at]  BY <1>1, AppliedTyped
<1>3. r.file \in File  BY DEF Record
<1> SUFFICES ASSUME NEW f \in File, f \notin index'.added, f \notin index'.removed, rows[f] # NONE
             PROVE  rows[f] = index'.at[f]
  OBVIOUS
<1>4. CASE f # r.file
  <2>1. f \notin index.added /\ f \notin index.removed
    <3>1. CASE index.at[r.file] = r.at  BY <3>1, <1>1, AppliedPending
    <3>2. CASE index.at[r.file] # r.at /\ r.at # NONE
      <4>1. /\ index'.added = index.added \cup {r.file}
            /\ index'.removed = index.removed \ {r.file}
        BY <3>2, <1>1, AppliedPending
      <4> QED  BY <4>1, <1>4
    <3>3. CASE index.at[r.file] # r.at /\ r.at = NONE
      <4>1. index'.added = index.added \ {r.file}  BY <3>3, <1>1, AppliedPending
      <4>2. index'.removed = index.removed \/ index'.removed = index.removed \cup {r.file}
        BY <3>3, <1>1, AppliedPending
      <4> QED  BY <4>1, <4>2, <1>4
    <3> QED  BY <3>1, <3>2, <3>3
  <2> QED  BY <2>1, <1>1, <1>2, <1>4 DEF Places
<1>5. CASE f = r.file
  <2>1. index.at[f] = r.at
    <3> SUFFICES ASSUME index.at[f] # r.at PROVE FALSE  OBVIOUS
    <3>1. CASE r.at # NONE
      <4>1. index'.added = index.added \cup {r.file}  BY <1>1, <1>5, <3>1, AppliedPending
      <4> QED  BY <4>1, <1>5
    <3>2. CASE r.at = NONE
      <4>1. f \notin index.added  BY <1>5, <3>2 DEF Orphans
      <4>2. index'.removed = index.removed \cup {r.file}
        BY <1>1, <1>5, <3>2, <4>1, AppliedPending
      <4> QED  BY <4>2, <1>5
    <3> QED  BY <3>1, <3>2
  <2>2. f \notin index.added /\ f \notin index.removed  BY <1>1, <1>5, <2>1, AppliedPending
  <2> QED  BY <2>1, <2>2, <1>1, <1>2, <1>5 DEF Places
<1> QED  BY <1>4, <1>5

\* A checkpoint of the index stands for the index, and the rows are part of it.
LEMMA VouchedByIndex ==
  ASSUME IInv, [Next]_vars, UNCHANGED <<disk, journal, jid>>, phase \in Held,
         drift' # "served", state' = Checkpoint(index) \/ (state = Checkpoint(index) /\ state' = state),
         \A f \in File : rows'[f] # NONE => rows'[f] = index.at[f]
  PROVE  RowsVouched'
<1>0. index \in Indexes /\ Loaded /\ index.at \in Places  BY DEF IInv, TypeOK, Indexes
<1>1. state' = Checkpoint(index)  OBVIOUS
<1>2. /\ state'.jid = index.jid /\ state'.usn = index.usn
      /\ state'.count = Cardinality(Present(index.at))
  BY <1>1 DEF Checkpoint
<1> SUFFICES ASSUME state'.jid = jid' PROVE \E S \in Places : Vouches(S)'
  BY DEF RowsVouched
<1>3. drift # "served"  BY ServedStays
<1>4. Covers(index.at, index.usn)  BY <1>0, <1>2, <1>3 DEF Loaded
<1>9. PICK S \in Places : S = index.at  BY <1>0
<1>5. \A f \in File : rows'[f] # NONE => rows'[f] = S[f]  BY <1>9
<1>6. Covers(S, index.usn)  BY <1>4, <1>9
<1>7. state'.count = Cardinality(Present(S))  BY <1>2, <1>9
<1>8. Vouches(S)'  BY <1>2, <1>5, <1>6, <1>7 DEF Vouches, PartOf, Covers, Present
<1> QED  BY <1>8

\* The rows and their checkpoint stay as they are, and the ghost does not get better.
LEMMA VouchedKept ==
  ASSUME IInv, UNCHANGED <<disk, journal, jid, rows, state>>,
         drift' \in {"none", "gap"} => drift \in {"none", "gap"}
  PROVE  RowsVouched'
<1> SUFFICES ASSUME drift' \in {"none", "gap"}, state' # NONE, state'.jid = jid', rows' # Nothing
             PROVE  \E S \in Places : Vouches(S)'
  BY DEF RowsVouched, Nothing
<1>1. PICK S \in Places : Vouches(S)  BY DEF IInv, RowsInv, RowsVouched
<1>2. Vouches(S)'  BY <1>1 DEF Vouches, PartOf, Covers
<1> QED  BY <1>2

\* Who writes rows or a checkpoint.
LEMMA VouchedStep ==
  ASSUME IInv, [Next]_vars, UNCHANGED <<disk, journal, jid>>
  PROVE  RowsVouched'
<1>0. /\ TypeOK /\ RowsVouched /\ Tracked /\ Inserting /\ index \in Indexes /\ rows \in Places
      /\ index.at \in Places
  BY DEF IInv, RowsInv, TypeOK, Indexes
<1>1. CASE UNCHANGED <<rows, state, drift>>  BY <1>1, VouchedKept
<1>2. CASE Choose
  <2>1. UNCHANGED <<rows, state>>  BY <1>2 DEF Choose, caches
  <2>2. drift' \in {"none", "gap"} => drift \in {"none", "gap"}  BY <1>2 DEF Choose, Forgets
  <2> QED  BY <2>1, <2>2, VouchedKept
<1>3. CASE Ready \/ Read
  BY <1>3, VouchedKept DEF Ready, Read, Forgets, caches
<1>4. CASE SaveState
  <2>1. phase \in Held /\ rows' = rows  BY <1>4 DEF SaveState, Held
  <2>2. CASE UNCHANGED <<state, drift>>  BY <2>1, <2>2, <1>1
  <2>3. CASE state' = Checkpoint(index) /\ drift' = LeavesRows(index.at)
    <3>1. CASE drift' \notin {"none", "gap"}  BY <3>1 DEF RowsVouched
    <3>2. CASE drift' \in {"none", "gap"}
      <4>1. ~Parted(index.at)  BY <2>3, <3>2 DEF LeavesRows
      <4> QED  BY <2>1, <2>3, <3>2, <4>1, VouchedByIndex DEF Parted
    <3> QED  BY <3>1, <3>2
  <2> QED  BY <1>4, <2>2, <2>3 DEF SaveState
<1>5. CASE DeleteRows
  <2>1. CASE rows' = Nothing  BY <2>1 DEF RowsVouched, Nothing
  <2> QED  BY <1>5, <2>1, <1>1 DEF DeleteRows
<1>6. CASE InsertRows
  <2>1. phase = "insert" /\ phase \in Held /\ state' = state  BY <1>6 DEF InsertRows, Held
  <2>2. CASE UNCHANGED <<rows, drift>>  BY <2>1, <2>2, <1>1
  <2>3. CASE /\ \E batch \in SUBSET todo \ {{}} :
                  rows' = [f \in File |-> IF f \in batch THEN index.at[f] ELSE rows[f]]
             /\ drift' = IF drift = "served" \/ state \in {NONE, Checkpoint(index)} THEN drift
                         ELSE "rows"
    <3>1. \A f \in File : rows'[f] # NONE => rows'[f] = index.at[f]
      BY <2>1, <2>3, <1>0 DEF Inserting, PartOf
    <3>2. CASE state = Checkpoint(index) /\ drift' # "served"
      BY <2>1, <3>1, <3>2, VouchedByIndex
    <3>3. CASE state = NONE  BY <2>1, <3>3 DEF RowsVouched
    <3>4. CASE drift' \notin {"none", "gap"}  BY <3>4 DEF RowsVouched
    <3> QED  BY <2>3, <3>2, <3>3, <3>4
  <2> QED  BY <1>6, <2>2, <2>3 DEF InsertRows
<1>7. CASE PublishCheckpoint
  <2>1. phase = "insert" /\ phase \in Held /\ rows' = rows  BY <1>7 DEF PublishCheckpoint, Held
  <2>2. CASE UNCHANGED <<state, drift>>  BY <2>1, <2>2, <1>1
  <2>3. CASE state' = Checkpoint(index)
    <3>1. CASE drift' = "served"  BY <3>1 DEF RowsVouched
    <3>2. CASE drift' # "served"
      BY <2>1, <2>3, <3>2, <1>0, VouchedByIndex DEF Inserting, PartOf
    <3> QED  BY <3>1, <3>2
  <2> QED  BY <1>7, <2>2, <2>3 DEF PublishCheckpoint
<1>8. CASE PersistRows
  <2>1. phase = "serve" /\ phase \in Held  BY <1>8 DEF PersistRows, Held
  <2>2. CASE UNCHANGED <<rows, state, drift>>  BY <2>2, <1>1
  <2>3. CASE /\ rows' = [f \in File |-> IF f \in index.added THEN index.at[f]
                                        ELSE IF f \in index.removed THEN NONE ELSE rows[f]]
             /\ state' = Checkpoint(index)
             /\ drift' = IF drift = "gap" THEN "rows" ELSE drift
    <3>1. CASE drift' \notin {"none", "gap"}  BY <3>1 DEF RowsVouched
    <3>2. CASE drift' \in {"none", "gap"}
      <4>1. drift = "none"  BY <2>3, <3>2
      <4>2. \A f \in File : rows'[f] # NONE => rows'[f] = index.at[f]
        BY <2>1, <2>3, <4>1, <1>0 DEF Tracked, Awake
      <4> QED  BY <2>1, <2>3, <3>2, <4>2, VouchedByIndex
    <3> QED  BY <3>1, <3>2
  <2> QED  BY <1>8, <2>2, <2>3 DEF PersistRows
<1>9. CASE PersistState
  <2>1. phase \in Held /\ rows' = rows  BY <1>9 DEF PersistState, Held
  <2>2. CASE UNCHANGED <<state, drift>>  BY <2>1, <2>2, <1>1
  <2>3. CASE state' = Checkpoint(index) /\ drift' = LeavesRows(index.at)
    <3>1. CASE drift' \notin {"none", "gap"}  BY <3>1 DEF RowsVouched
    <3>2. CASE drift' \in {"none", "gap"}
      <4>1. ~Parted(index.at)  BY <2>3, <3>2 DEF LeavesRows
      <4> QED  BY <2>1, <2>3, <3>2, <4>1, VouchedByIndex DEF Parted
    <3> QED  BY <3>1, <3>2
  <2> QED  BY <1>9, <2>2, <2>3 DEF PersistState
<1>10. CASE Outside \/ Start
  BY <1>10, <1>1 DEF Outside, Change, Expire, NewJournal, Spoil, Shutdown, Halt, Start, caches
<1>11. CASE Query \/ CatchUp \/ (\E f \in File : ReadRecord(f)) \/ SaveBinary \/ ScanFails
  BY <1>11, <1>1 DEF Query, CatchUp, ReadRecord, SaveBinary, ScanFails, caches
<1>12. CASE RefreshSizes \/ PersistBinary \/ Flush \/ SizePass \/ SizeFlush
  BY <1>12, <1>1 DEF RefreshSizes, PersistBinary, Flush, SizePass, SizeFlush, caches
<1>13. CASE UNCHANGED vars  BY <1>13, <1>1 DEF vars, caches
<1> QED
  BY <1>2, <1>3, <1>4, <1>5, <1>6, <1>7, <1>8, <1>9, <1>10, <1>11, <1>12, <1>13
  DEF Next, Starting, Persist

\* Which rows wait, and those of a scan.
LEMMA TrackedStep ==
  ASSUME IInv, [Next]_vars
  PROVE  Tracked' /\ Inserting'
<1>0. /\ TypeOK /\ Tracked /\ Inserting /\ index \in Indexes /\ rows \in Places
      /\ index.at \in Places /\ index.added \subseteq File /\ index.removed \subseteq File
  BY DEF IInv, RowsInv, TypeOK, Indexes
<1>1. CASE phase' \notin Awake \cup {"insert"}  BY <1>1 DEF Tracked, Awake, Inserting
<1>2. CASE /\ index'.at = index.at /\ index'.added = index.added /\ index'.removed = index.removed
           /\ UNCHANGED <<rows, drift>> /\ phase' # "insert" /\ phase' # "catchup" /\ phase \in Awake
  BY <1>2, <1>0 DEF Tracked, Inserting
<1>3. CASE UNCHANGED <<index, rows, drift, phase>>
  BY <1>3, <1>0 DEF Tracked, Inserting, PartOf
<1>4. CASE Choose
  <2>1. CASE Scan  BY <2>1, <1>1 DEF Scan, Awake
  <2>2. phase' \in {"catchup", "scan"} /\ rows' = rows  BY <1>4 DEF Choose, Load, Scan, caches
  <2>3. CASE /\ index' = [Empty EXCEPT !.at = binary.at, !.jid = info.jid,
                                       !.usn = binary.usn, !.sized = TRUE]
             /\ drift' = Forgets(binary.at)
    <3>1. index'.at = binary.at /\ index'.added = {}
      BY <2>3, EmptyTyped DEF Indexes, Empty
    <3>2. drift' = "none" => ~Parted(binary.at)  BY <2>3 DEF Forgets
    <3> QED  BY <2>2, <3>1, <3>2 DEF Tracked, Inserting, Parted
  <2>4. CASE index' = [Empty EXCEPT !.at = rows, !.jid = info.jid, !.usn = state.usn]
    <3>1. index'.at = rows /\ index'.added = {}
      BY <2>4, EmptyTyped DEF Indexes, Empty
    <3> QED  BY <2>2, <3>1 DEF Tracked, Inserting
  <2> QED  BY <1>4, <2>1, <2>3, <2>4 DEF Choose, Load
<1>5. CASE CatchUp \/ Read
  <2>1. CASE Scan  BY <2>1, <1>1 DEF Scan, Awake
  <2>2. CASE index' = index /\ phase' = "serve" /\ phase = "catchup" /\ UNCHANGED <<rows, drift>>
    BY <2>2, <1>2 DEF Awake
  <2>3. CASE /\ phase' = "serve" /\ phase \in {"catchup", "serve"} /\ UNCHANGED rows
             /\ index.usn < Len(journal) /\ index' = Applied(index, journal[index.usn + 1])
             /\ phase = "catchup" => UNCHANGED drift
             /\ phase = "serve" => drift' = IF drift = "none" /\ Orphans(index, journal[index.usn + 1])
                                            THEN "gap" ELSE drift
    <3>1. CASE drift' # "none"  BY <2>3, <3>1 DEF Tracked, Inserting
    <3>2. CASE drift' = "none"
      <4>1. drift = "none"  BY <2>3, <3>2
      <4>2. index.usn + 1 \in 1..Len(journal)  BY <2>3, <1>0, JournalTyped DEF Indexes
      <4>3. journal[index.usn + 1] \in Record  BY <4>2, <1>0, JournalTyped
      <4>4. ~Orphans(index, journal[index.usn + 1])
        BY <2>3, <3>2, <4>1, <1>0 DEF Tracked, Orphans
      <4>5. \A f \in File \ (index.added \cup index.removed) : rows[f] # NONE => rows[f] = index.at[f]
        BY <2>3, <4>1, <1>0 DEF Tracked, Awake
      <4>6. \A f \in File \ (index'.added \cup index'.removed) :
              rows'[f] # NONE => rows'[f] = index'.at[f]
        BY <2>3, <4>3, <4>4, <4>5, <1>0, TrackedApplied
      <4> QED  BY <2>3, <4>6 DEF Tracked, Inserting
    <3> QED  BY <3>1, <3>2
  <2> QED  BY <1>5, <2>1, <2>2, <2>3 DEF CatchUp, Read, Publish, caches, thread
<1>6. CASE Ready
  <2>1. drift' = "none" => ~Parted(index.at)  BY <1>6 DEF Ready, Forgets
  <2>2. phase' = "serve" /\ index' = index /\ rows' = rows  BY <1>6 DEF Ready, Publish, caches
  <2> QED  BY <2>1, <2>2 DEF Tracked, Inserting, Parted
<1>7. CASE PersistRows
  <2>1. phase = "serve" /\ phase' = "flush"  BY <1>7 DEF PersistRows
  <2>2. CASE UNCHANGED <<rows, index, drift>>  BY <2>1, <2>2, <1>2 DEF Awake
  <2>3. CASE /\ rows' = [f \in File |-> IF f \in index.added THEN index.at[f]
                                        ELSE IF f \in index.removed THEN NONE ELSE rows[f]]
             /\ index' = [index EXCEPT !.added = {}, !.removed = {}]
             /\ drift' = IF drift = "gap" THEN "rows" ELSE drift
    <3>1. CASE drift' # "none"  BY <2>1, <3>1 DEF Tracked, Inserting
    <3>2. CASE drift' = "none"
      <4>1. drift = "none"  BY <2>3, <3>2
      <4>2. \A f \in File : rows'[f] # NONE => rows'[f] = index.at[f]
        BY <2>1, <2>3, <4>1, <1>0 DEF Tracked, Awake
      <4>3. index'.at = index.at  BY <2>3, <1>0 DEF Indexes
      <4> QED  BY <2>1, <4>2, <4>3 DEF Tracked, Inserting
    <3> QED  BY <3>1, <3>2
  <2> QED  BY <1>7, <2>2, <2>3 DEF PersistRows
<1>8. CASE PersistState
  <2>1. phase = "state" /\ phase' = "flush" /\ rows' = rows  BY <1>8 DEF PersistState
  <2>2. CASE UNCHANGED <<index, drift>>  BY <2>1, <2>2, <1>2 DEF Awake
  <2>3. CASE /\ index' = [index EXCEPT !.added = {}, !.removed = {}]
             /\ drift' = LeavesRows(index.at)
    <3>1. CASE drift' # "none"  BY <2>1, <3>1 DEF Tracked, Inserting
    <3>2. CASE drift' = "none"
      <4>1. ~Parted(index.at)  BY <2>3, <3>2 DEF LeavesRows
      <4>2. index'.at = index.at  BY <2>3, <1>0 DEF Indexes
      <4> QED  BY <2>1, <4>1, <4>2 DEF Tracked, Inserting, Parted
    <3> QED  BY <3>1, <3>2
  <2> QED  BY <1>8, <2>2, <2>3 DEF PersistState
<1>9. CASE RefreshSizes \/ SizePass \/ PersistBinary \/ Flush \/ SizeFlush
  <2>1. index'.at = index.at /\ index'.added = index.added /\ index'.removed = index.removed
    BY <1>9, <1>0 DEF RefreshSizes, SizePass, PersistBinary, Flush, SizeFlush, Flushed, NotFlushed,
       Indexes
  <2>2. phase \in Awake /\ phase' \notin {"insert", "catchup"} /\ UNCHANGED <<rows, drift>>
    BY <1>9 DEF RefreshSizes, SizePass, PersistBinary, Flush, SizeFlush, Awake, Serving, thread,
       caches
  <2> QED  BY <2>1, <2>2, <1>2
<1>10. CASE DeleteRows
  <2>1. CASE phase' = "ready"  BY <2>1, <1>1 DEF Awake
  <2>2. CASE rows' = Nothing /\ phase' = "insert"
    BY <2>2 DEF Tracked, Awake, Inserting, PartOf, Nothing
  <2> QED  BY <1>10, <2>1, <2>2 DEF DeleteRows
<1>11. CASE InsertRows
  <2>1. phase = "insert" /\ index' = index  BY <1>11 DEF InsertRows
  <2>2. CASE phase' = "ready"  BY <2>2, <1>1 DEF Awake
  <2>3. CASE /\ \E batch \in SUBSET todo \ {{}} :
                  rows' = [f \in File |-> IF f \in batch THEN index.at[f] ELSE rows[f]]
             /\ phase' = phase
    <3>1. \A f \in File : rows'[f] # NONE => rows'[f] = index.at[f]
      BY <2>1, <2>3, <1>0 DEF Inserting, PartOf
    <3> QED  BY <2>1, <2>3, <3>1 DEF Tracked, Awake, Inserting, PartOf
  <2> QED  BY <1>11, <2>2, <2>3 DEF InsertRows
<1>12. CASE \/ Start \/ Query \/ SaveBinary \/ ScanFails \/ SaveState \/ PublishCheckpoint \/ Halt
            \/ \E f \in File : ReadRecord(f)
  <2>1. phase' \notin Awake \cup {"insert"}
    BY <1>12 DEF Start, Query, SaveBinary, ScanFails, SaveState, PublishCheckpoint, Halt, ReadRecord,
       Awake
  <2> QED  BY <2>1, <1>1
<1>13. CASE Outside /\ ~Halt
  BY <1>13, <1>3 DEF Outside, Change, Expire, NewJournal, Spoil, Shutdown, thread, caches
<1>14. CASE UNCHANGED vars  BY <1>14, <1>3 DEF vars, thread, caches
<1> QED
  BY <1>4, <1>5, <1>6, <1>7, <1>8, <1>9, <1>10, <1>11, <1>12, <1>13, <1>14
  DEF Next, Starting, Persist, Outside

LEMMA RowsStep ==
  ASSUME IInv, [Next]_vars, UNCHANGED <<disk, journal, jid>>
  PROVE  RowsInv'
BY VouchedStep, TrackedStep DEF RowsInv

LEMMA IndexInit == Init => IInv
<1> SUFFICES ASSUME Init PROVE IInv  OBVIOUS
<1>1. TypeOK  BY TypeInit
<1>2. Len(journal) = 0 /\ jid = 1 /\ phase = "down" /\ binary = NONE /\ state = NONE
  BY DEF Init
<1>3. Behind(info) /\ Behind(index)
  BY <1>2, EmptyTyped DEF Init, Behind, NoInfo
<1> QED
  BY <1>1, <1>2, <1>3 DEF IInv, Told, Positions, Scanned, Loaded, Held, SnapshotFollows,
     RowsInv, RowsVouched, Tracked, Awake, Inserting

LEMMA IndexStep == IInv /\ [Next]_vars => IInv'
<1> SUFFICES ASSUME IInv, [Next]_vars PROVE IInv'  OBVIOUS
<1>1. TypeOK' /\ Told'  BY TypeStep, ToldStep DEF IInv
<1>2. CASE UNCHANGED <<disk, journal, jid>>
  BY <1>1, <1>2, PositionsStep, ScannedStep, LoadedStep, SnapshotStep, RowsStep DEF IInv
<1>3. CASE ~UNCHANGED <<disk, journal, jid>>
  BY <1>1, <1>3, VolumeStep DEF IInv
<1> QED  BY <1>2, <1>3

\* Whatever was scanned while files changed, whichever cache was loaded and wherever a
\* crash fell, what a search finds lacks only changes the journal has yet to tell of,
\* until an index is loaded from rows under a checkpoint that is not theirs: one that
\* moved on although rows that differ were forgotten or are not written, or one written
\* before old rows were deleted or new ones had their own (index_volume,
\* run_incremental, save_volume).
THEOREM IndexIsFollowed == Spec => []IndexFollows
<1>1. IInv => IndexFollows  BY DEF IInv, Loaded, IndexFollows, Serving, Held
<1> QED  BY <1>1, IndexInit, IndexStep, PTL DEF Spec

\* The snapshot on disk can be caught up from its position, whichever thread wrote it
\* and when (flush_binary_snapshot_if_dirty), with the same exception: an index that
\* was loaded from such rows is written to the snapshot as it is.
THEOREM SnapshotIsFollowed == Spec => []SnapshotFollows
<1>1. IInv => SnapshotFollows  BY DEF IInv
<1> QED  BY <1>1, IndexInit, IndexStep, PTL DEF Spec

----------------------------------------------------------------------------
(* The rows that wait to be written.                                        *)

\* Phases in which rows wait: the index is served, or was.
Late == {"serve", "state", "flush", "left"}

\* No row waits before the index is served.
NoneBefore == phase \notin Late => index.added = {} /\ index.removed = {}

PInv == TypeOK /\ PendingIsKnown /\ NoneBefore

LEMMA PendingApplied ==
  ASSUME NEW i \in Indexes, NEW r \in Record,
         i.added \subseteq Present(i.at), i.added \cap i.removed = {}
  PROVE  /\ Applied(i, r).added \subseteq Present(Applied(i, r).at)
         /\ Applied(i, r).added \cap Applied(i, r).removed = {}
<1> DEFINE f == r.file
           same == i.at[f] = r.at
           add == IF same THEN i.added ELSE IF r.at = NONE THEN i.added \ {f} ELSE i.added \cup {f}
           rem == IF same THEN i.removed
                  ELSE IF r.at # NONE THEN i.removed \ {f}
                  ELSE IF f \in i.added THEN i.removed ELSE i.removed \cup {f}
<1>1. Applied(i, r).added = add /\ Applied(i, r).removed = rem  BY DEF Applied, Indexes
<1>2. Applied(i, r).at = [i.at EXCEPT ![f] = r.at]  BY AppliedTyped
<1>3. f \in File /\ i.at \in [File -> Place \cup {NONE}]  BY DEF Record, Indexes, Places
<1>4. add \subseteq Present(Applied(i, r).at)  BY <1>2, <1>3 DEF Present
<1>5. add \cap rem = {}  OBVIOUS
<1> QED  BY <1>1, <1>4, <1>5

\* One record of the journal read into an index that is served from then on.
LEMMA PendingRead ==
  ASSUME PInv, phase' \in Late,
         index.usn < Len(journal), index' = Applied(index, journal[index.usn + 1])
  PROVE  PendingIsKnown' /\ NoneBefore'
<1>1. index \in Indexes  BY DEF PInv, TypeOK, Indexes
<1>2. index.usn + 1 \in 1..Len(journal)  BY <1>1, JournalTyped DEF PInv, Indexes
<1>3. journal[index.usn + 1] \in Record  BY <1>2, JournalTyped DEF PInv
<1> QED
  BY <1>1, <1>3, PendingApplied DEF PInv, PendingIsKnown, NoneBefore, Present

LEMMA PendingStep == PInv /\ [Next]_vars => PInv'
<1> SUFFICES ASSUME PInv, [Next]_vars PROVE PendingIsKnown' /\ NoneBefore'
  BY TypeStep DEF PInv
<1>0. TypeOK /\ PendingIsKnown /\ NoneBefore /\ index \in Indexes
  BY DEF PInv, TypeOK, Indexes
<1>1. CASE index'.added = {} /\ index'.removed = {}
  BY <1>1 DEF PendingIsKnown, NoneBefore
<1>2. CASE /\ index'.at = index.at /\ index'.added = index.added /\ index'.removed = index.removed
           /\ phase' \in Late \/ UNCHANGED phase
  BY <1>2, <1>0 DEF PendingIsKnown, NoneBefore, Present
<1>e. Empty.added = {} /\ Empty.removed = {}  BY DEF Empty
<1>3. CASE Choose
  <2>1. \/ index' = Empty
        \/ index' = [Empty EXCEPT !.at = binary.at, !.jid = info.jid, !.usn = binary.usn,
                                  !.sized = TRUE]
        \/ index' = [Empty EXCEPT !.at = rows, !.jid = info.jid, !.usn = state.usn]
    BY <1>3 DEF Choose, Load, Scan
  <2>2. index'.added = {} /\ index'.removed = {}  BY <2>1, <1>e, EmptyTyped DEF Indexes
  <2> QED  BY <2>2, <1>1
<1>4. CASE CatchUp
  <2>1. CASE Scan  BY <2>1, <1>1, <1>e DEF Scan
  <2>2. CASE phase' = "serve" /\ index.usn < Len(journal)
             /\ index' = Applied(index, journal[index.usn + 1])
    BY <2>2, PendingRead DEF Late
  <2>3. CASE phase' = "serve" /\ index' = index  BY <2>3, <1>2 DEF Late
  <2> QED  BY <1>4, <2>1, <2>2, <2>3 DEF CatchUp, Publish
<1>5. CASE \E f \in File : ReadRecord(f)
  <2>1. PICK f \in File : ReadRecord(f)  BY <1>5
  <2>2. phase = "scan" /\ index' = [index EXCEPT !.at[f] = disk[f]]  BY <2>1 DEF ReadRecord
  <2>3. index.added = {} /\ index.removed = {}  BY <2>2, <1>0 DEF NoneBefore, Late
  <2>4. index'.added = index.added /\ index'.removed = index.removed
    BY <2>2, <1>0 DEF Indexes
  <2> QED  BY <2>3, <2>4, <1>1
<1>6. CASE SaveBinary
  <2>1. phase = "scan"  BY <1>6 DEF SaveBinary
  <2>2. index.added = {} /\ index.removed = {}  BY <2>1, <1>0 DEF NoneBefore, Late
  <2>3. index'.added = index.added /\ index'.removed = index.removed
    BY <1>6, <1>0 DEF SaveBinary, Indexes
  <2> QED  BY <2>2, <2>3, <1>1
<1>7. CASE ScanFails \/ Halt  BY <1>7, <1>1, <1>e DEF ScanFails, Halt
<1>8. CASE Start \/ Query \/ SaveState \/ DeleteRows \/ InsertRows \/ PublishCheckpoint \/ Ready
  <2>1. phase \notin Late /\ UNCHANGED index
    BY <1>8 DEF Start, Query, SaveState, DeleteRows, InsertRows, PublishCheckpoint, Ready, Publish,
       Late
  <2>2. index.added = {} /\ index.removed = {}  BY <2>1, <1>0 DEF NoneBefore
  <2> QED  BY <2>1, <2>2, <1>1
<1>9. CASE Read
  BY <1>9, PendingRead DEF Read, thread, Late
<1>10. CASE RefreshSizes \/ SizePass
  <2>1. index'.at = index.at /\ index'.added = index.added /\ index'.removed = index.removed
    BY <1>10, <1>0 DEF RefreshSizes, SizePass, Indexes
  <2> QED  BY <2>1, <1>2, <1>10 DEF RefreshSizes, SizePass, thread
<1>11. CASE PersistBinary \/ Flush \/ SizeFlush
  <2>1. index'.at = index.at /\ index'.added = index.added /\ index'.removed = index.removed
    BY <1>11, <1>0 DEF PersistBinary, Flush, SizeFlush, Flushed, NotFlushed, Indexes
  <2>2. phase' \in Late \/ UNCHANGED phase
    BY <1>11 DEF PersistBinary, Flush, SizeFlush, thread, Late
  <2> QED  BY <2>1, <2>2, <1>2
<1>12. CASE PersistRows \/ PersistState
  <2>1. phase' \in Late  BY <1>12 DEF PersistRows, PersistState, Late
  <2>2. CASE UNCHANGED index  BY <2>1, <2>2, <1>2
  <2>3. CASE index' = [index EXCEPT !.added = {}, !.removed = {}]
    <3>1. index'.added = {} /\ index'.removed = {}  BY <2>3, <1>0 DEF Indexes
    <3> QED  BY <3>1, <1>1
  <2> QED  BY <1>12, <2>2, <2>3 DEF PersistRows, PersistState
<1>13. CASE Outside /\ ~Halt
  BY <1>13, <1>2 DEF Outside, Change, Expire, NewJournal, Spoil, Shutdown, thread
<1>14. CASE UNCHANGED vars  BY <1>14, <1>2 DEF vars, thread
<1> QED
  BY <1>3, <1>4, <1>5, <1>6, <1>7, <1>8, <1>9, <1>10, <1>11, <1>12, <1>13, <1>14
  DEF Next, Starting, Persist, Outside

\* take_pending_snapshot never meets a row that waits to be written and is not in
\* the index, or that waits to be written and to be deleted: persisting the rows of
\* a volume does not stop at one.
THEOREM PendingRowsAreKnown == Spec => []PendingIsKnown
<1>1. Init => PInv
  BY TypeInit DEF Init, PInv, PendingIsKnown, NoneBefore, Empty, Present, Late
<1> QED  BY <1>1, PendingStep, PTL DEF Spec, PInv
============================================================================
