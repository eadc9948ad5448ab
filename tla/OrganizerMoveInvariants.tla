---------------------- MODULE OrganizerMoveInvariants ----------------------
(***************************************************************************)
(* The inductive invariants of OrganizerMove and the effects of its steps, *)
(* for the proofs in OrganizerMoveProofs.                                  *)
(*                                                                         *)
(* The invariants, each used by the next:                                  *)
(*   TypeInv     what a record in use has been filled with;                *)
(*   Owned       a live request belongs to one process, and nobody         *)
(*               reconciles the operation of another live worker;          *)
(*   JournalInv  the journal is ahead of the rename;                       *)
(*   FilesInv    where every identity is, and what a closed row says of it;*)
(*   OutcomeInv  what has become of the source of a move, and that no      *)
(*               reconciliation fails a move that stands.                  *)
(*                                                                         *)
(* Three more are about one instance of the application before any fault:  *)
(*   CalmInv     whoever has copied or moved a file still looks after it;  *)
(*   ExemptInv   the exemptions of the restored files;                     *)
(*   CheckedInv  the file that has passed the exemption check.             *)
(***************************************************************************)
EXTENDS OrganizerMove

----------------------------------------------------------------------------
(* What a record that is in use has been filled with.                      *)

Terminal == Statuses \ {"none", "started"}

RowFilled(r) == /\ r.src \in Path /\ r.dst \in Path /\ r.snap \in Snap
                /\ r.kind # "undo" => r.src \in Watched
                /\ r.kind = "undo" => r.parent \in Op
                /\ r.status = "completed" => r.after \in Snap

RowsFilled == \A o \in Op : ops[o].status # "none" => RowFilled(ops[o])

WorkFilled == \A p \in Proc : work[p].pc # "idle" =>
  /\ work[p].op \in Op /\ work[p].target \in Path /\ work[p].snap \in Snap
  /\ ops[work[p].op].status # "none"
  /\ work[p].pc = "finish" => work[p].result \in Terminal
  /\ work[p].pc = "exempt" => work[p].result = "completed"

QueueFilled == \A p \in Proc : \A i \in 1..Len(queue[p]) : ops[queue[p][i]].status # "none"

RecFilled == \A p \in Proc :
  /\ \A o \in rec[p].todo : ops[o].status # "none"
  /\ rec[p].op # NONE => ops[rec[p].op].status # "none"
  /\ rec[p].verdict # "none" => rec[p].op # NONE
  /\ rec[p].verdict \in {"rollback", "complete"} => rec[p].dst \in Path /\ rec[p].snap \in Snap

CheckedFilled == \A p \in Proc : checked[p] # NONE => pending[p][checked[p]] \in Snap

\* A process that is not running has no thread and no worker.
Quiet == \A p \in Proc :
  /\ phase[p] # "running" => checked[p] = NONE /\ work[p] = Idle /\ queue[p] = << >>
  /\ phase[p] = "down" => rec[p] = NoRec

Filled == RowsFilled /\ WorkFilled /\ QueueFilled /\ RecFilled /\ CheckedFilled /\ Quiet

TypeInv == TypeOK /\ Filled

\* A row that is in use stays in use.
Kept == \A o \in Op : ops[o].status # "none" => ops'[o].status # "none"

----------------------------------------------------------------------------
(* How far a step takes a request of the worker.                           *)

Busy == {"check", "recheck", "lock", "rename", "publish", "delete", "exempt", "finish",
         "release", "recover"}

\* The current request goes on at pc, with these particulars.
Step(p, pc, t, s, r) ==
  /\ pc \in Busy /\ t \in Path /\ s \in Snap /\ r \in Statuses
  /\ pc = "finish" => r \in Terminal
  /\ pc = "exempt" => r = "completed"
  /\ work'[p] \in Request
  /\ work'[p].op = work[p].op /\ work'[p].pc = pc /\ work'[p].target = t
  /\ work'[p].snap = s /\ work'[p].result = r
  /\ work' \in [Proc -> Request]
  /\ \A q \in Proc \ {p} : work'[q] = work[q]

WorkMoves(p) == \E pc \in Busy, t \in Path, s \in Snap, r \in Statuses : Step(p, pc, t, s, r)

\* ... and it is neither done nor given up.
MoveOn(p) == \E pc \in Busy \ {"release", "recover"}, t \in Path, s \in Snap, r \in Statuses :
               Step(p, pc, t, s, r)

\* The types of the variables that hold no requests.
DataTyped ==
  /\ disk \in [Path -> Snap \cup {NONE}] /\ serial \in Nat
  /\ ops \in [Op -> OpRow]
  /\ journal \in [Op -> Entry \cup {NONE}]
  /\ exemptDb \in [Path -> Snap \cup {NONE}]
  /\ exempt \in [Proc -> [Path -> Snap \cup {NONE}]]
  /\ inFlight \in [Proc -> SUBSET Path]
  /\ used \in [edits : Nat, crashes : Nat, faults : Nat]
  /\ placed \in [Op -> Placement \cup {NONE}]

\* The steps that leave the operations table alone.
MoveStep(p) == \/ CheckMove(p) \/ RecheckActivation(p) \/ LockAndJournal(p)
               \/ RenameInVolume(p) \/ CopyAndJournal(p) \/ PublishCopy(p)
               \/ DeleteSource(p) \/ ExemptRestored(p)

\* The columns the ledger sees.
SameColumns == \A o \in Op : /\ ops'[o].status = ops[o].status
                             /\ ops'[o].kind = ops[o].kind
                             /\ ops'[o].parent = ops[o].parent
                             /\ ops'[o].undone = ops[o].undone

----------------------------------------------------------------------------
(* Who holds a request, and what the journal says of the file it moves.    *)

RequestsOwned == \A p \in Proc :
  /\ work[p].pc # "idle" => ops[work[p].op].owner = p
  /\ \A i \in 1..Len(queue[p]) : ops[queue[p][i]].owner = p

RequestsDistinct == \A p \in Proc : \A i \in 1..Len(queue[p]) :
  /\ work[p].pc # "idle" => queue[p][i] # work[p].op
  /\ \A j \in 1..Len(queue[p]) : queue[p][i] = queue[p][j] => i = j

RequestsStarted == \A p \in Proc :
  /\ work[p].pc \notin {"idle", "release", "recover"} => ops[work[p].op].status = "started"
  /\ \A i \in 1..Len(queue[p]) : ops[queue[p][i]].status = "started"

RecoveryOwned == \A p \in Proc : rec[p].op # NONE =>
  \/ phase[p] = "starting" /\ ops[rec[p].op].owner = NONE
  \/ phase[p] = "running" /\ work[p].pc = "recover" /\ work[p].op = rec[p].op

Owned == RequestsOwned /\ RequestsDistinct /\ RequestsStarted /\ RecoveryOwned

NothingPlacedYet ==
  /\ \A o \in Op : ops[o].status = "none" => placed[o] = NONE
  /\ \A p \in Proc :
       /\ \A i \in 1..Len(queue[p]) : placed[queue[p][i]] = NONE
       /\ work[p].pc \in {"check", "recheck", "lock", "rename", "publish"}
            => placed[work[p].op] = NONE

JournalCurrent == \A p \in Proc :
  /\ work[p].pc = "rename" =>
       journal[work[p].op] = [dst |-> work[p].target, snap |-> ops[work[p].op].snap]
  /\ work[p].pc \in {"publish", "delete"} =>
       journal[work[p].op] = [dst |-> work[p].target, snap |-> work[p].snap]

JournalInv == NothingPlacedYet /\ JournalCurrent /\ JournalAheadOfMove

MoveInv == TypeInv /\ Owned /\ JournalInv

----------------------------------------------------------------------------
(* What a step leaves of the rows.                                         *)

\* Rows keep owner, status and source identity.
RowsKept == \A o \in Op : ops[o].status # "none" => /\ ops'[o].status = ops[o].status
                                                    /\ ops'[o].owner = ops[o].owner
                                                    /\ ops'[o].snap = ops[o].snap

\* The row of o is new and owned by p; the others are as they were.
NewRow(p, o) == /\ ops[o].status = "none"
                /\ ops'[o].owner = p /\ ops'[o].status \in {"started", "skipped"}
                /\ \A a \in Op \ {o} : ops'[a] = ops[a]

\* A row is closed: everything else of the table and the journal stays.
ClosedOnly(o) ==
  /\ \A a \in Op : ops'[a].owner = ops[a].owner /\ ops'[a].snap = ops[a].snap
  /\ \A a \in Op \ {o} : ops'[a].status = ops[a].status /\ journal'[a] = journal[a]
  /\ \/ ops'[o].status = ops[o].status /\ journal'[o] = journal[o]
     \/ ops[o].status = "started" /\ ops'[o].status \in Terminal

----------------------------------------------------------------------------
(* The claims of a request, and where every identity is while it is        *)
(* moved, rolled back and recovered.                                       *)

\* An undo is never diverted.
UndoTarget == \A p \in Proc :
  work[p].pc \notin {"idle", "recover"} /\ ops[work[p].op].kind = "undo" =>
    work[p].target = ops[work[p].op].dst

ClaimsInv == UndoTarget /\ ClaimsMatchRequests

Holding == {"rename", "publish", "delete"}

\* No two paths hold the same file.
DistinctFiles == \A x, y \in Path :
  x # y /\ disk[x] # NONE /\ disk[y] # NONE => disk[x].id # disk[y].id

\* Identities are new.
KnownIds ==
  /\ \A x \in Path : disk[x] # NONE => disk[x].id <= serial
  /\ \A o \in Op : journal[o] # NONE => journal[o].snap.id <= serial

\* A copy that is not published is on no path.
CopiesHidden == \A p \in Proc : work[p].pc = "publish" =>
  /\ work[p].snap.id <= serial
  /\ \A x \in Path : disk[x] # NONE => disk[x].id # work[p].snap.id
  /\ \A q \in Proc \ {p} : work[q].pc = "publish" => work[q].snap.id # work[p].snap.id

\* A held file is where it was when it was opened.
HeldInPlace == \A p \in Proc :
  /\ work[p].pc \in {"recheck", "lock"} \cup Holding => work[p].target # ops[work[p].op].src
  /\ work[p].pc \in Holding => disk[ops[work[p].op].src] = ops[work[p].op].snap
  /\ work[p].pc \in {"publish", "delete"} => work[p].snap.doc = ops[work[p].op].snap.doc
  /\ work[p].pc = "delete" => disk[work[p].target] = work[p].snap

\* No file is held twice.
HeldOnce == \A p, q \in Proc : p # q /\ work[p].pc \in Holding =>
  /\ work[q].pc \in Holding => ops[work[q].op].src # ops[work[p].op].src
  /\ work[q].pc = "delete" => work[q].target # ops[work[p].op].src
  /\ work[p].pc = "delete" /\ work[q].pc = "delete" => work[q].target # work[p].target

\* A move has put this file there.
PutIn(pl, x, snap) == \E q \in Op : pl[q] # NONE /\ pl[q].dst = x /\ pl[q].snap = snap

\* A file that matches a journal row is there because of a move.
JournalMatched == \A o \in Op :
  journal[o] # NONE /\ disk[journal[o].dst] = journal[o].snap =>
    PutIn(placed, journal[o].dst, journal[o].snap)

\* So is the file of a request that reports success ...
WorkPlaced == \A p \in Proc :
  /\ work[p].pc = "delete" =>
       /\ placed[work[p].op] # NONE
       /\ placed[work[p].op].dst = work[p].target /\ placed[work[p].op].snap = work[p].snap
  /\ \/ work[p].pc = "exempt"
     \/ work[p].pc = "finish" /\ work[p].result = "completed"
     => PutIn(placed, work[p].target, work[p].snap)

\* ... and that of a reconciliation that completes its row.
RecoveryPlaced == \A p \in Proc :
  rec[p].verdict = "complete" => PutIn(placed, rec[p].dst, rec[p].snap)

DiskInv == DistinctFiles /\ KnownIds /\ CopiesHidden /\ HeldInPlace /\ HeldOnce
RecordInv == JournalMatched /\ WorkPlaced /\ RecoveryPlaced /\ CompletedIsReal

\* The claims of p are those of its requests, and these touch different paths.
ClaimsOf(p) == /\ inFlight[p] = UNION {Touched(o) : o \in Requests(p)}
               /\ \A a, b \in Requests(p) : a # b => Touched(a) \cap Touched(b) = {}

\* What the rows of these operations touch stays as it is.
TouchKept(S) == \A o \in S : /\ ops'[o].kind = ops[o].kind
                             /\ ops'[o].src = ops[o].src
                             /\ ops'[o].kind = "undo" => ops'[o].dst = ops[o].dst

Live(p) == work[p].pc \notin {"idle", "recover"}

FilesInv == DiskInv /\ RecordInv

\* What the disk needs of a row: the file it is about stays the same.
FileKept == \A o \in Op : ops[o].status # "none" => /\ ops'[o].src = ops[o].src
                                                    /\ ops'[o].snap = ops[o].snap

\* A placement is final, except for what became of the source.
PlacedKept == \A o \in Op : placed[o] # NONE => /\ placed'[o] # NONE
                                                /\ placed'[o].dst = placed[o].dst
                                                /\ placed'[o].snap = placed[o].snap

\* The request of p reports that its file has been moved.
Succeeds(p) == work[p].pc = "exempt" \/ (work[p].pc = "finish" /\ work[p].result = "completed")

----------------------------------------------------------------------------
(* The steps, row by row and path by path: an effect says what a step      *)
(* of one actor does to the files and to the records about them.           *)

FilesSame == UNCHANGED <<disk, serial, placed>>
ExemptionsSame == UNCHANGED <<exempt, exemptDb>>
ThreadSame == UNCHANGED <<pending, checked>>
FaultsGrow == used.faults \in Nat /\ used'.faults \in Nat /\ used.faults <= used'.faults
FaultsSame == used'.faults = used.faults

UserEffect ==
  /\ UNCHANGED <<ops, journal, phase, queue, work, rec, placed>>
  /\ ThreadSame /\ ExemptionsSame /\ FaultsSame
  /\ \E x \in Path :
       /\ ~Held(x)
       /\ \A y \in Path : y # x => disk'[y] = disk[y]
       /\ \/ disk'[x] = NONE /\ serial' = serial
          \/ /\ serial' = serial + 1 /\ disk'[x] \in Snap
             /\ disk'[x].id = serial + 1 /\ disk'[x].doc = serial + 1

\* A step of the worker of p leaves the rows and everybody else alone.
MoveFrame(p) ==
  /\ work[p].pc # "idle" /\ work'[p].op = work[p].op
  /\ \A q \in Proc : q # p => work'[q] = work[q]
  /\ UNCHANGED <<ops, phase, rec, queue>> /\ ThreadSame

\* The file is not moved yet: the request goes on, perhaps to another target
\* or with its journal row written, or it ends without a move.
GoesOn(p) ==
  /\ MoveFrame(p) /\ FilesSame /\ ExemptionsSame
  /\ work[p].pc \in {"check", "recheck", "lock", "rename", "publish"}
  /\ \A a \in Op : \/ journal'[a] = journal[a]
                   \/ /\ a = work[p].op
                      /\ journal'[a].dst = work'[p].target /\ journal'[a].snap = ops[a].snap
  /\ work'[p].snap = work[p].snap
  /\ \/ /\ work'[p].pc = "finish" /\ work'[p].result # "completed"
        /\ work'[p].target = work[p].target
     \/ /\ work'[p].pc \in {"recheck", "lock", "rename"}
        /\ work'[p].target = work[p].target \/ work'[p].target \in Spare
        /\ ops[work[p].op].kind = "undo" => /\ work[p].pc # "publish"
                                            /\ work'[p].target = work[p].target

\* The request of p has put the file snap where it should be.
Arrives(p, s) ==
  /\ work'[p].pc = IF ops[work[p].op].kind = "undo" THEN "exempt" ELSE "finish"
  /\ work'[p].target = work[p].target /\ work'[p].snap = s /\ work'[p].result = "completed"

Places(p, s, g) ==
  /\ placed'[work[p].op] # NONE
  /\ placed'[work[p].op].dst = work[p].target
  /\ placed'[work[p].op].snap = s /\ placed'[work[p].op].gone = g
  /\ \A a \in Op : a # work[p].op => placed'[a] = placed[a]

Renames(p) ==
  /\ MoveFrame(p) /\ ExemptionsSame /\ FaultsSame /\ UNCHANGED <<serial, journal>>
  /\ work[p].pc = "rename" /\ disk[work[p].target] = NONE
  /\ disk'[ops[work[p].op].src] = NONE /\ disk'[work[p].target] = ops[work[p].op].snap
  /\ \A x \in Path : x # ops[work[p].op].src /\ x # work[p].target => disk'[x] = disk[x]
  /\ Places(p, ops[work[p].op].snap, TRUE) /\ Arrives(p, ops[work[p].op].snap)

Copies(p) ==
  /\ MoveFrame(p) /\ ExemptionsSame /\ FaultsSame /\ UNCHANGED <<disk, placed>>
  /\ work[p].pc = "rename" /\ work'[p].pc = "publish" /\ work'[p].target = work[p].target
  /\ serial' = serial + 1
  /\ work'[p].snap \in Snap /\ work'[p].snap.id = serial + 1
  /\ work'[p].snap.doc = ops[work[p].op].snap.doc
  /\ journal'[work[p].op].dst = work[p].target /\ journal'[work[p].op].snap = work'[p].snap
  /\ \A a \in Op : a # work[p].op => journal'[a] = journal[a]

Publishes(p) ==
  /\ MoveFrame(p) /\ ExemptionsSame /\ FaultsSame /\ UNCHANGED <<serial, journal>>
  /\ work[p].pc = "publish" /\ disk[work[p].target] = NONE
  /\ disk'[work[p].target] = work[p].snap
  /\ \A x \in Path : x # work[p].target => disk'[x] = disk[x]
  /\ Places(p, work[p].snap, FALSE)
  /\ work'[p].pc = "delete" /\ work'[p].target = work[p].target /\ work'[p].snap = work[p].snap

Deletes(p) ==
  /\ MoveFrame(p) /\ ExemptionsSame /\ FaultsSame /\ UNCHANGED <<serial, journal>>
  /\ work[p].pc = "delete"
  /\ disk'[ops[work[p].op].src] = NONE
  /\ \A x \in Path : x # ops[work[p].op].src => disk'[x] = disk[x]
  /\ Places(p, work[p].snap, TRUE) /\ Arrives(p, work[p].snap)

KeepsSource(p) ==
  /\ MoveFrame(p) /\ ExemptionsSame /\ UNCHANGED <<serial, journal, placed>>
  /\ used.faults \in Nat /\ used'.faults = used.faults + 1
  /\ work[p].pc = "delete"
  /\ \A x \in Path : \/ disk'[x] = disk[x]
                     \/ x = work[p].target /\ disk'[x] = NONE
  /\ work'[p].pc = "finish" /\ work'[p].result # "completed"
  /\ work'[p].target = work[p].target /\ work'[p].snap = work[p].snap

Exempts(p) ==
  /\ MoveFrame(p) /\ FilesSame /\ UNCHANGED journal
  /\ work[p].pc = "exempt"
  /\ exempt'[p][work[p].target] = work[p].snap
  /\ \A x \in Path : x # work[p].target => exempt'[p][x] = exempt[p][x]
  /\ \A q \in Proc : q # p => exempt'[q] = exempt[q]
  /\ \/ /\ FaultsSame
        /\ exemptDb'[work[p].target] = work[p].snap
        /\ \A x \in Path : x # work[p].target => exemptDb'[x] = exemptDb[x]
     \/ used.faults \in Nat /\ used'.faults = used.faults + 1 /\ exemptDb' = exemptDb
  /\ work'[p].pc = "finish" /\ work'[p].target = work[p].target /\ work'[p].snap = work[p].snap
  /\ work'[p].result = "completed"

\* The worker of p takes up the next request.
Takes(p) ==
  /\ FilesSame /\ ExemptionsSame /\ FaultsSame /\ ThreadSame /\ UNCHANGED <<ops, journal, phase, rec>>
  /\ phase[p] = "running" /\ work[p].pc = "idle"
  /\ \A q \in Proc : q # p => work'[q] = work[q] /\ queue'[q] = queue[q]
  /\ work'[p].pc = "check" /\ work'[p].op \in Requests(p) /\ placed[work'[p].op] = NONE
  /\ work'[p].target = ops[work'[p].op].dst /\ work'[p].snap = ops[work'[p].op].snap
  /\ \A q \in Proc : Requests(q)' \subseteq Requests(q)

\* The row o is closed with this outcome.
RowCloses(o, st, dst, snap) ==
  /\ o \in Op /\ ops[o].status = "started" /\ st \in Terminal
  /\ \A a \in Op : /\ ops'[a].kind = ops[a].kind /\ ops'[a].src = ops[a].src
                   /\ ops'[a].snap = ops[a].snap /\ ops'[a].owner = ops[a].owner
  /\ \A a \in Op : a # o => /\ ops'[a].dst = ops[a].dst /\ ops'[a].after = ops[a].after
                            /\ ops'[a].status = ops[a].status /\ journal'[a] = journal[a]
  /\ ops'[o].status = st /\ journal'[o] = NONE
  /\ IF st = "completed" THEN ops'[o].dst = dst /\ ops'[o].after = snap
     ELSE ops'[o].dst = ops[o].dst
  /\ IF st = "completed" /\ ops[o].kind = "undo"
     THEN /\ exemptDb'[dst] = snap
          /\ \A x \in Path : x # dst => exemptDb'[x] = exemptDb[x]
     ELSE exemptDb' = exemptDb

\* The worker of p closes the row of its request, unless the write fails.
Finishes(p) ==
  /\ FilesSame /\ ThreadSame /\ exempt' = exempt /\ UNCHANGED <<phase, rec, queue>>
  /\ work[p].pc = "finish" /\ work'[p].pc = "release"
  /\ work'[p].op = work[p].op /\ work'[p].target = work[p].target /\ work'[p].snap = work[p].snap
  /\ work'[p].result = work[p].result
  /\ \A q \in Proc : q # p => work'[q] = work[q]
  /\ \/ FaultsSame /\ RowCloses(work[p].op, work[p].result, work[p].target, work[p].snap)
     \/ used.faults \in Nat /\ used'.faults = used.faults + 1 /\ UNCHANGED <<ops, journal, exemptDb>>

\* The worker of p is free again, or hands its operation to a reconciliation.
Releases(p) ==
  /\ FilesSame /\ ExemptionsSame /\ FaultsSame /\ ThreadSame
  /\ UNCHANGED <<ops, journal, phase, rec, queue>>
  /\ work[p].pc = "release" /\ work'[p].pc = "idle"
  /\ \A q \in Proc : q # p => work'[q] = work[q]

Panics(p) ==
  /\ FilesSame /\ ExemptionsSame /\ ThreadSame /\ UNCHANGED <<ops, journal, phase, queue>>
  /\ used.faults \in Nat /\ used'.faults = used.faults + 1
  /\ work[p].pc \notin {"idle", "recover"} /\ work'[p].pc = "recover"
  /\ work'[p].op = work[p].op /\ work'[p].target = work[p].target /\ work'[p].snap = work[p].snap
  /\ rec'[p].op = work[p].op /\ rec'[p].verdict = "none"
  /\ \A q \in Proc : q # p => work'[q] = work[q] /\ rec'[q] = rec[q]

RecFrame(p) ==
  /\ exempt' = exempt
  /\ ThreadSame /\ UNCHANGED <<phase, queue, serial, placed>>
  /\ \A q \in Proc : q # p => work'[q] = work[q] /\ rec'[q] = rec[q]

RecOver(p, todo) == /\ rec'[p].op = NONE /\ rec'[p].verdict = "none" /\ rec'[p].todo = todo
                    /\ work'[p].pc = "idle"

RecFails(p) == /\ rec'[p].op = rec[p].op /\ rec'[p].verdict = "fail" /\ rec'[p].todo = rec[p].todo
               /\ work' = work

Picks(p) ==
  /\ RecFrame(p) /\ ExemptionsSame /\ FaultsSame /\ FilesSame /\ UNCHANGED <<ops, journal, work>>
  /\ phase[p] = "starting" /\ rec[p].op = NONE /\ rec'[p].verdict = "none"
  /\ \E o \in rec[p].todo : /\ rec'[p].todo = rec[p].todo \ {o}
                            /\ rec'[p].op = IF ops[o].owner = NONE THEN o ELSE NONE

Looks(p) ==
  /\ RecFrame(p) /\ ExemptionsSame /\ FaultsSame /\ FilesSame /\ UNCHANGED <<ops, journal, work>>
  /\ rec[p].op # NONE /\ rec'[p].op = rec[p].op /\ rec'[p].todo = rec[p].todo
  /\ rec'[p].verdict = Verdict(rec[p].op)
  /\ journal[rec[p].op] # NONE => /\ rec'[p].dst = journal[rec[p].op].dst
                                  /\ rec'[p].snap = journal[rec[p].op].snap

RemovesCopy(p) ==
  /\ RecFrame(p) /\ ExemptionsSame /\ UNCHANGED <<ops, journal>>
  /\ rec[p].op # NONE /\ rec[p].verdict = "rollback"
  /\ \/ /\ disk[rec[p].dst] = rec[p].snap /\ FaultsSame
        /\ disk'[rec[p].dst] = NONE
        /\ \A x \in Path : x # rec[p].dst => disk'[x] = disk[x]
        /\ RecFails(p)
     \/ /\ disk' = disk
        /\ \/ FaultsSame /\ (disk[rec[p].dst] # rec[p].snap \/ Held(rec[p].dst))
           \/ used.faults \in Nat /\ used'.faults = used.faults + 1
        /\ \/ RecFails(p)
           \/ phase[p] = "starting" /\ RecOver(p, rec[p].todo)

Closes(p) ==
  /\ RecFrame(p) /\ FilesSame /\ exempt' = exempt
  /\ rec[p].op # NONE /\ rec[p].verdict \in {"fail", "complete"}
  /\ \/ /\ FaultsSame /\ RecOver(p, rec[p].todo)
        /\ \/ ops[rec[p].op].status # "started" /\ UNCHANGED <<ops, journal, exemptDb>>
           \/ /\ rec[p].verdict = "complete"
              /\ RowCloses(rec[p].op, "completed", rec[p].dst, rec[p].snap)
           \/ rec[p].verdict = "fail" /\ RowCloses(rec[p].op, "failed", NONE, NONE)
     \/ /\ used.faults \in Nat /\ used'.faults = used.faults + 1 /\ UNCHANGED <<ops, journal, exemptDb>>
        /\ \/ phase[p] = "running" /\ rec[p].verdict = "complete" /\ RecFails(p)
           \/ RecOver(p, {})

Starts(p) ==
  /\ FilesSame /\ ExemptionsSame /\ FaultsSame /\ ThreadSame
  /\ UNCHANGED <<ops, journal, queue, work>>
  /\ phase[p] = "down" /\ phase'[p] = "starting"
  /\ rec'[p].op = NONE /\ rec'[p].verdict = "none"
  /\ rec'[p].todo = {o \in Op : ops[o].status = "started"}
  /\ \A q \in Proc : q # p => phase'[q] = phase[q] /\ rec'[q] = rec[q]

Readies(p) ==
  /\ FilesSame /\ exemptDb' = exemptDb /\ UNCHANGED <<ops, queue, work, rec, checked>>
  /\ phase[p] = "starting" /\ phase'[p] = "running"
  /\ rec[p].op = NONE /\ rec[p].verdict = "none" /\ rec[p].todo = {}
  /\ \A o \in Op : \/ journal'[o] = journal[o]
                   \/ ops[o].status # "started" /\ journal'[o] = NONE
  /\ \/ FaultsSame /\ exempt'[p] = exemptDb
     \/ used.faults \in Nat /\ used'.faults = used.faults + 1
  /\ \A x \in Watched : pending'[p][x] = disk[x]
  /\ \A q \in Proc : q # p => phase'[q] = phase[q] /\ exempt'[q] = exempt[q] /\ pending'[q] = pending[q]

Crashes(p) ==
  /\ FilesSame /\ exemptDb' = exemptDb /\ journal' = journal /\ FaultsSame
  /\ phase'[p] = "down"
  /\ \A o \in Op : /\ ops'[o].status = ops[o].status /\ ops'[o].kind = ops[o].kind
                   /\ ops'[o].src = ops[o].src /\ ops'[o].dst = ops[o].dst
                   /\ ops'[o].snap = ops[o].snap /\ ops'[o].after = ops[o].after
                   /\ ops'[o].owner = IF ops[o].owner = p THEN NONE ELSE ops[o].owner
  /\ work'[p].pc = "idle" /\ rec'[p].op = NONE /\ rec'[p].verdict = "none"
  /\ checked'[p] = NONE /\ \A x \in Watched : pending'[p][x] = NONE
  /\ 1..Len(queue'[p]) = {} /\ Requests(p)' = {}
  /\ \A q \in Proc : q # p => /\ phase'[q] = phase[q] /\ exempt'[q] = exempt[q]
                              /\ pending'[q] = pending[q] /\ checked'[q] = checked[q]
                              /\ queue'[q] = queue[q] /\ work'[q] = work[q] /\ rec'[q] = rec[q]
                              /\ Requests(q)' = Requests(q)

ThreadFrame(p) ==
  /\ FilesSame /\ UNCHANGED <<journal, phase, work, rec>>
  /\ \A q \in Proc : q # p => /\ pending'[q] = pending[q] /\ checked'[q] = checked[q]
                              /\ exempt'[q] = exempt[q] /\ queue'[q] = queue[q]

\* A file is noticed, or the thread has seen that it changed or is exempt.
Notices(p) ==
  /\ ThreadFrame(p) /\ ExemptionsSame /\ FaultsSame /\ UNCHANGED <<ops, queue, checked>>
  /\ \A x \in Watched : pending'[p][x] \in {pending[p][x], disk[x], NONE}
  /\ phase[p] = "running" /\ checked[p] = NONE

\* The stable file x passes the exemption check.
Passes(p) ==
  /\ ThreadFrame(p) /\ UNCHANGED <<ops, queue, pending>>
  /\ phase[p] = "running" /\ checked[p] = NONE
  /\ \E x \in Watched :
       /\ Settled(x) /\ disk[x] = pending[p][x] /\ disk[x] # NONE /\ exempt[p][x] # disk[x]
       /\ checked'[p] = x
       /\ exempt'[p][x] = NONE
       /\ \A y \in Path : y # x => exempt'[p][y] = exempt[p][y] /\ exemptDb'[y] = exemptDb[y]
       /\ \/ /\ FaultsSame
             /\ exemptDb'[x] = IF exempt[p][x] = NONE THEN exemptDb[x] ELSE NONE
          \/ used.faults \in Nat /\ used'.faults = used.faults + 1 /\ exemptDb'[x] = exemptDb[x]

\* The file that passed is kept for later, or dropped.
Drops(p) ==
  /\ ThreadFrame(p) /\ ExemptionsSame /\ UNCHANGED <<ops, queue>>
  /\ phase[p] = "running" /\ checked'[p] = NONE
  /\ \A x \in Watched : pending'[p][x] \in {pending[p][x], NONE}

\* A row is inserted, and submitted to the worker if it is started.
Inserts(p, o) ==
  /\ ThreadFrame(p) /\ ExemptionsSame /\ FaultsSame /\ NewRow(p, o) /\ phase[p] = "running"
  /\ IF ops'[o].status = "started" THEN Requests(p)' = Requests(p) \cup {o}
     ELSE Requests(p)' = Requests(p) /\ queue' = queue
  /\ \A q \in Proc : q # p => Requests(q)' = Requests(q)
  /\ o \notin Requests(p) /\ ops'[o].snap \in Snap /\ ops'[o].src \in Path
  /\ \/ /\ ops'[o].kind = "move" /\ checked[p] # NONE /\ checked'[p] = NONE
        /\ ops'[o].src = checked[p] /\ ops'[o].snap = pending[p][checked[p]]
        /\ ops'[o].dst = Home[ops'[o].src] /\ ops'[o].src \in Watched
        /\ \A x \in Watched : pending'[p][x] \in {pending[p][x], NONE}
     \/ /\ ops'[o].kind = "retry" /\ ThreadSame
        /\ ops'[o].dst = Home[ops'[o].src] /\ ops'[o].src \in Watched
        /\ \E q \in Op : ops[q].status # "none" /\ ops'[o].snap = ops[q].snap
     \/ /\ ops'[o].kind = "undo" /\ ThreadSame /\ checked[p] = NONE /\ ops'[o].status = "started"
        /\ ops'[o].dst \in Watched
        /\ disk[ops'[o].src] = ops'[o].snap /\ disk[ops'[o].dst] = NONE
        /\ \E q \in Op : ops[q].status = "completed" /\ ops'[o].snap = ops[q].after

\* Every step is one of these.
Effect(p) ==
  \/ GoesOn(p) \/ Renames(p) \/ Copies(p) \/ Publishes(p) \/ Deletes(p) \/ KeepsSource(p) \/ Exempts(p)
  \/ Takes(p) \/ Finishes(p) \/ Releases(p) \/ Panics(p)
  \/ Picks(p) \/ Looks(p) \/ RemovesCopy(p) \/ Closes(p)
  \/ Starts(p) \/ Readies(p) \/ Crashes(p)
  \/ Notices(p) \/ Passes(p) \/ Drops(p) \/ \E o \in Op : Inserts(p, o)

----------------------------------------------------------------------------
(* What has become of the source of a move.                                *)

\* Every identity that is recorded has been handed out, and so has every document.
SnapsKnown ==
  /\ \A o \in Op : /\ ops[o].status # "none" => ops[o].snap.id \in 0..serial
                   /\ ops[o].status = "completed" => ops[o].after.id \in 0..serial
                   /\ journal[o] # NONE => journal[o].snap.id \in 0..serial
                   /\ placed[o] # NONE => placed[o].snap.id \in 0..serial
  /\ \A p \in Proc : /\ work[p].pc # "idle" => work[p].snap.id \in 0..serial
                     /\ rec[p].verdict \in {"rollback", "complete"} => rec[p].snap.id \in 0..serial
                     /\ \A x \in Watched : pending[p][x] # NONE => pending[p][x].id \in 0..serial
  /\ \A x \in Path : disk[x] # NONE => disk[x].doc \in 0..serial /\ disk[x].id \in 0..serial

\* Nobody has seen the identity of a copy that is not published.
CopiesUnknown == \A p \in Proc : work[p].pc = "publish" =>
  /\ \A o \in Op : /\ ops[o].status # "none" => ops[o].snap.id # work[p].snap.id
                   /\ placed[o] # NONE => placed[o].snap.id # work[p].snap.id
  /\ \A q \in Proc, x \in Watched : pending[q][x] # NONE => pending[q][x].id # work[p].snap.id

\* A source that is gone is nowhere else, unless as the file that was placed.
SourceGone == \A o \in Op : placed[o] # NONE =>
  /\ placed[o].dst # ops[o].src
  /\ placed[o].gone /\ placed[o].snap # ops[o].snap => \A x \in Path : disk[x] # ops[o].snap

\* How far a request is tells what has become of its source.
WorkGone == \A p \in Proc :
  /\ work[p].pc = "delete" => ~placed[work[p].op].gone
  /\ \/ work[p].pc = "exempt"
     \/ work[p].pc = "finish" /\ work[p].result = "completed"
     => /\ placed[work[p].op] # NONE /\ placed[work[p].op].gone
        /\ placed[work[p].op].dst = work[p].target /\ placed[work[p].op].snap = work[p].snap
  /\ work[p].pc = "finish" /\ work[p].result # "completed" =>
       placed[work[p].op] = NONE \/ (~placed[work[p].op].gone /\ used.faults >= 1)
  /\ work[p].pc = "recover" => used.faults >= 1

\* The moved file is where it was put, and is there because of o alone.
Standing(o) == /\ placed[o].gone /\ disk[placed[o].dst] = placed[o].snap
               /\ ~MovedAgain(o)

\* A reconciliation fails or rolls back no move that stands.
Verdicts == \A p \in Proc :
  rec[p].op # NONE /\ ops[rec[p].op].status = "started" /\ placed[rec[p].op] # NONE =>
    /\ rec[p].verdict = "rollback" => ~placed[rec[p].op].gone
    /\ rec[p].verdict = "fail" /\ used.faults <= 1 => ~Standing(rec[p].op)

\* A row keeps what it is about, and starts no second time.
ColumnsSame == \A o \in Op :
  /\ ops'[o].kind = ops[o].kind /\ ops'[o].src = ops[o].src /\ ops'[o].snap = ops[o].snap
  /\ ops'[o].status = "none" <=> ops[o].status = "none"
  /\ ops'[o].status = "started" => ops[o].status = "started"

\* What happens to the request of p.
WorkEffect(p) ==
  \/ GoesOn(p) \/ Renames(p) \/ Copies(p) \/ Publishes(p) \/ Deletes(p) \/ KeepsSource(p) \/ Exempts(p)
  \/ Takes(p) \/ Finishes(p) \/ Panics(p)

\* What happens to the reconciliation of p.
RecEffect(p) == Panics(p) \/ Picks(p) \/ Looks(p) \/ RemovesCopy(p) \/ Closes(p)

OutcomeInv == SnapsKnown /\ CopiesUnknown /\ SourceGone /\ WorkGone /\ Verdicts

----------------------------------------------------------------------------
(* One instance, before any fault: who looks after a file.                 *)

Works(p) ==
  \/ GoesOn(p) \/ Renames(p) \/ Copies(p) \/ Publishes(p) \/ Deletes(p) \/ Exempts(p)
  \/ Takes(p) \/ Finishes(p) \/ Releases(p)
  \/ Notices(p) \/ Passes(p) \/ Drops(p) \/ \E o \in Op : Inserts(p, o)

Recovers(p) == Picks(p) \/ Looks(p) \/ RemovesCopy(p) \/ Closes(p) \/ Readies(p)

\* A started operation that has put a file somewhere is looked after as long
\* as the file is there.
Tended(p) == \A o \in Op, x \in Path :
  ops[o].status = "started" /\ placed[o] # NONE /\ disk[x] = placed[o].snap =>
    /\ x = placed[o].dst
    /\ phase[p] = "running" => work[p].op = o /\ work[p].pc \in {"delete", "exempt", "finish"}
    /\ phase[p] = "starting" => o \in rec[p].todo \/ (rec[p].op = o /\ rec[p].verdict # "fail")

OwnersGone(p) == phase[p] # "running" => \A o \in Op : ops[o].status # "none" => ops[o].owner = NONE

\* The paths x and y hold the two files of a copy whose source is to be deleted.
CopyOf(o, x, y) ==
  /\ ops[o].status = "started" /\ placed[o] # NONE /\ ~placed[o].gone
  /\ disk[placed[o].dst] = placed[o].snap /\ disk[ops[o].src] = ops[o].snap
  /\ {x, y} = {placed[o].dst, ops[o].src}

DuplicatesKnown == \A x, y \in Path :
  x # y /\ disk[x] # NONE /\ disk[y] # NONE /\ disk[x].doc = disk[y].doc => \E o \in Op : CopyOf(o, x, y)

\* What the reconciliation of a start has seen is still so.
LookedAt(p) == phase[p] = "starting" =>
  /\ rec[p].op \notin rec[p].todo
  /\ rec[p].verdict \in {"rollback", "complete"} =>
       /\ journal[rec[p].op] # NONE
       /\ journal[rec[p].op].dst = rec[p].dst /\ journal[rec[p].op].snap = rec[p].snap
  /\ rec[p].verdict = "complete" => disk[ops[rec[p].op].src] # ops[rec[p].op].snap

Calm(p) == Tended(p) /\ OwnersGone(p) /\ DuplicatesKnown /\ LookedAt(p)
CalmInv(p) == used.faults = 0 => Calm(p)

----------------------------------------------------------------------------
(* What an undo puts back, and where.                                      *)

\* Undos restore files to watched paths, other operations never move there.
UndoPaths ==
  /\ \A o \in Op :
       /\ ops[o].status # "none" /\ ops[o].kind = "undo" =>
            ops[o].dst \in Watched /\ (journal[o] # NONE => journal[o].dst = ops[o].dst)
       /\ ops[o].status = "none" => journal[o] = NONE
       /\ ops[o].status = "started" /\ ops[o].kind # "undo" => ops[o].dst \notin Watched
  /\ \A p \in Proc :
       /\ work[p].pc # "idle" /\ ops[work[p].op].kind # "undo" => work[p].target \notin Watched
       /\ rec[p].verdict \in {"rollback", "complete"} /\ ops[rec[p].op].kind = "undo" =>
            rec[p].dst = ops[rec[p].op].dst

\* Who closes the row o, and how.
ClosedBy(o) == \E p \in Proc :
  \/ /\ Finishes(p) /\ o = work[p].op
     /\ RowCloses(o, work[p].result, work[p].target, work[p].snap)
  \/ /\ Closes(p) /\ o = rec[p].op /\ rec[p].verdict = "complete"
     /\ RowCloses(o, "completed", rec[p].dst, rec[p].snap)
  \/ /\ Closes(p) /\ o = rec[p].op /\ rec[p].verdict = "fail"
     /\ RowCloses(o, "failed", NONE, NONE)

\* The file at x is not one that was restored there before, unless it is snap.
Replaced(x, snap) == disk[x] # NONE /\ disk[x] # snap => ~Restored(x, disk[x])

\* The request of p has put back a file and is still to close its row.
Restoring(p) ==
  \/ work[p].pc = "exempt"
  \/ /\ ops[work[p].op].kind = "undo"
     /\ work[p].pc = "delete" \/ (work[p].pc = "finish" /\ work[p].result = "completed")

RestoresFile(p) == Restoring(p) => Replaced(work[p].target, work[p].snap)
CompletesFile(p) == rec[p].verdict = "complete" => Replaced(rec[p].dst, rec[p].snap)

\* The registry in memory is that of the database; where moves are slow it may
\* have lost an entry.
Registered(p) ==
  /\ phase[p] = "running" =>
       \A x \in Path : exempt[p][x] = exemptDb[x] \/ (SlowMoves /\ exempt[p][x] = NONE)
  /\ work[p].pc = "finish" /\ Restoring(p) =>
       \/ exempt[p][work[p].target] = work[p].snap
       \/ SlowMoves /\ exempt[p][work[p].target] = NONE

Exempted(p) == RestoresFile(p) /\ CompletesFile(p) /\ Registered(p)
ExemptInv(p) == used.faults = 0 => Exempted(p) /\ RestoredIsExempt

\* What is known of the instance before any fault.
AloneInv(p) == /\ MoveInv /\ FilesInv /\ OutcomeInv /\ UndoTarget /\ UndoPaths
               /\ Calm(p) /\ Exempted(p) /\ RestoredIsExempt

\* Before any fault: the invariant of one instance.
ProtectInv(p) == /\ MoveInv /\ FilesInv /\ OutcomeInv /\ ClaimsInv /\ UndoPaths
                 /\ CalmInv(p) /\ ExemptInv(p)

----------------------------------------------------------------------------
(* The file that has passed the exemption check.                           *)

\* An undo that has not moved its file yet: where the file is.
BeforeMove == {"check", "recheck", "lock", "rename", "publish"}

UndoAtSource(p) == \A r \in Requests(p) :
  ops[r].kind = "undo" /\ (work[p].op = r /\ work[p].pc # "idle" => work[p].pc \in BeforeMove) =>
    /\ ops[r].src # ops[r].dst
    /\ \A x \in Path : disk[x] = ops[r].snap => x = ops[r].src
    /\ work[p].op = r /\ work[p].pc \in BeforeMove \ {"publish"} => work[p].snap = ops[r].snap

\* The file is not one that has been restored, and no undo will restore it.
CheckedFresh(p) == checked[p] # NONE =>
  /\ ~Restored(checked[p], pending[p][checked[p]])
  /\ \A r \in Requests(p) : ops[r].kind = "undo" /\ ops[r].dst = checked[p] =>
       /\ ops[r].snap # pending[p][checked[p]]
       /\ work[p].op = r /\ work[p].pc # "idle" => work[p].snap # pending[p][checked[p]]

CheckedInv(p) == used.faults = 0 => UndoAtSource(p) /\ CheckedFresh(p)

============================================================================
