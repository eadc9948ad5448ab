--------------------------- MODULE OrganizerMove ---------------------------
(***************************************************************************)
(* The life of an organizer operation, from the file that has become       *)
(* stable in a watched folder to the terminal row in the database.         *)
(*                                                                         *)
(* Each running instance of the application has an organizer thread (it    *)
(* starts moves, retries and undos) and a file operation worker (it moves  *)
(* the file, one operation at a time).  They share the in-flight claims    *)
(* and the undo exemptions of their process, and with every other instance *)
(* the database (operations, completion journal, exemptions) and the disk. *)
(* A process may die between any two steps; the next start reconciles the  *)
(* operations it left behind.                                              *)
(*                                                                         *)
(* A process has four workers (FILE_OPERATION_WORKERS) on one channel; one *)
(* is modelled.  The claims of a process keep the paths of its requests    *)
(* apart (ClaimsMatchRequests), and two workers of one process share, of   *)
(* what is modelled here, only the disk and the table, as the workers of   *)
(* two processes do.                                                       *)
(*                                                                         *)
(* One rule is modelled.  Its activation flag and the shutdown flag are    *)
(* inputs here: the worker may find either of them down at both places     *)
(* where it reads them.  How the registration of a conflict ends is an     *)
(* input too.  Database writes and the read of the exemptions may fail     *)
(* (MaxFaults), other reads do not.                                        *)
(***************************************************************************)
EXTENDS Naturals, FiniteSets, Sequences

CONSTANTS
  Proc,         \* instances of the application that share database and disk
  Path,         \* the file paths the rule can touch
  Watched,      \* paths in the rule's source folder
  Home,         \* [Watched -> Path], where the rule puts a file
  Spare,        \* numbered names (auto rename) or the conflict-folder path
  Policy,       \* the rule's OrganizerConflictPolicy
  Elsewhere,    \* paths on another volume than the rest
  SlowMoves,    \* TRUE: a move may stay placed, but not released, for
                \* longer than STABILITY_DELAY
  MaxOps,       \* bound: operation rows
  MaxEdits,     \* bound: files the user writes or deletes
  MaxCrashes,   \* bound: processes that die
  MaxFaults,    \* bound: failing database accesses, deletions and panics
  NONE          \* "no value"

Op == 1..MaxOps
Snap == [doc : Nat, id : Nat]
Policies == {"ask", "skip", "autoRename", "conflictFolder"}

ASSUME MoveAssumption ==
  /\ Watched \subseteq Path
  /\ Home \in [Watched -> Path \ Watched]
  /\ Spare \subseteq Path \ Watched
  /\ Policy \in Policies
  /\ Elsewhere \subseteq Path
  /\ SlowMoves \in BOOLEAN
  /\ {MaxOps, MaxEdits, MaxCrashes, MaxFaults} \subseteq Nat
  /\ NONE \notin Proc \cup Path \cup Snap \cup Op
  /\ NONE \notin [dst : Path, snap : Snap]
  /\ NONE \notin [dst : Path, snap : Snap, gone : BOOLEAN]

VARIABLES
  disk,      \* [Path -> Snap or NONE]: doc is the contents, id the identity
  serial,    \* the last document or file identity the disk handed out
  ops,       \* table organizer_operations
  journal,   \* table organizer_operation_completions
  exemptDb,  \* table organizer_undo_exemptions
  phase,     \* [Proc -> "down", "starting" (reconciling) or "running"]
  exempt,    \* [Proc -> OrganizerUndoExemptionRegistry]
  inFlight,  \* [Proc -> OrganizerInFlightRegistry]
  pending,   \* [Proc -> [Watched -> Snap or NONE]], files becoming stable
  checked,   \* [Proc -> the path process_stable_files is about to start]
  queue,     \* [Proc -> requests sent to the worker, by operation]
  work,      \* [Proc -> the worker's current request]
  rec,       \* [Proc -> the reconciliation that is under way]
  used,      \* how often each bound has been used up
  placed     \* ghost: [Op -> the file the operation last made appear at a
             \* target, and whether its source is gone]

dbVars == <<ops, journal, exemptDb>>
threadVars == <<pending, checked, queue>>
vars == <<disk, serial, dbVars, phase, exempt, inFlight, threadVars, work, rec,
          used, placed>>

Statuses == {"none", "started", "completed", "skipped", "cancelled", "failed"}
NoRow == [status |-> "none", kind |-> "move", parent |-> NONE, owner |-> NONE,
          src |-> NONE, dst |-> NONE, snap |-> NONE, after |-> NONE, undone |-> FALSE]
Idle == [pc |-> "idle", op |-> NONE, target |-> NONE, snap |-> NONE, result |-> "none"]
NoRec == [todo |-> {}, op |-> NONE, verdict |-> "none", dst |-> NONE, snap |-> NONE]

Init ==
  /\ disk = [x \in Path |-> NONE]
  /\ serial = 0
  /\ ops = [o \in Op |-> NoRow]
  /\ journal = [o \in Op |-> NONE]
  /\ exemptDb = [x \in Path |-> NONE]
  /\ phase = [p \in Proc |-> "down"]
  /\ exempt = [p \in Proc |-> [x \in Path |-> NONE]]
  /\ inFlight = [p \in Proc |-> {}]
  /\ pending = [p \in Proc |-> [x \in Watched |-> NONE]]
  /\ checked = [p \in Proc |-> NONE]
  /\ queue = [p \in Proc |-> << >>]
  /\ work = [p \in Proc |-> Idle]
  /\ rec = [p \in Proc |-> NoRec]
  /\ used = [edits |-> 0, crashes |-> 0, faults |-> 0]
  /\ placed = [o \in Op |-> NONE]

----------------------------------------------------------------------------
(* Files.  A handle opened for a move shares reading only: nobody can      *)
(* write, rename or delete the file under it.                              *)

\* Mutant: handles that share everything.
HeldByNobody(x) == FALSE

Held(x) == \E q \in Proc :
  \/ work[q].pc \in {"rename", "publish", "delete"} /\ ops[work[q].op].src = x
  \/ work[q].pc = "delete" /\ work[q].target = x

Documents == {disk[x].doc : x \in {y \in Path : disk[y] # NONE}}

\* A database write, a deletion or a copy fails, or a thread panics.
Fault == /\ used.faults < MaxFaults
         /\ used' = [used EXCEPT !.faults = @ + 1]

\* The user creates or overwrites a file; the contents are always new.
UserWrite(x) ==
  /\ used.edits < MaxEdits
  /\ ~Held(x)
  /\ disk' = [disk EXCEPT ![x] = [doc |-> serial + 1, id |-> serial + 1]]
  /\ serial' = serial + 1
  /\ used' = [used EXCEPT !.edits = @ + 1]
  /\ UNCHANGED <<dbVars, phase, exempt, inFlight, threadVars, work, rec, placed>>

UserDelete(x) ==
  /\ used.edits < MaxEdits
  /\ disk[x] # NONE
  /\ ~Held(x)
  /\ disk' = [disk EXCEPT ![x] = NONE]
  /\ used' = [used EXCEPT !.edits = @ + 1]
  /\ UNCHANGED <<serial, dbVars, phase, exempt, inFlight, threadVars, work, rec, placed>>

----------------------------------------------------------------------------
(* The database.                                                           *)

Rows == {o \in Op : ops[o].status # "none"}
\* Ids are handed out in order.
FreeId(o) == o \notin Rows /\ \A q \in 1..(o - 1) : q \in Rows

\* Mutant: a child in progress does not count.
FinishedChildren(q, k, S) == {o \in Op : /\ ops[o].parent = q
                                         /\ ops[o].kind = k
                                         /\ ops[o].status \in S \ {"started"}}

Children(q, k, S) == {o \in Op : /\ ops[o].parent = q
                                 /\ ops[o].kind = k
                                 /\ ops[o].status \in S}

InsertRow(o, p, k, q, st, src, dst, snap) ==
  /\ FreeId(o)
  /\ ops' = [ops EXCEPT ![o] =
       [status |-> st, kind |-> k, parent |-> q, owner |-> p,
        src |-> src, dst |-> dst, snap |-> snap, after |-> NONE, undone |-> FALSE]]

\* The row o after it was closed, and its original if o is an undo.
Closed(o, st, dst, snap) ==
  LET done == st = "completed"
  IN [q \in Op |->
       IF q = o THEN [ops[o] EXCEPT !.status = st,
                                    !.dst = IF done THEN dst ELSE @,
                                    !.after = IF done THEN snap ELSE @]
       ELSE IF done /\ ops[o].kind = "undo" /\ q = ops[o].parent
            THEN [ops[q] EXCEPT !.undone = TRUE]
       ELSE ops[q]]

ExemptsRestored(o, st) == st = "completed" /\ ops[o].kind = "undo"

\* Mutant: without "status = 'started'".
CloseAnyRow(o, st, dst, snap) ==
  /\ ops' = Closed(o, st, dst, snap)
  /\ exemptDb' = IF ExemptsRestored(o, st) THEN [exemptDb EXCEPT ![dst] = snap] ELSE exemptDb
  /\ journal' = [journal EXCEPT ![o] = NONE]

\* Mutant: the exemption is left to the worker.
CloseWithoutExemption(o, st, dst, snap) ==
  IF ops[o].status # "started" THEN UNCHANGED dbVars
  ELSE /\ ops' = Closed(o, st, dst, snap)
       /\ journal' = [journal EXCEPT ![o] = NONE]
       /\ UNCHANGED exemptDb

\* finish_organizer_operation_with_metadata, committed: nothing happens to a
\* row that is already terminal, beyond the error its callers ignore.
CloseRow(o, st, dst, snap) ==
  IF ops[o].status # "started" THEN UNCHANGED dbVars
  ELSE /\ ops' = Closed(o, st, dst, snap)
       /\ exemptDb' = IF ExemptsRestored(o, st) THEN [exemptDb EXCEPT ![dst] = snap]
                      ELSE exemptDb
       /\ journal' = [journal EXCEPT ![o] = NONE]

----------------------------------------------------------------------------
(* The organizer thread.                                                   *)

Running(p) == phase[p] = "running"
\* The thread handles one file or one command at a time.
ThreadFree(p) == Running(p) /\ checked[p] = NONE

\* Mutant: an undo does not claim the path it restores.
ClaimSource(o) == {ops[o].src}

Claims(o) == IF ops[o].kind = "undo" THEN {ops[o].src, ops[o].dst} ELSE {ops[o].src}

\* STABILITY_DELAY passes only after whoever placed the file at x has let
\* go of it, unless moves can be slow.
Settled(x) == \/ SlowMoves
              \/ \A q \in Proc : ~(/\ work[q].pc \in {"delete", "exempt", "finish", "release"}
                                   /\ work[q].target = x)

\* queue_matching_path, after an event or a scan
Notice(p, x) ==
  /\ ThreadFree(p)
  /\ disk[x] # NONE
  /\ pending[p][x] # disk[x]
  /\ pending' = [pending EXCEPT ![p][x] = disk[x]]
  /\ UNCHANGED <<disk, serial, dbVars, phase, exempt, inFlight, checked, queue,
                 work, rec, used, placed>>

\* process_stable_files up to the exemption check
TakeStable(p, x) ==
  /\ ThreadFree(p)
  /\ pending[p][x] # NONE
  /\ Settled(x)
  /\ \/ /\ disk[x] # pending[p][x]
        /\ pending' = [pending EXCEPT ![p][x] = disk[x]]
        /\ UNCHANGED <<exempt, exemptDb, checked, used>>
     \/ /\ disk[x] = pending[p][x]
        /\ exempt[p][x] = disk[x]
        /\ pending' = [pending EXCEPT ![p][x] = NONE]
        /\ UNCHANGED <<exempt, exemptDb, checked, used>>
     \/ /\ disk[x] = pending[p][x]
        /\ exempt[p][x] # disk[x]
        /\ exempt' = [exempt EXCEPT ![p][x] = NONE]
        /\ \/ /\ exemptDb' = [exemptDb EXCEPT ![x] = IF exempt[p][x] = NONE THEN @ ELSE NONE]
              /\ UNCHANGED used
           \/ exempt[p][x] # NONE /\ Fault /\ UNCHANGED exemptDb
        /\ checked' = [checked EXCEPT ![p] = x]
        /\ UNCHANGED pending
  /\ UNCHANGED <<disk, serial, ops, journal, phase, inFlight, queue, work, rec, placed>>

\* Rest of process_stable_files: the file x passed the check with the
\* snapshot it was queued with.
KeepPending(p) ==
  /\ checked' = [checked EXCEPT ![p] = NONE]
  /\ UNCHANGED <<disk, serial, dbVars, phase, exempt, inFlight, pending, queue,
                 work, rec, placed>>

DropChecked(p) ==
  /\ checked' = [checked EXCEPT ![p] = NONE]
  /\ pending' = [pending EXCEPT ![p][checked[p]] = NONE]

Submit(p, o) == /\ queue' = [queue EXCEPT ![p] = Append(@, o)]
                /\ inFlight' = [inFlight EXCEPT ![p] = @ \cup Claims(o)']

Dispatch(p) ==
  LET x == checked[p]
      snap == pending[p][x]
      asks == disk[Home[x]] # NONE /\ Policy \in {"ask", "skip"}
  IN /\ Running(p)
     /\ x # NONE
     /\ \/ x \in inFlight[p] /\ KeepPending(p) /\ UNCHANGED used
        \/ x \notin inFlight[p] /\ KeepPending(p) /\ Fault  \* row not inserted
        \/ /\ DropChecked(p)          \* activation down, known conflict or skip
           /\ UNCHANGED <<disk, serial, dbVars, phase, exempt, inFlight, queue,
                          work, rec, used, placed>>
        \/ /\ x \notin inFlight[p]   \* the destination is occupied
           /\ asks
           /\ \E o \in Op :
                InsertRow(o, p, "move", NONE, "skipped", x, Home[x], snap)
           /\ DropChecked(p)
           /\ UNCHANGED <<disk, serial, journal, exemptDb, phase, exempt, inFlight,
                          queue, work, rec, used, placed>>
        \/ /\ x \notin inFlight[p]
           /\ ~asks
           /\ \E o \in Op :
                /\ InsertRow(o, p, "move", NONE, "started", x, Home[x], snap)
                /\ Submit(p, o)
           /\ DropChecked(p)
           /\ UNCHANGED <<disk, serial, journal, exemptDb, phase, exempt, work,
                          rec, used, placed>>

\* retry_operation and its transaction
RetryOperation(p, q) ==
  /\ ThreadFree(p)
  /\ ops[q].status \in {"failed", "skipped", "cancelled"}
  /\ ops[q].kind # "undo"
  /\ Children(q, "retry", {"started"}) = {}
  /\ disk[ops[q].src] = ops[q].snap
  /\ ops[q].src \notin inFlight[p]
  /\ \E o \in Op :
       /\ InsertRow(o, p, "retry", q, "started", ops[q].src, Home[ops[q].src], ops[q].snap)
       /\ Submit(p, o)
  /\ UNCHANGED <<disk, serial, journal, exemptDb, phase, exempt, pending, checked,
                 work, rec, used, placed>>

\* undo_operation and its transaction
UndoOperation(p, q) ==
  /\ ThreadFree(p)
  /\ ops[q].status = "completed"
  /\ ops[q].kind # "undo"
  /\ ~ops[q].undone
  /\ Children(q, "undo", {"started", "completed"}) = {}
  /\ disk[ops[q].dst] = ops[q].after
  /\ disk[ops[q].src] = NONE
  /\ {ops[q].src, ops[q].dst} \cap inFlight[p] = {}
  /\ \E o \in Op :
       /\ InsertRow(o, p, "undo", q, "started", ops[q].dst, ops[q].src, ops[q].after)
       /\ Submit(p, o)
  /\ UNCHANGED <<disk, serial, journal, exemptDb, phase, exempt, pending, checked,
                 work, rec, used, placed>>

----------------------------------------------------------------------------
(* The file operation worker: handle_organizer_move.                       *)

Cur(p) == work[p].op
Src(p) == ops[Cur(p)].src
At(p, pc) == work[p].pc = pc
Goto(p, pc) == work' = [work EXCEPT ![p].pc = pc]
Report(p, st) == work' = [work EXCEPT ![p].pc = "finish", ![p].result = st]
Undoing(p) == ops[Cur(p)].kind = "undo"

TakeRequest(p) ==
  /\ Running(p)
  /\ At(p, "idle")
  /\ queue[p] # << >>
  /\ LET o == Head(queue[p])
     IN work' = [work EXCEPT ![p] = [pc |-> "check", op |-> o, target |-> ops[o].dst,
                                     snap |-> ops[o].snap, result |-> "none"]]
  /\ queue' = [queue EXCEPT ![p] = Tail(@)]
  /\ UNCHANGED <<disk, serial, dbVars, phase, exempt, inFlight, pending, checked,
                 rec, used, placed>>

\* The target is occupied: what the policy does, and where it goes on.
Divert(p, next) ==
  \/ Undoing(p) /\ Report(p, "failed")
  \/ /\ ~Undoing(p)
     /\ \/ Policy = "skip" /\ Report(p, "skipped")
        \/ /\ \/ Policy = "ask"
              \/ Policy = "conflictFolder" /\ \E t \in Spare : disk[t] # NONE
           /\ \E st \in {"skipped", "cancelled", "failed"} : Report(p, st)
        \/ /\ Policy \in {"autoRename", "conflictFolder"}
           /\ \E t \in Spare : 
                /\ disk[t] = NONE
                /\ work' = [work EXCEPT ![p].pc = next, ![p].target = t]
        \/ /\ Policy = "autoRename"
           /\ \A t \in Spare : disk[t] # NONE
           /\ Report(p, "failed")

workOnly == <<disk, serial, dbVars, phase, exempt, inFlight, threadVars, rec, placed>>

CheckMove(p) ==
  /\ At(p, "check")
  /\ \/ Report(p, "cancelled")
     \/ disk[Src(p)] = NONE /\ Report(p, "failed")
     \/ disk[Src(p)] # NONE /\ disk[work[p].target] = NONE /\ Goto(p, "recheck")
     \/ disk[Src(p)] # NONE /\ disk[work[p].target] # NONE /\ Divert(p, "recheck")
  /\ UNCHANGED <<workOnly, used>>

RecheckActivation(p) ==
  /\ At(p, "recheck")
  /\ Report(p, "cancelled") \/ Goto(p, "lock")
  /\ UNCHANGED <<workOnly, used>>

\* Mutant: always the identity of the source.
JournalSource(p, snap) ==
  [journal EXCEPT ![Cur(p)] = [dst |-> work[p].target, snap |-> ops[Cur(p)].snap]]

\* record_organizer_operation_completion
JournalRow(p, snap) ==
  [journal EXCEPT ![Cur(p)] = [dst |-> work[p].target, snap |-> snap]]

\* move_file_without_replace_impl: open, compare the snapshot, journal
LockAndJournal(p) ==
  LET movable == disk[Src(p)] = ops[Cur(p)].snap /\ ~Held(Src(p))
  IN /\ At(p, "lock")
     /\ \/ ~movable /\ Report(p, "failed") /\ UNCHANGED <<journal, used>>
        \/ movable /\ Fault /\ Report(p, "failed") /\ UNCHANGED journal
        \/ /\ movable
           /\ journal' = JournalRow(p, ops[Cur(p)].snap)
           /\ Goto(p, "rename")
           /\ UNCHANGED used
     /\ UNCHANGED <<disk, serial, ops, exemptDb, phase, exempt, inFlight, threadVars,
                    rec, placed>>

Place(p, snap, gone) ==
  [placed EXCEPT ![Cur(p)] = [dst |-> work[p].target, snap |-> snap, gone |-> gone]]

\* What follows a move that has succeeded.
Moved(p, snap) ==
  work' = [work EXCEPT ![p].pc = IF Undoing(p) THEN "exempt" ELSE "finish",
                       ![p].snap = snap, ![p].result = "completed"]

\* The rename fails with ERROR_NOT_SAME_DEVICE.
CrossesVolumes(p) == (Src(p) \in Elsewhere) # (work[p].target \in Elsewhere)

\* SetFileInformationByHandle(FileRenameInfo) without replacing
RenameInVolume(p) ==
  /\ At(p, "rename")
  /\ ~CrossesVolumes(p)
  /\ \/ /\ disk[work[p].target] # NONE
        /\ Divert(p, "lock")
        /\ UNCHANGED <<disk, placed>>
     \/ /\ disk[work[p].target] = NONE
        /\ disk' = [disk EXCEPT ![Src(p)] = NONE, ![work[p].target] = ops[Cur(p)].snap]
        /\ placed' = Place(p, ops[Cur(p)].snap, TRUE)
        /\ Moved(p, ops[Cur(p)].snap)
  /\ UNCHANGED <<serial, dbVars, phase, exempt, inFlight, threadVars, rec, used>>

\* move_across_volumes_verified up to the second journal entry; the temporary
\* file is on no path of the model
CopyAndJournal(p) ==
  /\ At(p, "rename")
  /\ CrossesVolumes(p)
  /\ \/ Fault /\ Report(p, "failed") /\ UNCHANGED <<serial, journal>>
     \/ LET copy == [doc |-> ops[Cur(p)].snap.doc, id |-> serial + 1]
        IN /\ serial' = serial + 1
           /\ journal' = JournalRow(p, copy)
           /\ work' = [work EXCEPT ![p].pc = "publish", ![p].snap = copy]
           /\ UNCHANGED used
  /\ UNCHANGED <<disk, ops, exemptDb, phase, exempt, inFlight, threadVars, rec, placed>>

PublishCopy(p) ==
  /\ At(p, "publish")
  /\ \/ /\ disk[work[p].target] # NONE
        /\ Divert(p, "lock")
        /\ UNCHANGED <<disk, placed>>
     \/ /\ disk[work[p].target] = NONE
        /\ disk' = [disk EXCEPT ![work[p].target] = work[p].snap]
        /\ placed' = Place(p, work[p].snap, FALSE)
        /\ Goto(p, "delete")
  /\ UNCHANGED <<serial, dbVars, phase, exempt, inFlight, threadVars, rec, used>>

\* The source goes last.  If it cannot be deleted the copy is, and if that
\* fails too both files stay.
DeleteSource(p) ==
  /\ At(p, "delete")
  /\ \/ /\ disk' = [disk EXCEPT ![Src(p)] = NONE]
        /\ Moved(p, work[p].snap)
        /\ placed' = Place(p, work[p].snap, TRUE)
        /\ UNCHANGED used
     \/ /\ Fault
        /\ disk' \in {disk, [disk EXCEPT ![work[p].target] = NONE]}
        /\ Report(p, "failed")
        /\ UNCHANGED placed
  /\ UNCHANGED <<serial, dbVars, phase, exempt, inFlight, threadVars, rec>>

\* A restored file is exempted before its row is closed.
ExemptRestored(p) ==
  /\ At(p, "exempt")
  /\ exempt' = [exempt EXCEPT ![p][work[p].target] = work[p].snap]
  /\ \/ /\ exemptDb' = [exemptDb EXCEPT ![work[p].target] = work[p].snap]
        /\ UNCHANGED used
     \/ Fault /\ UNCHANGED exemptDb
  /\ Goto(p, "finish")
  /\ UNCHANGED <<disk, serial, ops, journal, phase, inFlight, threadVars, rec, placed>>

\* persist_and_send_organizer_result; when every attempt fails the row stays
\* started
Finish(p) ==
  /\ At(p, "finish")
  /\ \/ /\ CloseRow(Cur(p), work[p].result, work[p].target, work[p].snap)
        /\ UNCHANGED used
     \/ Fault /\ UNCHANGED dbVars
  /\ Goto(p, "release")
  /\ UNCHANGED <<disk, serial, phase, exempt, inFlight, threadVars, rec, placed>>

Release(p) ==
  /\ At(p, "release")
  /\ inFlight' = [inFlight EXCEPT ![p] = @ \ Claims(Cur(p))]
  /\ work' = [work EXCEPT ![p] = Idle]
  /\ UNCHANGED <<disk, serial, dbVars, phase, exempt, threadVars, rec, used, placed>>

\* catch_unwind: handles and claims are dropped first, then the operation is
\* reconciled by the worker that panicked.
Panic(p) ==
  /\ work[p].pc \notin {"idle", "recover"}
  /\ Fault
  /\ inFlight' = [inFlight EXCEPT ![p] = @ \ Claims(Cur(p))]
  /\ Goto(p, "recover")
  /\ rec' = [rec EXCEPT ![p].op = Cur(p)]
  /\ UNCHANGED <<disk, serial, dbVars, phase, exempt, threadVars, placed>>

----------------------------------------------------------------------------
(* reconcile_organizer_operation_completion, at a start and after a panic. *)

\* Mutant: any file at the target will do.
VerdictByName(o) ==
  IF journal[o] = NONE \/ disk[journal[o].dst] = NONE THEN "fail"
  ELSE IF disk[ops[o].src] = ops[o].snap THEN "rollback"
  ELSE "complete"

\* Mutant: the source is not looked at.
VerdictByTarget(o) ==
  IF journal[o] = NONE \/ disk[journal[o].dst] # journal[o].snap THEN "fail"
  ELSE "complete"

Verdict(o) ==
  IF journal[o] = NONE \/ disk[journal[o].dst] # journal[o].snap THEN "fail"
  ELSE IF disk[ops[o].src] = ops[o].snap THEN "rollback"
  ELSE "complete"

\* The started rows are listed once, before any owner is looked at.
Start(p) ==
  /\ phase[p] = "down"
  /\ phase' = [phase EXCEPT ![p] = "starting"]
  /\ rec' = [rec EXCEPT ![p].todo = {o \in Op : ops[o].status = "started"}]
  /\ UNCHANGED <<disk, serial, dbVars, exempt, inFlight, threadVars, work, used, placed>>

recOnly == <<disk, serial, dbVars, phase, exempt, inFlight, threadVars, work, used,
             placed>>

\* Mutants: process_owner_is_active always says no, or yes.
EveryOwnerGone(o) == TRUE
NoOwnerGone(o) == FALSE

\* process_owner_is_active
OwnerGone(o) == ops[o].owner = NONE

\* The next listed row, unless its owner is alive.
PickInterrupted(p, o) ==
  /\ phase[p] = "starting"
  /\ rec[p].op = NONE
  /\ o \in rec[p].todo
  /\ rec' = [rec EXCEPT ![p].todo = @ \ {o},
                        ![p].op = IF OwnerGone(o) THEN o ELSE NONE]
  /\ UNCHANGED recOnly

\* The journal row and both files are looked at ...
Look(p) ==
  /\ rec[p].op # NONE
  /\ rec[p].verdict = "none"
  /\ LET o == rec[p].op
         row == journal[o]
     IN rec' = [rec EXCEPT ![p].verdict = Verdict(o),
                           ![p].dst = IF row = NONE THEN NONE ELSE row.dst,
                           ![p].snap = IF row = NONE THEN NONE ELSE row.snap]
  /\ UNCHANGED recOnly

EndRec(p, todo) == /\ rec' = [rec EXCEPT ![p] = [NoRec EXCEPT !.todo = todo]]
                   /\ work' = [work EXCEPT ![p] = Idle]

\* ... then, for a copy whose source is still there, the copy is removed if
\* it is still the journaled file.  A start leaves the row alone when that
\* fails; the worker fails it.
RemoveCopy(p) ==
  LET removable == disk[rec[p].dst] = rec[p].snap /\ ~Held(rec[p].dst)
  IN /\ rec[p].verdict = "rollback"
     /\ \/ /\ removable
           /\ disk' = [disk EXCEPT ![rec[p].dst] = NONE]
           /\ rec' = [rec EXCEPT ![p].verdict = "fail"]
           /\ UNCHANGED <<work, used>>
        \/ /\ (~removable /\ UNCHANGED used) \/ Fault
           /\ IF phase[p] = "starting"
              THEN EndRec(p, rec[p].todo)
              ELSE rec' = [rec EXCEPT ![p].verdict = "fail"] /\ UNCHANGED work
           /\ UNCHANGED disk
     /\ UNCHANGED <<serial, dbVars, phase, exempt, inFlight, threadVars, placed>>

\* The row is closed.  A failing write ends the reconciliation of a start; a
\* worker that could not complete the row goes on to fail it.
CloseReconciled(p) ==
  LET o == rec[p].op
  IN /\ rec[p].verdict \in {"fail", "complete"}
     /\ \/ /\ IF rec[p].verdict = "complete"
              THEN CloseRow(o, "completed", rec[p].dst, rec[p].snap)
              ELSE CloseRow(o, "failed", NONE, NONE)
           /\ EndRec(p, rec[p].todo)
           /\ UNCHANGED used
        \/ /\ Fault
           /\ IF phase[p] = "running" /\ rec[p].verdict = "complete"
              THEN rec' = [rec EXCEPT ![p].verdict = "fail"] /\ UNCHANGED work
              ELSE EndRec(p, {})
           /\ UNCHANGED dbVars
     /\ UNCHANGED <<disk, serial, phase, exempt, inFlight, threadVars, placed>>

\* The empty registry; as a mutant, what every start begins with.
NoExemptions == [x \in Path |-> NONE]

LoadedExemptions == exemptDb

\* Orphaned journal rows go (not after a failed reconciliation), the
\* exemptions are loaded (none when they cannot be read), and the thread scans
\* the source folder.
Ready(p) ==
  /\ phase[p] = "starting"
  /\ rec[p] = NoRec
  /\ phase' = [phase EXCEPT ![p] = "running"]
  /\ journal' \in {journal, [o \in Op |-> IF ops[o].status = "started" THEN journal[o]
                                          ELSE NONE]}
  /\ \/ exempt' = [exempt EXCEPT ![p] = LoadedExemptions] /\ UNCHANGED used
     \/ exempt' = [exempt EXCEPT ![p] = NoExemptions] /\ Fault
  /\ pending' = [pending EXCEPT ![p] = [x \in Watched |-> disk[x]]]
  /\ UNCHANGED <<disk, serial, ops, exemptDb, inFlight, checked, queue, work, rec,
                 placed>>

\* The process dies: what it held in memory is gone, its handles are closed,
\* and its owner id no longer names a live process.
Crash(p) ==
  /\ phase[p] # "down"
  /\ used.crashes < MaxCrashes
  /\ used' = [used EXCEPT !.crashes = @ + 1]
  /\ phase' = [phase EXCEPT ![p] = "down"]
  /\ ops' = [o \in Op |-> IF ops[o].owner = p THEN [ops[o] EXCEPT !.owner = NONE]
                          ELSE ops[o]]
  /\ exempt' = [exempt EXCEPT ![p] = [x \in Path |-> NONE]]
  /\ inFlight' = [inFlight EXCEPT ![p] = {}]
  /\ pending' = [pending EXCEPT ![p] = [x \in Watched |-> NONE]]
  /\ checked' = [checked EXCEPT ![p] = NONE]
  /\ queue' = [queue EXCEPT ![p] = << >>]
  /\ work' = [work EXCEPT ![p] = Idle]
  /\ rec' = [rec EXCEPT ![p] = NoRec]
  /\ UNCHANGED <<disk, serial, journal, exemptDb, placed>>

----------------------------------------------------------------------------
Users == \E x \in Path : UserWrite(x) \/ UserDelete(x)

Organizer(p) == \/ \E x \in Watched : Notice(p, x) \/ TakeStable(p, x)
                \/ Dispatch(p)
                \/ \E q \in Op : RetryOperation(p, q) \/ UndoOperation(p, q)

Worker(p) == \/ TakeRequest(p) \/ CheckMove(p) \/ RecheckActivation(p)
             \/ LockAndJournal(p) \/ RenameInVolume(p) \/ CopyAndJournal(p)
             \/ PublishCopy(p) \/ DeleteSource(p) \/ ExemptRestored(p)
             \/ Finish(p) \/ Release(p)

Reconciler(p) == \/ \E o \in Op : PickInterrupted(p, o)
                 \/ Look(p) \/ RemoveCopy(p) \/ CloseReconciled(p)

Lifecycle(p) == Start(p) \/ Ready(p)

Next == \/ Users
        \/ \E p \in Proc : \/ Organizer(p) \/ Worker(p) \/ Reconciler(p)
                           \/ Lifecycle(p) \/ Panic(p) \/ Crash(p)

Spec == Init /\ [][Next]_vars

----------------------------------------------------------------------------
OpRow == [status : Statuses, kind : {"move", "retry", "undo"},
          parent : Op \cup {NONE}, owner : Proc \cup {NONE},
          src : Path \cup {NONE}, dst : Path \cup {NONE},
          snap : Snap \cup {NONE}, after : Snap \cup {NONE}, undone : BOOLEAN]

Entry == [dst : Path, snap : Snap]

Request == [pc : {"idle", "check", "recheck", "lock", "rename", "publish", "delete",
                  "exempt", "finish", "release", "recover"},
            op : Op \cup {NONE}, target : Path \cup {NONE},
            snap : Snap \cup {NONE}, result : Statuses]

Recovery == [todo : SUBSET Op, op : Op \cup {NONE},
             verdict : {"none", "fail", "rollback", "complete"},
             dst : Path \cup {NONE}, snap : Snap \cup {NONE}]

Placement == [dst : Path, snap : Snap, gone : BOOLEAN]

TypeOK ==
  /\ disk \in [Path -> Snap \cup {NONE}]
  /\ serial \in Nat
  /\ ops \in [Op -> OpRow]
  /\ journal \in [Op -> Entry \cup {NONE}]
  /\ exemptDb \in [Path -> Snap \cup {NONE}]
  /\ phase \in [Proc -> {"down", "starting", "running"}]
  /\ exempt \in [Proc -> [Path -> Snap \cup {NONE}]]
  /\ inFlight \in [Proc -> SUBSET Path]
  /\ pending \in [Proc -> [Watched -> Snap \cup {NONE}]]
  /\ checked \in [Proc -> Watched \cup {NONE}]
  /\ queue \in [Proc -> Seq(Op)]
  /\ work \in [Proc -> Request]
  /\ rec \in [Proc -> Recovery]
  /\ used \in [edits : Nat, crashes : Nat, faults : Nat]
  /\ placed \in [Op -> Placement \cup {NONE}]

Ledger == INSTANCE OperationLedger WITH
  status <- [o \in Op |-> ops[o].status],
  kind <- [o \in Op |-> ops[o].kind],
  parent <- [o \in Op |-> ops[o].parent],
  undone <- {o \in Op : ops[o].undone}

\* The operations table follows OperationLedger, whatever the processes,
\* crashes and faults do.
ImplementsLedger == Ledger!Spec

\* At most one undo of an operation runs or has completed, and undone_at is
\* set exactly by a completed undo, over all processes and restarts.
UndoneExactlyOnce == Ledger!UndoneExactlyOnce

\* No step of an organizer, a worker or a recovering process takes the last
\* copy of a document off the disk: only the user does, and the rollback of
\* an interrupted copy, which looks at the source without holding it
\* (organizer_operation_actions.rs, 631-633).
MovesKeepDocuments ==
  [][\/ Documents \subseteq Documents'
     \/ Users
     \/ \E p \in Proc : RemoveCopy(p)]_vars

\* A started operation whose file has appeared at a target has a journal row
\* that names exactly this target and identity (journaled before publishing).
JournalAheadOfMove ==
  \A o \in Op : placed[o] # NONE /\ ops[o].status = "started" =>
    journal[o] = [dst |-> placed[o].dst, snap |-> placed[o].snap]

\* Recorded as completed: a move put this file, with this identity, there.
CompletedIsReal ==
  \A o \in Op : ops[o].status = "completed" =>
    \E q \in Op : /\ placed[q] # NONE
                  /\ placed[q].dst = ops[o].dst
                  /\ placed[q].snap = ops[o].after

\* Another operation has put the same file at the same place.
MovedAgain(o) == \E q \in Op \ {o} : /\ placed[q] # NONE
                                     /\ placed[q].dst = placed[o].dst
                                     /\ placed[q].snap = placed[o].snap

\* With at most one fault, a move that has taken its source away is not closed
\* as anything but completed while the moved file is where it was put, unless
\* another operation has moved it there again.
MovedIsNotFailed ==
  [][\A o \in Op :
       /\ used'.faults <= 1
       /\ ops[o].status = "started"
       /\ ops'[o].status \notin {"started", "completed"}
       /\ placed[o] # NONE
       => \/ ~(placed[o].gone /\ disk[placed[o].dst] = placed[o].snap)
          \/ MovedAgain(o)]_vars

Restored(x, snap) == \E u \in Op : /\ ops[u].kind = "undo"
                                  /\ ops[u].status = "completed"
                                  /\ ops[u].dst = x
                                  /\ ops[u].after = snap

\* The organizer starts to move a file that an undo has put back and that is
\* still the same file.
MovesRestored(o) == /\ ops[o].status = "none"
                    /\ ops'[o].status = "started"
                    /\ ops'[o].kind = "move"
                    /\ Restored(ops'[o].src, ops'[o].snap)

\* Without faults, the organizer does not start to move a file again that an
\* undo has put back, as long as it is the same file.
UndoneFileStays == [][used.faults = 0 => \A o \in Op : ~MovesRestored(o)]_vars

\* An undo has put back the file that is at x and is still to be closed.
BeingRestored(x) == \E u \in Op : /\ ops[u].kind = "undo"
                                 /\ ops[u].status = "started"
                                 /\ placed[u] # NONE
                                 /\ placed[u].dst = x
                                 /\ placed[u].snap = disk[x]

\* Without faults, a file that an undo has put back is exempted in the
\* database, so that a restart knows it, unless another undo has just put it
\* back again: its own exemption follows.
RestoredIsExempt ==
  used.faults = 0 =>
    \A x \in Path : disk[x] # NONE /\ Restored(x, disk[x]) =>
      exemptDb[x] = disk[x] \/ BeingRestored(x)

\* Requests of one process, queued or worked on, that still hold claims.
Requests(p) == {queue[p][i] : i \in 1..Len(queue[p])}
               \cup (IF work[p].pc \in {"idle", "recover"} THEN {} ELSE {work[p].op})

\* What a request takes a file from or puts it back to.
Touched(o) == IF ops[o].kind = "undo" THEN {ops[o].src, ops[o].dst} ELSE {ops[o].src}

\* The in-flight paths of a process are those its requests touch, and no two
\* of its requests touch the same path: none is left behind by a panic, and
\* none is given up while the request can still move the file.
ClaimsMatchRequests ==
  \A p \in Proc :
    /\ inFlight[p] = UNION {Touched(o) : o \in Requests(p)}
    /\ \A a, b \in Requests(p) : a # b => Touched(a) \cap Touched(b) = {}

\* Without faults, a document is on two paths only while the operation that
\* copied it is still started.
NoLastingDuplicate ==
  used.faults = 0 =>
    \A x, y \in Path :
      x # y /\ disk[x] # NONE /\ disk[y] # NONE /\ disk[x].doc = disk[y].doc =>
        \E o \in Op : /\ ops[o].status = "started"
                      /\ placed[o] # NONE
                      /\ placed[o].dst \in {x, y}
=============================================================================
