------------------------ MODULE OrganizerMoveProofs ------------------------
(***************************************************************************)
(* Theorems about OrganizerMove, for any number of processes, paths and    *)
(* operations, every conflict policy, and any number of crashes and faults.*)
(*                                                                         *)
(* The invariants are those of OrganizerMoveInvariants, in their order.    *)
(* Between the first and the second: OrganizerMove implements              *)
(* OperationLedger.                                                        *)
(***************************************************************************)
EXTENDS OrganizerMoveInvariants, SequenceTheorems, TLAPS

----------------------------------------------------------------------------
(* The first invariant: what a record that is in use has been filled with. *)

\* Every step of the database: what a new row and a closed row look like.
LEMMA InsertTyped ==
  ASSUME TypeInv, NEW o \in Op, NEW p \in Proc \cup {NONE}, NEW k \in {"move", "retry", "undo"},
         NEW q \in Op \cup {NONE}, NEW st \in {"started", "skipped"},
         NEW src \in Path, NEW dst \in Path, NEW snap \in Snap,
         k = "undo" => q \in Op, k # "undo" => src \in Watched,
         InsertRow(o, p, k, q, st, src, dst, snap)
  PROVE  /\ ops' \in [Op -> OpRow]
         /\ RowsFilled'
         /\ Kept
         /\ ops[o].status = "none"
         /\ \A a \in Op \ {o} : ops'[a] = ops[a]
         /\ ops'[o].status = st /\ ops'[o].kind = k /\ ops'[o].parent = q
         /\ ops'[o].owner = p /\ ops'[o].src = src /\ ops'[o].dst = dst
         /\ ops'[o].snap = snap /\ ~ops'[o].undone
<1> DEFINE row == [status |-> st, kind |-> k, parent |-> q, owner |-> p,
                   src |-> src, dst |-> dst, snap |-> snap, after |-> NONE, undone |-> FALSE]
<1>1. row \in OpRow
  BY DEF OpRow, Statuses
<1>2. ops' = [ops EXCEPT ![o] = row] /\ ops[o].status = "none"
  BY DEF InsertRow, FreeId, Rows
<1>3. ops \in [Op -> OpRow]
  BY DEF TypeInv, TypeOK
<1>4. ops'[o] = row /\ \A a \in Op \ {o} : ops'[a] = ops[a]
  BY <1>2, <1>3
<1>5. ops' \in [Op -> OpRow]
  BY <1>1, <1>2, <1>3
<1>6. RowFilled(row)
  BY DEF RowFilled
<1>7. RowsFilled' /\ Kept
  BY <1>4, <1>6 DEF TypeInv, Filled, RowsFilled, Kept
<1> QED
  BY <1>2, <1>4, <1>5, <1>7

LEMMA CloseTyped ==
  ASSUME TypeInv, NEW o \in Op, NEW st \in Terminal,
         NEW dst, NEW snap, st = "completed" => dst \in Path /\ snap \in Snap,
         CloseRow(o, st, dst, snap)
  PROVE  /\ ops' \in [Op -> OpRow]
         /\ RowsFilled'
         /\ Kept
         /\ journal' \in [Op -> Entry \cup {NONE}]
         /\ exemptDb' \in [Path -> Snap \cup {NONE}]
<1> TypeOK /\ RowsFilled
  BY DEF TypeInv, Filled
<1>1. CASE ops[o].status # "started"
  BY <1>1 DEF CloseRow, dbVars, TypeOK, RowsFilled, Kept
<1>2. CASE ops[o].status = "started"
  <2>1. ops' = Closed(o, st, dst, snap) /\ journal' = [journal EXCEPT ![o] = NONE]
    BY <1>2 DEF CloseRow
  <2>2. exemptDb' \in [Path -> Snap \cup {NONE}]
    BY <1>2 DEF CloseRow, ExemptsRestored, TypeOK
  <2>3. journal' \in [Op -> Entry \cup {NONE}]
    BY <2>1 DEF TypeOK
  <2>4. RowFilled(ops[o]) /\ ops[o] \in OpRow
    BY <1>2 DEF RowsFilled, TypeOK
  <2>5. ASSUME NEW a \in Op
        PROVE  /\ ops'[a] \in OpRow
               /\ ops'[a].status # "none" => RowFilled(ops'[a])
               /\ ops[a].status # "none" => ops'[a].status # "none"
    <3>1. ops[a] \in OpRow /\ (ops[a].status # "none" => RowFilled(ops[a]))
      BY DEF TypeOK, RowsFilled
    <3>2. CASE a = o
      <4>1. ops'[a] = [ops[o] EXCEPT !.status = st,
                                     !.dst = IF st = "completed" THEN dst ELSE @,
                                     !.after = IF st = "completed" THEN snap ELSE @]
        BY <2>1, <3>2 DEF Closed
      <4> QED
        BY <2>4, <3>2, <4>1 DEF OpRow, RowFilled, Terminal, Statuses
    <3>3. CASE a # o /\ st = "completed" /\ ops[o].kind = "undo" /\ a = ops[o].parent
      <4>1. ops'[a] = [ops[a] EXCEPT !.undone = TRUE]
        BY <2>1, <3>3 DEF Closed
      <4> QED
        BY <3>1, <4>1 DEF OpRow, RowFilled
    <3>4. CASE a # o /\ ~(st = "completed" /\ ops[o].kind = "undo" /\ a = ops[o].parent)
      <4>1. ops'[a] = ops[a]
        BY <2>1, <3>4 DEF Closed
      <4> QED
        BY <3>1, <4>1
    <3> QED
      BY <3>2, <3>3, <3>4
  <2>6. ops' = [a \in Op |-> ops'[a]]
    BY <2>1 DEF Closed
  <2>7. ops' \in [Op -> OpRow]
    BY <2>5, <2>6
  <2> QED
    BY <2>2, <2>3, <2>5, <2>7 DEF RowsFilled, Kept
<1> QED
  BY <1>1, <1>2

\* Parts of TypeInv whose variables a step leaves alone.
requestVars == <<work, queue, checked, pending, phase, rec>>

LEMMA RequestsKept ==
  ASSUME TypeInv, Kept, UNCHANGED requestVars
  PROVE  WorkFilled' /\ QueueFilled' /\ RecFilled' /\ CheckedFilled' /\ Quiet'
<1> TypeOK /\ Filled
  BY DEF TypeInv
<1>1. WorkFilled'
  BY DEF requestVars, Filled, WorkFilled, Kept
<1>2. QueueFilled'
  <2> SUFFICES ASSUME NEW p \in Proc, NEW i \in 1..Len(queue[p])
               PROVE  ops'[queue[p][i]].status # "none"
    BY DEF requestVars, QueueFilled
  <2> queue[p] \in Seq(Op) /\ queue[p][i] \in Op
    BY DEF TypeOK
  <2> QED
    BY DEF Filled, QueueFilled, Kept
<1>3. RecFilled'
  <2> rec \in [Proc -> Recovery]
    BY DEF TypeOK
  <2> QED
    BY DEF requestVars, Filled, RecFilled, Kept, Recovery
<1>4. CheckedFilled' /\ Quiet'
  BY DEF requestVars, Filled, CheckedFilled, Quiet
<1> QED
  BY <1>1, <1>2, <1>3, <1>4

\* Steps of the user.
LEMMA UserTyped ==
  ASSUME TypeInv, NEW x \in Path, UserWrite(x) \/ UserDelete(x)
  PROVE  TypeInv'
<1> TypeOK /\ Filled
  BY DEF TypeInv
<1>1. disk' \in [Path -> Snap \cup {NONE}] /\ serial' \in Nat
  <2>1. disk \in [Path -> Snap \cup {NONE}] /\ serial \in Nat
    BY DEF TypeOK
  <2>2. [doc |-> serial + 1, id |-> serial + 1] \in Snap
    BY <2>1 DEF Snap
  <2>3. \/ /\ disk' = [disk EXCEPT ![x] = [doc |-> serial + 1, id |-> serial + 1]]
           /\ serial' = serial + 1
        \/ /\ disk' = [disk EXCEPT ![x] = NONE]
           /\ serial' = serial
    BY DEF UserWrite, UserDelete
  <2> QED
    BY <2>1, <2>2, <2>3
<1>2. used' \in [edits : Nat, crashes : Nat, faults : Nat]
  <2>1. used \in [edits : Nat, crashes : Nat, faults : Nat]
    BY DEF TypeOK
  <2>2. used' = [used EXCEPT !.edits = @ + 1]
    BY DEF UserWrite, UserDelete
  <2> QED
    BY <2>1, <2>2
<1>3. UNCHANGED <<dbVars, phase, exempt, inFlight, threadVars, work, rec, placed>>
  BY DEF UserWrite, UserDelete
<1>4. TypeOK'
  BY <1>1, <1>2, <1>3 DEF TypeOK, dbVars, threadVars
<1>5. RowsFilled' /\ Kept /\ UNCHANGED requestVars
  BY <1>3 DEF Filled, RowsFilled, Kept, dbVars, threadVars, requestVars
<1> QED
  BY <1>4, <1>5, RequestsKept DEF TypeInv, Filled

LEMMA FaultTyped == TypeOK /\ Fault => used' \in [edits : Nat, crashes : Nat, faults : Nat]
<1> SUFFICES ASSUME TypeOK, Fault PROVE used' \in [edits : Nat, crashes : Nat, faults : Nat]
  OBVIOUS
<1>1. used \in [edits : Nat, crashes : Nat, faults : Nat]
  BY DEF TypeOK
<1>2. used' = [used EXCEPT !.faults = @ + 1]
  BY DEF Fault
<1> QED
  BY <1>1, <1>2

\* Steps of the organizer thread that only look.
LEMMA NoticeTyped ==
  ASSUME TypeInv, NEW p \in Proc, NEW x \in Watched, Notice(p, x)
  PROVE  TypeInv'
<1> TypeOK /\ Filled
  BY DEF TypeInv
<1>1. pending' = [pending EXCEPT ![p][x] = disk[x]] /\ checked[p] = NONE /\ disk[x] \in Snap
  BY MoveAssumption DEF Notice, ThreadFree, TypeOK
<1>2. UNCHANGED <<disk, serial, dbVars, phase, exempt, inFlight, checked, queue, work, rec,
                  used, placed>>
  BY DEF Notice
<1>3. pending' \in [Proc -> [Watched -> Snap \cup {NONE}]]
  BY <1>1 DEF TypeOK
<1>4. TypeOK'
  BY <1>2, <1>3 DEF TypeOK, dbVars
<1>5. CheckedFilled'
  <2> SUFFICES ASSUME NEW r \in Proc, checked[r] # NONE PROVE pending'[r][checked[r]] \in Snap
    BY <1>2 DEF CheckedFilled
  <2> pending'[r] = pending[r]
    BY <1>1 DEF TypeOK
  <2> QED
    BY DEF Filled, CheckedFilled
<1>6. RowsFilled' /\ WorkFilled' /\ QueueFilled' /\ RecFilled' /\ Quiet'
  BY <1>2 DEF Filled, RowsFilled, WorkFilled, QueueFilled, RecFilled, Quiet, dbVars
<1> QED
  BY <1>4, <1>5, <1>6 DEF TypeInv, Filled

LEMMA TakeStableTyped ==
  ASSUME TypeInv, NEW p \in Proc, NEW x \in Watched, TakeStable(p, x)
  PROVE  TypeInv'
<1> TypeOK /\ Filled
  BY DEF TypeInv
<1> x \in Path
  BY MoveAssumption
<1>1. /\ checked[p] = NONE /\ Running(p)
      /\ UNCHANGED <<disk, serial, ops, journal, phase, inFlight, queue, work, rec, placed>>
  BY DEF TakeStable, ThreadFree
<1>2. /\ pending' \in [Proc -> [Watched -> Snap \cup {NONE}]]
      /\ exempt' \in [Proc -> [Path -> Snap \cup {NONE}]]
      /\ checked' \in [Proc -> Watched \cup {NONE}]
  <2> DEFINE S == Snap \cup {NONE}
  <2>1. /\ pending \in [Proc -> [Watched -> S]]
        /\ exempt \in [Proc -> [Path -> S]]
        /\ checked \in [Proc -> Watched \cup {NONE}]
        /\ disk[x] \in S /\ NONE \in S
    BY DEF TypeOK
  <2>2. /\ \/ pending' = pending
           \/ \E v \in S : pending' = [pending EXCEPT ![p][x] = v]
        /\ exempt' = exempt \/ exempt' = [exempt EXCEPT ![p][x] = NONE]
        /\ checked' = checked \/ checked' = [checked EXCEPT ![p] = x]
    BY <2>1 DEF TakeStable
  <2> HIDE DEF S
  <2>3. pending' \in [Proc -> [Watched -> S]]
    <3>1. CASE pending' = pending
      BY <2>1, <3>1
    <3>2. ASSUME NEW v \in S, pending' = [pending EXCEPT ![p][x] = v]
          PROVE  pending' \in [Proc -> [Watched -> S]]
      BY <2>1, <3>2
    <3> QED
      BY <2>2, <3>1, <3>2
  <2>4. exempt' \in [Proc -> [Path -> S]]
    <3>1. CASE exempt' = exempt
      BY <2>1, <3>1
    <3>2. CASE exempt' = [exempt EXCEPT ![p][x] = NONE]
      BY <2>1, <3>2
    <3> QED
      BY <2>2, <3>1, <3>2
  <2>5. checked' \in [Proc -> Watched \cup {NONE}]
    BY <2>1, <2>2
  <2> QED
    BY <2>3, <2>4, <2>5 DEF S
<1>3. exemptDb' \in [Path -> Snap \cup {NONE}]
  BY DEF TakeStable, TypeOK
<1>4. used' \in [edits : Nat, crashes : Nat, faults : Nat]
  <2>1. Fault \/ used' = used
    BY DEF TakeStable
  <2> QED
    BY <2>1, FaultTyped DEF TypeOK
<1>5. TypeOK'
  BY <1>1, <1>2, <1>3, <1>4 DEF TypeOK
<1>6. /\ \A r \in Proc \ {p} : checked'[r] = checked[r] /\ pending'[r] = pending[r]
      /\ checked'[p] # NONE => checked'[p] = x /\ pending'[p] = pending[p] /\ pending[p][x] \in Snap
  BY <1>1, MoveAssumption DEF TakeStable, TypeOK
<1>7. CheckedFilled'
  BY <1>6 DEF Filled, CheckedFilled
<1>8. Quiet'
  BY <1>1, <1>6 DEF Filled, Quiet, Running
<1>9. RowsFilled' /\ WorkFilled' /\ QueueFilled' /\ RecFilled'
  BY <1>1 DEF Filled, RowsFilled, WorkFilled, QueueFilled, RecFilled
<1> QED
  BY <1>5, <1>7, <1>8, <1>9 DEF TypeInv, Filled

----------------------------------------------------------------------------
(* Steps that put a request into the queue of the worker.                  *)

\* Any request queued for p keeps the requests filled.
LEMMA SubmitTyped ==
  ASSUME TypeInv, NEW p \in Proc, NEW o \in Op, Submit(p, o), Running(p),
         ops' \in [Op -> OpRow], RowsFilled', Kept, ops'[o].status # "none",
         UNCHANGED <<disk, serial, journal, exemptDb, phase, exempt, work, rec, used, placed>>,
         \/ UNCHANGED <<checked, pending>>
         \/ DropChecked(p) /\ checked[p] \in Watched
  PROVE  TypeInv'
<1> TypeOK /\ Filled
  BY DEF TypeInv
<1>1. queue \in [Proc -> Seq(Op)] /\ queue' = [queue EXCEPT ![p] = Append(@, o)]
  BY DEF TypeOK, Submit
<1>2. /\ queue' \in [Proc -> Seq(Op)]
      /\ \A r \in Proc \ {p} : queue'[r] = queue[r]
      /\ queue'[p] = Append(queue[p], o)
  BY <1>1
<1>3. inFlight' \in [Proc -> SUBSET Path]
  <2>1. inFlight \in [Proc -> SUBSET Path]
        /\ inFlight' = [inFlight EXCEPT ![p] = @ \cup Claims(o)']
    BY DEF TypeOK, Submit
  <2>2. Claims(o)' \subseteq Path
    BY DEF Claims, RowsFilled, RowFilled
  <2> QED
    BY <2>1, <2>2
<1>4. /\ checked' \in [Proc -> Watched \cup {NONE}]
      /\ pending' \in [Proc -> [Watched -> Snap \cup {NONE}]]
      /\ CheckedFilled'
  <2>1. /\ checked \in [Proc -> Watched \cup {NONE}]
        /\ pending \in [Proc -> [Watched -> Snap \cup {NONE}]]
    BY DEF TypeOK
  <2>2. CASE UNCHANGED <<checked, pending>>
    BY <2>1, <2>2 DEF Filled, CheckedFilled
  <2>3. CASE DropChecked(p) /\ checked[p] \in Watched
    <3>1. checked' = [checked EXCEPT ![p] = NONE] /\ checked[p] \in Watched
          /\ pending' = [pending EXCEPT ![p][checked[p]] = NONE]
      BY <2>3 DEF DropChecked
    <3>2. pending' \in [Proc -> [Watched -> Snap \cup {NONE}]]
      BY <2>1, <3>1
    <3>3. checked' \in [Proc -> Watched \cup {NONE}]
      BY <2>1, <3>1
    <3>4. \A r \in Proc \ {p} : pending'[r] = pending[r] /\ checked'[r] = checked[r]
      BY <2>1, <3>1
    <3>5. checked'[p] = NONE
      BY <2>1, <3>1
    <3> QED
      BY <3>2, <3>3, <3>4, <3>5 DEF Filled, CheckedFilled
  <2> QED
    BY <2>2, <2>3
<1>5. TypeOK'
  BY <1>2, <1>3, <1>4 DEF TypeOK
<1>6. QueueFilled'
  <2> SUFFICES ASSUME NEW r \in Proc, NEW i \in 1..Len(queue'[r])
               PROVE  ops'[queue'[r][i]].status # "none"
    BY DEF QueueFilled
  <2>1. CASE r = p /\ i = Len(queue[p]) + 1
    <3>1. queue'[r][i] = o
      BY <1>1, <1>2, <2>1
    <3> QED
      BY <3>1
  <2>2. CASE r # p \/ i # Len(queue[p]) + 1
    <3>1. i \in 1..Len(queue[r]) /\ queue'[r][i] = queue[r][i] /\ queue[r][i] \in Op
      BY <1>1, <1>2, <2>2
    <3> QED
      BY <3>1 DEF Filled, QueueFilled, Kept
  <2> QED
    BY <2>1, <2>2
<1>7. WorkFilled'
  BY DEF Filled, WorkFilled, Kept
<1>8. RecFilled'
  <2> rec \in [Proc -> Recovery]
    BY DEF TypeOK
  <2> QED
    BY DEF Filled, RecFilled, Kept, Recovery
<1>9. Quiet'
  <2> \A r \in Proc : checked'[r] = NONE \/ checked'[r] = checked[r]
    <3>1. checked \in [Proc -> Watched \cup {NONE}]
      BY DEF TypeOK
    <3>2. checked' = checked \/ checked' = [checked EXCEPT ![p] = NONE]
      BY DEF DropChecked
    <3> QED
      BY <3>1, <3>2
  <2> QED
    BY <1>2 DEF Filled, Quiet, Running
<1> QED
  BY <1>4, <1>5, <1>6, <1>7, <1>8, <1>9 DEF TypeInv, Filled

\* The thread drops or keeps the file it was about to start.
LEMMA DroppedTyped ==
  ASSUME TypeInv, NEW p \in Proc, checked[p] \in Watched,
         checked' = [checked EXCEPT ![p] = NONE],
         pending' = pending \/ pending' = [pending EXCEPT ![p][checked[p]] = NONE],
         ops' \in [Op -> OpRow], RowsFilled', Kept,
         used' \in [edits : Nat, crashes : Nat, faults : Nat],
         UNCHANGED <<disk, serial, journal, exemptDb, phase, exempt, inFlight, queue, work,
                     rec, placed>>
  PROVE  TypeInv'
<1> TypeOK /\ Filled
  BY DEF TypeInv
<1>1. /\ checked \in [Proc -> Watched \cup {NONE}]
      /\ pending \in [Proc -> [Watched -> Snap \cup {NONE}]]
  BY DEF TypeOK
<1>2. pending' \in [Proc -> [Watched -> Snap \cup {NONE}]]
  <2>1. CASE pending' = pending
    BY <1>1, <2>1
  <2>2. CASE pending' = [pending EXCEPT ![p][checked[p]] = NONE]
    BY <1>1, <2>2
  <2> QED
    BY <2>1, <2>2
<1>3. checked' \in [Proc -> Watched \cup {NONE}]
  BY <1>1
<1>4. TypeOK'
  BY <1>2, <1>3 DEF TypeOK
<1>5. checked'[p] = NONE /\ \A r \in Proc \ {p} : checked'[r] = checked[r]
  <2> checked \in [Proc -> Watched \cup {NONE}]
    BY <1>1
  <2> QED
    OBVIOUS
<1>6. \A r \in Proc \ {p} : pending'[r] = pending[r]
  <2>1. CASE pending' = pending
    BY <2>1
  <2>2. CASE pending' = [pending EXCEPT ![p][checked[p]] = NONE]
    BY <1>1, <2>2
  <2> QED
    BY <2>1, <2>2
<1>7. CheckedFilled'
  BY <1>5, <1>6 DEF Filled, CheckedFilled
<1>8. WorkFilled'
  BY DEF Filled, WorkFilled, Kept
<1>9. QueueFilled'
  <2> SUFFICES ASSUME NEW r \in Proc, NEW i \in 1..Len(queue[r])
               PROVE  ops'[queue[r][i]].status # "none"
    BY DEF QueueFilled
  <2> queue[r] \in Seq(Op) /\ queue[r][i] \in Op
    BY DEF TypeOK
  <2> QED
    BY DEF Filled, QueueFilled, Kept
<1>10. RecFilled'
  <2> rec \in [Proc -> Recovery]
    BY DEF TypeOK
  <2> QED
    BY DEF Filled, RecFilled, Kept, Recovery
<1>11. Quiet'
  BY <1>5 DEF Filled, Quiet
<1> QED
  BY <1>4, <1>7, <1>8, <1>9, <1>10, <1>11 DEF TypeInv, Filled

LEMMA DispatchTyped ==
  ASSUME TypeInv, NEW p \in Proc, Dispatch(p)
  PROVE  TypeInv'
<1> DEFINE x == checked[p]
           snap == pending[p][x]
<1> TypeOK /\ Filled
  BY DEF TypeInv
<1>1. x \in Watched /\ snap \in Snap /\ x \in Path /\ Home[x] \in Path /\ Running(p)
  BY MoveAssumption DEF Dispatch, Filled, CheckedFilled, TypeOK
<1>2. ops \in [Op -> OpRow] /\ RowsFilled
  BY DEF TypeOK, Filled
<1>3. CASE KeepPending(p) /\ (Fault \/ UNCHANGED used)
  <2>1. used' \in [edits : Nat, crashes : Nat, faults : Nat]
    BY <1>3, FaultTyped DEF TypeOK
  <2>2. /\ checked' = [checked EXCEPT ![p] = NONE] /\ pending' = pending /\ ops' = ops
        /\ UNCHANGED <<disk, serial, journal, exemptDb, phase, exempt, inFlight, queue, work,
                       rec, placed>>
    BY <1>3 DEF KeepPending, dbVars
  <2>3. RowsFilled' /\ Kept
    BY <1>2, <2>2 DEF RowsFilled, Kept
  <2> QED
    BY <1>1, <1>2, <2>1, <2>2, <2>3, DroppedTyped
<1>4. CASE /\ DropChecked(p)
           /\ UNCHANGED <<disk, serial, dbVars, phase, exempt, inFlight, queue, work, rec,
                          used, placed>>
  <2>1. /\ checked' = [checked EXCEPT ![p] = NONE] /\ ops' = ops
        /\ pending' = [pending EXCEPT ![p][checked[p]] = NONE]
        /\ UNCHANGED <<disk, serial, journal, exemptDb, phase, exempt, inFlight, queue, work,
                       rec, placed, used>>
    BY <1>4 DEF DropChecked, dbVars
  <2>2. RowsFilled' /\ Kept /\ used' \in [edits : Nat, crashes : Nat, faults : Nat]
    BY <1>2, <2>1 DEF RowsFilled, Kept, TypeOK
  <2> QED
    BY <1>1, <1>2, <2>1, <2>2, DroppedTyped
<1>5. ASSUME NEW o \in Op, NEW st \in {"started", "skipped"},
             InsertRow(o, p, "move", NONE, st, x, Home[x], snap)
      PROVE  /\ ops' \in [Op -> OpRow] /\ RowsFilled' /\ Kept
             /\ ops'[o].status # "none"
  <2>1. x \in Watched /\ x \in Path /\ Home[x] \in Path /\ snap \in Snap
    BY <1>1
  <2> HIDE DEF x, snap
  <2>2. /\ ops' \in [Op -> OpRow] /\ RowsFilled' /\ Kept
        /\ ops'[o].status = st
    BY <2>1, <1>5, InsertTyped
  <2> QED
    BY <2>2, <1>5
<1>6. CASE /\ \E o \in Op : InsertRow(o, p, "move", NONE, "skipped", x, Home[x], snap)
           /\ DropChecked(p)
           /\ UNCHANGED <<disk, serial, journal, exemptDb, phase, exempt, inFlight,
                          queue, work, rec, used, placed>>
  <2>1. ops' \in [Op -> OpRow] /\ RowsFilled' /\ Kept
    BY <1>5, <1>6
  <2>2. checked' = [checked EXCEPT ![p] = NONE]
        /\ pending' = [pending EXCEPT ![p][checked[p]] = NONE]
    BY <1>6 DEF DropChecked
  <2>3. used' \in [edits : Nat, crashes : Nat, faults : Nat]
    BY <1>6 DEF TypeOK
  <2> QED
    BY <1>1, <1>6, <2>1, <2>2, <2>3, DroppedTyped
<1>7. CASE /\ \E o \in Op : /\ InsertRow(o, p, "move", NONE, "started", x, Home[x], snap)
                            /\ Submit(p, o)
           /\ DropChecked(p)
           /\ UNCHANGED <<disk, serial, journal, exemptDb, phase, exempt, work,
                          rec, used, placed>>
  <2> PICK o \in Op : InsertRow(o, p, "move", NONE, "started", x, Home[x], snap) /\ Submit(p, o)
    BY <1>7
  <2>1. ops' \in [Op -> OpRow] /\ RowsFilled' /\ Kept /\ ops'[o].status # "none"
    BY <1>5
  <2> QED
    BY <1>1, <1>7, <2>1, SubmitTyped
<1> QED
  BY <1>3, <1>4, <1>6, <1>7 DEF Dispatch

LEMMA RetryTyped ==
  ASSUME TypeInv, NEW p \in Proc, NEW q \in Op, RetryOperation(p, q)
  PROVE  TypeInv'
<1> TypeOK /\ Filled
  BY DEF TypeInv
<1>1. /\ ops[q].src \in Watched /\ ops[q].src \in Path /\ Home[ops[q].src] \in Path
      /\ ops[q].snap \in Snap /\ Running(p)
  BY MoveAssumption DEF RetryOperation, ThreadFree, Filled, RowsFilled, RowFilled
<1> PICK o \in Op :
       /\ InsertRow(o, p, "retry", q, "started", ops[q].src, Home[ops[q].src], ops[q].snap)
       /\ Submit(p, o)
  BY DEF RetryOperation
<1>2. ops' \in [Op -> OpRow] /\ RowsFilled' /\ Kept /\ ops'[o].status # "none"
  BY <1>1, InsertTyped
<1>3. UNCHANGED <<disk, serial, journal, exemptDb, phase, exempt, pending, checked, work, rec,
                  used, placed>>
  BY DEF RetryOperation
<1> QED
  BY <1>1, <1>2, <1>3, SubmitTyped

LEMMA UndoTyped ==
  ASSUME TypeInv, NEW p \in Proc, NEW q \in Op, UndoOperation(p, q)
  PROVE  TypeInv'
<1> TypeOK /\ Filled
  BY DEF TypeInv
<1>1. /\ ops[q].src \in Path /\ ops[q].dst \in Path
      /\ ops[q].after \in Snap /\ Running(p)
  BY DEF UndoOperation, ThreadFree, Filled, RowsFilled, RowFilled
<1> PICK o \in Op :
       /\ InsertRow(o, p, "undo", q, "started", ops[q].dst, ops[q].src, ops[q].after)
       /\ Submit(p, o)
  BY DEF UndoOperation
<1>2. ops' \in [Op -> OpRow] /\ RowsFilled' /\ Kept /\ ops'[o].status # "none"
  BY <1>1, InsertTyped
<1>3. UNCHANGED <<disk, serial, journal, exemptDb, phase, exempt, pending, checked, work, rec,
                  used, placed>>
  BY DEF UndoOperation
<1> QED
  BY <1>1, <1>2, <1>3, SubmitTyped

----------------------------------------------------------------------------
(* Steps of the worker.                                                    *)

LEMMA MoveOnMoves == ASSUME NEW p \in Proc, MoveOn(p) PROVE WorkMoves(p)
  BY DEF MoveOn, WorkMoves

LEMMA WorkerRunning ==
  ASSUME TypeInv, NEW p \in Proc, work[p].pc # "idle"
  PROVE  /\ phase[p] = "running" /\ work[p].pc \in Busy
         /\ work[p].op \in Op /\ work[p].target \in Path /\ work[p].snap \in Snap
         /\ ops[work[p].op].status # "none" /\ RowFilled(ops[work[p].op])
         /\ ops[work[p].op] \in OpRow
         /\ work[p].pc = "finish" => work[p].result \in Terminal
         /\ work[p].pc = "exempt" => work[p].result = "completed"
         /\ work[p] \in Request
<1>1. work[p].op \in Op /\ ops[work[p].op].status # "none" /\ work[p] # Idle
  BY DEF TypeInv, Filled, WorkFilled, Idle
<1>2. ops[work[p].op] \in OpRow /\ RowFilled(ops[work[p].op])
  BY <1>1 DEF TypeInv, TypeOK, Filled, RowsFilled
<1>3. work[p] \in Request
  BY DEF TypeInv, TypeOK
<1> QED
  BY <1>1, <1>2, <1>3 DEF TypeInv, Filled, WorkFilled, Quiet, Busy, Request

\* What a step of the worker may write: the request, and data of its type.
LEMMA WorkerTyped ==
  ASSUME TypeInv, NEW p \in Proc, work[p].pc # "idle", WorkMoves(p), Kept, RowsFilled',
         UNCHANGED <<phase, pending, checked, queue, rec>>,
         disk' \in [Path -> Snap \cup {NONE}], serial' \in Nat, ops' \in [Op -> OpRow],
         journal' \in [Op -> Entry \cup {NONE}], exemptDb' \in [Path -> Snap \cup {NONE}],
         exempt' \in [Proc -> [Path -> Snap \cup {NONE}]],
         inFlight' \in [Proc -> SUBSET Path],
         used' \in [edits : Nat, crashes : Nat, faults : Nat],
         placed' \in [Op -> Placement \cup {NONE}]
  PROVE  TypeInv'
<1> TypeOK /\ Filled
  BY DEF TypeInv
<1> PICK pc \in Busy, t \in Path, s \in Snap, r \in Statuses : Step(p, pc, t, s, r)
  BY DEF WorkMoves
<1>1. TypeOK'
  BY DEF TypeOK, Step
<1>2. phase[p] = "running" /\ work[p].op \in Op /\ ops'[work[p].op].status # "none"
  BY WorkerRunning DEF Kept
<1>3. WorkFilled'
  <2> SUFFICES ASSUME NEW q \in Proc, work'[q].pc # "idle"
               PROVE  /\ work'[q].op \in Op /\ work'[q].target \in Path /\ work'[q].snap \in Snap
                      /\ ops'[work'[q].op].status # "none"
                      /\ work'[q].pc = "finish" => work'[q].result \in Terminal
                      /\ work'[q].pc = "exempt" => work'[q].result = "completed"
    BY DEF WorkFilled
  <2>1. CASE q = p
    BY <1>2, <2>1 DEF Step
  <2>2. CASE q # p
    BY <2>2 DEF Step, Filled, WorkFilled, Kept
  <2> QED
    BY <2>1, <2>2
<1>4. QueueFilled'
  <2> SUFFICES ASSUME NEW q \in Proc, NEW i \in 1..Len(queue[q])
               PROVE  ops'[queue[q][i]].status # "none"
    BY DEF QueueFilled
  <2> queue[q] \in Seq(Op) /\ queue[q][i] \in Op
    BY DEF TypeOK
  <2> QED
    BY DEF Filled, QueueFilled, Kept
<1>5. RecFilled'
  <2> rec \in [Proc -> Recovery]
    BY DEF TypeOK
  <2> QED
    BY DEF Filled, RecFilled, Kept, Recovery
<1>6. CheckedFilled' /\ Quiet'
  BY <1>2 DEF Filled, CheckedFilled, Quiet, Step
<1> QED
  BY <1>1, <1>3, <1>4, <1>5, <1>6 DEF TypeInv, Filled

\* The ways in which an action writes the request.
LEMMA GotoMoves ==
  ASSUME TypeInv, NEW p \in Proc, work[p].pc # "idle", NEW pc \in Busy,
         pc = "finish" => work[p].result \in Terminal,
         pc = "exempt" => work[p].result = "completed",
         Goto(p, pc)
  PROVE  /\ Step(p, pc, work[p].target, work[p].snap, work[p].result)
         /\ WorkMoves(p)
         /\ pc \notin {"release", "recover"} => MoveOn(p)
<1> DEFINE w == [work[p] EXCEPT !.pc = pc]
<1>1. work \in [Proc -> Request] /\ work[p] \in Request
  BY DEF TypeInv, TypeOK
<1>2. work' = [work EXCEPT ![p] = w]
  BY DEF Goto
<1>3. /\ w \in Request /\ w.pc = pc /\ w.op = work[p].op /\ w.target = work[p].target
      /\ w.snap = work[p].snap /\ w.result = work[p].result
  BY <1>1 DEF Request, Busy
<1>4. work[p].target \in Path /\ work[p].snap \in Snap /\ work[p].result \in Statuses
  BY <1>1, WorkerRunning DEF Request
<1> HIDE DEF w
<1>5. work'[p] = w /\ work' \in [Proc -> Request] /\ \A q \in Proc \ {p} : work'[q] = work[q]
  BY <1>1, <1>2, <1>3
<1>6. Step(p, pc, work[p].target, work[p].snap, work[p].result)
  BY <1>3, <1>4, <1>5 DEF Step
<1> QED
  BY <1>4, <1>6 DEF WorkMoves, MoveOn

LEMMA ReportMoves ==
  ASSUME TypeInv, NEW p \in Proc, work[p].pc # "idle", NEW st \in Terminal, Report(p, st)
  PROVE  Step(p, "finish", work[p].target, work[p].snap, st) /\ MoveOn(p)
<1> DEFINE w == [work[p] EXCEPT !.pc = "finish", !.result = st]
<1>1. work \in [Proc -> Request] /\ work[p] \in Request
  BY DEF TypeInv, TypeOK
<1>2. work' = [work EXCEPT ![p] = w]
  BY <1>1 DEF Report
<1>3. /\ w \in Request /\ w.pc = "finish" /\ w.op = work[p].op /\ w.target = work[p].target
      /\ w.snap = work[p].snap /\ w.result = st
  BY <1>1 DEF Request, Terminal
<1>4. work[p].target \in Path /\ work[p].snap \in Snap /\ st \in Statuses
  BY <1>1, WorkerRunning DEF Request, Terminal
<1> HIDE DEF w
<1>5. work'[p] = w /\ work' \in [Proc -> Request] /\ \A q \in Proc \ {p} : work'[q] = work[q]
  BY <1>1, <1>2, <1>3
<1>6. "finish" \in Busy /\ Step(p, "finish", work[p].target, work[p].snap, st)
  BY <1>3, <1>4, <1>5 DEF Step, Busy
<1> QED
  BY <1>4, <1>6 DEF MoveOn

LEMMA RetargetMoves ==
  ASSUME TypeInv, NEW p \in Proc, work[p].pc # "idle", NEW pc \in Busy \ {"finish", "exempt", "release", "recover"},
         NEW t \in Path, work' = [work EXCEPT ![p].pc = pc, ![p].target = t]
  PROVE  Step(p, pc, t, work[p].snap, work[p].result) /\ MoveOn(p)
<1> DEFINE w == [work[p] EXCEPT !.pc = pc, !.target = t]
<1>1. work \in [Proc -> Request] /\ work[p] \in Request
  BY DEF TypeInv, TypeOK
<1>2. work' = [work EXCEPT ![p] = w]
  BY <1>1
<1>3. /\ w \in Request /\ w.pc = pc /\ w.op = work[p].op /\ w.target = t
      /\ w.snap = work[p].snap /\ w.result = work[p].result
  BY <1>1 DEF Request, Busy
<1>4. work[p].snap \in Snap /\ work[p].result \in Statuses
  BY <1>1, WorkerRunning DEF Request
<1>7. w \in Request
  BY <1>3
<1> HIDE DEF w
<1>5. work'[p] = w /\ work' \in [Proc -> Request] /\ \A q \in Proc \ {p} : work'[q] = work[q]
  BY <1>1, <1>2, <1>7
<1>6. Step(p, pc, t, work[p].snap, work[p].result)
  BY <1>3, <1>4, <1>5 DEF Step
<1> QED
  BY <1>4, <1>6 DEF MoveOn

\* A diverted request ends without a move, or goes on to another free path.
LEMMA DivertMoves ==
  ASSUME TypeInv, NEW p \in Proc, work[p].pc # "idle", NEW next \in {"recheck", "lock"},
         Divert(p, next)
  PROVE  /\ MoveOn(p)
         /\ \/ \E st \in Terminal \ {"completed"} :
                 Step(p, "finish", work[p].target, work[p].snap, st)
            \/ \E t \in Path : Step(p, next, t, work[p].snap, work[p].result)
<1>1. \/ \E st \in Terminal \ {"completed"} : Report(p, st)
      \/ \E t \in Path : work' = [work EXCEPT ![p].pc = next, ![p].target = t]
  <2> Spare \subseteq Path /\ {"failed", "skipped", "cancelled"} \subseteq Terminal \ {"completed"}
    BY MoveAssumption DEF Terminal, Statuses
  <2> QED
    BY DEF Divert
<1>2. next \in Busy \ {"finish", "exempt", "release", "recover"}
  BY DEF Busy
<1>3. CASE \E st \in Terminal \ {"completed"} : Report(p, st)
  BY <1>3, ReportMoves
<1>4. CASE \E t \in Path : work' = [work EXCEPT ![p].pc = next, ![p].target = t]
  BY <1>2, <1>4, RetargetMoves
<1> QED
  BY <1>1, <1>3, <1>4

LEMMA MovedMoves ==
  ASSUME TypeInv, NEW p \in Proc, work[p].pc # "idle", NEW s \in Snap, Moved(p, s)
  PROVE  /\ MoveOn(p)
         /\ \E pc \in {"exempt", "finish"} : Step(p, pc, work[p].target, s, "completed")
<1> DEFINE pc == IF Undoing(p) THEN "exempt" ELSE "finish"
           w == [work[p] EXCEPT !.pc = pc, !.snap = s, !.result = "completed"]
<1>1. work \in [Proc -> Request] /\ work[p] \in Request
  BY DEF TypeInv, TypeOK
<1>2. work' = [work EXCEPT ![p] = w]
  BY <1>1 DEF Moved
<1>3. pc \in {"exempt", "finish"} /\ pc \in Busy /\ "completed" \in Terminal
  BY DEF Busy, Terminal, Statuses
<1> HIDE DEF pc
<1>4. /\ w \in Request /\ w.pc = pc /\ w.op = work[p].op /\ w.target = work[p].target
      /\ w.snap = s /\ w.result = "completed"
  BY <1>1, <1>3 DEF Request, Statuses
<1>5. work[p].target \in Path /\ "completed" \in Statuses
  BY WorkerRunning DEF Statuses
<1> HIDE DEF w
<1>6. work'[p] = w /\ work' \in [Proc -> Request] /\ \A q \in Proc \ {p} : work'[q] = work[q]
  BY <1>1, <1>2, <1>4
<1>7. Step(p, pc, work[p].target, s, "completed")
  BY <1>3, <1>4, <1>5, <1>6 DEF Step
<1> QED
  BY <1>3, <1>5, <1>7 DEF MoveOn

LEMMA TakeRequestTyped ==
  ASSUME TypeInv, NEW p \in Proc, TakeRequest(p)
  PROVE  TypeInv'
<1> TypeOK /\ Filled
  BY DEF TypeInv
<1> DEFINE o == Head(queue[p])
           w == [pc |-> "check", op |-> o, target |-> ops[o].dst, snap |-> ops[o].snap,
                 result |-> "none"]
<1>1. queue \in [Proc -> Seq(Op)] /\ queue[p] \in Seq(Op) /\ queue[p] # << >>
  BY DEF TypeOK, TakeRequest
<1>2. o \in Op /\ o = queue[p][1] /\ 1 \in 1..Len(queue[p]) /\ Len(queue[p]) \in Nat
      /\ Len(Tail(queue[p])) = Len(queue[p]) - 1
      /\ \A i \in 1..Len(Tail(queue[p])) : Tail(queue[p])[i] = queue[p][i + 1]
      /\ Tail(queue[p]) \in Seq(Op)
  BY <1>1
<1>3. ops[o].status # "none"
  BY <1>2 DEF Filled, QueueFilled
<1>4. ops[o].dst \in Path /\ ops[o].snap \in Snap
  BY <1>2, <1>3 DEF Filled, RowsFilled, RowFilled
<1>5. w \in Request
  BY <1>2, <1>4 DEF Request, Statuses
<1>6. w.pc = "check" /\ w.op = o /\ o \in Op /\ w.target \in Path /\ w.snap \in Snap
  BY <1>2, <1>4
<1>7. work' = [work EXCEPT ![p] = w] /\ queue' = [queue EXCEPT ![p] = Tail(@)] /\ phase[p] = "running"
  BY DEF TakeRequest, Running
<1>8. UNCHANGED <<disk, serial, ops, journal, exemptDb, phase, exempt, inFlight, pending, checked,
                  rec, used, placed>>
  BY DEF TakeRequest, dbVars
<1> HIDE DEF o, w
<1>9. work' \in [Proc -> Request] /\ work'[p] = w /\ \A q \in Proc \ {p} : work'[q] = work[q]
  BY <1>5, <1>7 DEF TypeOK
<1>10. queue' \in [Proc -> Seq(Op)] /\ queue'[p] = Tail(queue[p])
       /\ \A q \in Proc \ {p} : queue'[q] = queue[q]
  <2> DEFINE rest == Tail(queue[p])
  <2>1. queue' = [queue EXCEPT ![p] = rest] /\ queue \in [Proc -> Seq(Op)] /\ rest \in Seq(Op)
    BY <1>1, <1>2, <1>7
  <2> HIDE DEF rest
  <2>2. queue' \in [Proc -> Seq(Op)] /\ queue'[p] = rest
        /\ \A q \in Proc \ {p} : queue'[q] = queue[q]
    BY <2>1
  <2> QED
    BY <2>2 DEF rest
<1>11. TypeOK'
  BY <1>8, <1>9, <1>10 DEF TypeOK
<1>12. WorkFilled'
  BY <1>3, <1>6, <1>8, <1>9 DEF Filled, WorkFilled
<1>13. QueueFilled'
  <2> SUFFICES ASSUME NEW q \in Proc, NEW i \in 1..Len(queue'[q])
               PROVE  ops[queue'[q][i]].status # "none"
    BY <1>8 DEF QueueFilled
  <2>1. CASE q = p
    <3>1. i + 1 \in 1..Len(queue[p]) /\ queue'[q][i] = queue[p][i + 1]
      BY <1>2, <1>10, <2>1
    <3> QED
      BY <3>1 DEF Filled, QueueFilled
  <2>2. CASE q # p
    BY <1>10, <2>2 DEF Filled, QueueFilled
  <2> QED
    BY <2>1, <2>2
<1>14. RowsFilled' /\ RecFilled' /\ CheckedFilled'
  BY <1>8 DEF Filled, RowsFilled, RecFilled, CheckedFilled
<1>15. Quiet'
  BY <1>7, <1>8, <1>9, <1>10 DEF Filled, Quiet
<1> QED
  BY <1>11, <1>12, <1>13, <1>14, <1>15 DEF TypeInv, Filled

LEMMA JournalRowTyped ==
  ASSUME TypeInv, NEW p \in Proc, work[p].pc # "idle", NEW s \in Snap, journal' = JournalRow(p, s)
  PROVE  /\ journal' \in [Op -> Entry \cup {NONE}]
         /\ journal'[work[p].op] = [dst |-> work[p].target, snap |-> s]
         /\ \A o \in Op \ {work[p].op} : journal'[o] = journal[o]
<1> DEFINE e == [dst |-> work[p].target, snap |-> s]
<1>1. e \in Entry /\ work[p].op \in Op
  BY WorkerRunning DEF Entry
<1>2. journal \in [Op -> Entry \cup {NONE}] /\ journal' = [journal EXCEPT ![work[p].op] = e]
  BY DEF TypeInv, TypeOK, JournalRow, Cur
<1> HIDE DEF e
<1>3. /\ journal' \in [Op -> Entry \cup {NONE}] /\ journal'[work[p].op] = e
      /\ \A o \in Op \ {work[p].op} : journal'[o] = journal[o]
  BY <1>1, <1>2
<1> QED
  BY <1>3 DEF e

LEMMA PlaceTyped ==
  ASSUME TypeInv, NEW p \in Proc, work[p].pc # "idle", NEW s \in Snap, NEW g \in BOOLEAN,
         placed' = Place(p, s, g)
  PROVE  /\ placed' \in [Op -> Placement \cup {NONE}]
         /\ placed'[work[p].op] = [dst |-> work[p].target, snap |-> s, gone |-> g]
         /\ \A o \in Op \ {work[p].op} : placed'[o] = placed[o]
<1> DEFINE e == [dst |-> work[p].target, snap |-> s, gone |-> g]
<1>1. e \in Placement /\ work[p].op \in Op
  BY WorkerRunning DEF Placement
<1>2. placed \in [Op -> Placement \cup {NONE}] /\ placed' = [placed EXCEPT ![work[p].op] = e]
  BY DEF TypeInv, TypeOK, Place, Cur
<1> HIDE DEF e
<1>3. /\ placed' \in [Op -> Placement \cup {NONE}] /\ placed'[work[p].op] = e
      /\ \A o \in Op \ {work[p].op} : placed'[o] = placed[o]
  BY <1>1, <1>2
<1> QED
  BY <1>3 DEF e

\* A step that leaves the operations table alone changes the request and the
\* data it names.
LEMMA MoveStepMoves ==
  ASSUME TypeInv, NEW p \in Proc, MoveStep(p)
  PROVE  work[p].pc # "idle" /\ MoveOn(p)
<1> TypeOK
  BY DEF TypeInv
<1> {"failed", "cancelled", "completed"} \subseteq Terminal
    /\ {"recheck", "lock", "rename", "publish", "delete"} \subseteq Busy \ {"finish", "exempt", "release", "recover"}
  BY DEF Terminal, Statuses, Busy
<1>1. work[p].pc # "idle"
  BY DEF MoveStep, At, CheckMove, RecheckActivation, LockAndJournal, RenameInVolume,
         CopyAndJournal, PublishCopy, DeleteSource, ExemptRestored
<1>2. CASE CheckMove(p)
  <2>1. \/ Report(p, "cancelled") \/ Report(p, "failed")
        \/ Goto(p, "recheck") \/ Divert(p, "recheck")
    BY <1>2 DEF CheckMove
  <2> QED
    BY <1>1, <2>1, ReportMoves, GotoMoves, DivertMoves
<1>3. CASE RecheckActivation(p)
  BY <1>1, <1>3, ReportMoves, GotoMoves DEF RecheckActivation
<1>4. CASE LockAndJournal(p)
  <2>1. Report(p, "failed") \/ Goto(p, "rename")
    BY <1>4 DEF LockAndJournal
  <2> QED
    BY <1>1, <2>1, ReportMoves, GotoMoves
<1>5. CASE RenameInVolume(p)
  <2>1. Divert(p, "lock") \/ Moved(p, ops[work[p].op].snap)
    BY <1>5 DEF RenameInVolume, Cur
  <2>2. ops[work[p].op].snap \in Snap
    BY <1>1, WorkerRunning DEF RowFilled
  <2> QED
    BY <1>1, <2>1, <2>2, DivertMoves, MovedMoves
<1>6. CASE CopyAndJournal(p)
  <2>1. CASE Report(p, "failed")
    BY <1>1, <2>1, ReportMoves
  <2>2. CASE ~Report(p, "failed")
    <3> DEFINE copy == [doc |-> ops[work[p].op].snap.doc, id |-> serial + 1]
               w == [work[p] EXCEPT !.pc = "publish", !.snap = copy]
    <3>1. work \in [Proc -> Request] /\ work[p] \in Request
      BY DEF TypeOK
    <3>2. work' = [work EXCEPT ![p] = w]
      BY <1>6, <2>2, <3>1 DEF CopyAndJournal, Cur
    <3>3. copy \in Snap
      <4>1. ops[work[p].op].snap \in Snap /\ serial \in Nat
        BY <1>1, WorkerRunning DEF RowFilled, TypeOK
      <4> QED
        BY <4>1 DEF Snap
    <3> HIDE DEF copy
    <3>4. /\ w \in Request /\ w.pc = "publish" /\ w.op = work[p].op
          /\ w.target = work[p].target /\ w.snap = copy /\ w.result = work[p].result
      BY <3>1, <3>3 DEF Request
    <3>5. work[p].target \in Path /\ work[p].result \in Statuses
      BY <1>1, <3>1, WorkerRunning DEF Request
    <3> HIDE DEF w
    <3>6. work'[p] = w /\ work' \in [Proc -> Request] /\ \A q \in Proc \ {p} : work'[q] = work[q]
      BY <3>1, <3>2, <3>4
    <3>7. Step(p, "publish", work[p].target, copy, work[p].result)
      BY <3>3, <3>4, <3>5, <3>6 DEF Step
    <3> QED
      BY <1>1, <3>3, <3>5, <3>7 DEF MoveOn
  <2> QED
    BY <2>1, <2>2
<1>7. CASE PublishCopy(p)
  <2>1. Divert(p, "lock") \/ Goto(p, "delete")
    BY <1>7 DEF PublishCopy
  <2> QED
    BY <1>1, <2>1, DivertMoves, GotoMoves
<1>8. CASE DeleteSource(p)
  <2>1. Report(p, "failed") \/ Moved(p, work[p].snap)
    BY <1>8 DEF DeleteSource
  <2>2. work[p].snap \in Snap
    BY <1>1, WorkerRunning
  <2> QED
    BY <1>1, <2>1, <2>2, ReportMoves, MovedMoves
<1>9. CASE ExemptRestored(p)
  <2>1. Goto(p, "finish") /\ work[p].pc = "exempt"
    BY <1>9 DEF ExemptRestored, At
  <2>2. work[p].result \in Terminal /\ "finish" \in Busy
    BY <1>1, <2>1, WorkerRunning DEF Busy
  <2> QED
    BY <1>1, <2>1, <2>2, GotoMoves
<1> QED
  BY <1>1, <1>2, <1>3, <1>4, <1>5, <1>6, <1>7, <1>8, <1>9 DEF MoveStep

LEMMA MoveStepTyped ==
  ASSUME TypeInv, NEW p \in Proc, MoveStep(p)
  PROVE  TypeInv'
<1> TypeOK /\ Filled
  BY DEF TypeInv
<1>1. work[p].pc # "idle" /\ WorkMoves(p)
  BY MoveStepMoves, MoveOnMoves
<1>2. work[p].op \in Op /\ work[p].target \in Path /\ work[p].snap \in Snap
      /\ ops[work[p].op].snap \in Snap /\ ops[work[p].op].src \in Path
  BY <1>1, WorkerRunning DEF RowFilled
<1>3. UNCHANGED <<ops, phase, pending, checked, queue, rec, inFlight>>
  BY DEF MoveStep, CheckMove, RecheckActivation, LockAndJournal, RenameInVolume, CopyAndJournal,
         PublishCopy, DeleteSource, ExemptRestored, workOnly, dbVars, threadVars
<1>4. ops' \in [Op -> OpRow] /\ RowsFilled' /\ Kept
  BY <1>3 DEF TypeOK, Filled, RowsFilled, Kept
<1>5. used' \in [edits : Nat, crashes : Nat, faults : Nat]
  <2>1. Fault \/ used' = used
    BY Zenon DEF MoveStep, CheckMove, RecheckActivation, LockAndJournal, RenameInVolume, CopyAndJournal,
           PublishCopy, DeleteSource, ExemptRestored
  <2> QED
    BY <2>1, FaultTyped DEF TypeOK
<1>6. disk' \in [Path -> Snap \cup {NONE}]
  <2>1. disk \in [Path -> Snap \cup {NONE}]
    BY DEF TypeOK
  <2> DEFINE x == ops[work[p].op].src
             t == work[p].target
             s == ops[work[p].op].snap
             c == work[p].snap
  <2>2. \/ disk' = disk
        \/ disk' = [disk EXCEPT ![x] = NONE, ![t] = s]
        \/ disk' = [disk EXCEPT ![x] = NONE]
        \/ disk' = [disk EXCEPT ![t] = c]
        \/ disk' = [disk EXCEPT ![t] = NONE]
    BY Zenon DEF MoveStep, CheckMove, RecheckActivation, LockAndJournal, RenameInVolume, CopyAndJournal,
           PublishCopy, DeleteSource, ExemptRestored, workOnly, Cur, Src
  <2>3. x \in Path /\ t \in Path /\ s \in Snap /\ c \in Snap
    BY <1>2
  <2> HIDE DEF x, t, s, c
  <2>4. CASE disk' = disk
    BY <2>1, <2>4
  <2>5. CASE disk' = [disk EXCEPT ![x] = NONE, ![t] = s]
    BY <2>1, <2>3, <2>5
  <2>6. CASE disk' = [disk EXCEPT ![x] = NONE]
    BY <2>1, <2>3, <2>6
  <2>7. CASE disk' = [disk EXCEPT ![t] = c]
    BY <2>1, <2>3, <2>7
  <2>8. CASE disk' = [disk EXCEPT ![t] = NONE]
    BY <2>1, <2>3, <2>8
  <2> QED
    BY <2>2, <2>4, <2>5, <2>6, <2>7, <2>8
<1>7. serial' \in Nat
  <2>1. serial' = serial \/ serial' = serial + 1
    BY DEF MoveStep, CheckMove, RecheckActivation, LockAndJournal, RenameInVolume, CopyAndJournal,
           PublishCopy, DeleteSource, ExemptRestored, workOnly
  <2> QED
    BY <2>1 DEF TypeOK
<1>8. journal' \in [Op -> Entry \cup {NONE}]
  <2>1. journal' = journal \/ \E s \in Snap : journal' = JournalRow(p, s)
    <3>1. CASE CopyAndJournal(p)
      <4>1. serial \in Nat /\ [doc |-> ops[work[p].op].snap.doc, id |-> serial + 1] \in Snap
        BY <1>2 DEF TypeOK, Snap
      <4> QED
        BY <3>1, <4>1 DEF CopyAndJournal, Cur
    <3>2. CASE ~CopyAndJournal(p)
      BY <1>2, <3>2 DEF MoveStep, CheckMove, RecheckActivation, LockAndJournal, RenameInVolume,
             PublishCopy, DeleteSource, ExemptRestored, workOnly, Cur, dbVars
    <3> QED
      BY <3>1, <3>2
  <2> QED
    BY <1>1, <2>1, JournalRowTyped DEF TypeOK
<1>9. placed' \in [Op -> Placement \cup {NONE}]
  <2>1. placed' = placed \/ \E s \in Snap, g \in BOOLEAN : placed' = Place(p, s, g)
    BY <1>2 DEF MoveStep, CheckMove, RecheckActivation, LockAndJournal, RenameInVolume,
           CopyAndJournal, PublishCopy, DeleteSource, ExemptRestored, workOnly, Cur
  <2> QED
    BY <1>1, <2>1, PlaceTyped DEF TypeOK
<1>10. /\ exemptDb' \in [Path -> Snap \cup {NONE}]
       /\ exempt' \in [Proc -> [Path -> Snap \cup {NONE}]]
  <2>1. CASE ExemptRestored(p)
    <3> DEFINE t == work[p].target
               c == work[p].snap
    <3>1. exempt' = [exempt EXCEPT ![p][t] = c] /\ t \in Path /\ c \in Snap
      BY <1>2, <2>1 DEF ExemptRestored
    <3>2. exemptDb' = exemptDb \/ exemptDb' = [exemptDb EXCEPT ![t] = c]
      BY <2>1 DEF ExemptRestored
    <3> HIDE DEF t, c
    <3>3. exempt' \in [Proc -> [Path -> Snap \cup {NONE}]]
      BY <3>1 DEF TypeOK
    <3>4. exemptDb' \in [Path -> Snap \cup {NONE}]
      <4>1. CASE exemptDb' = [exemptDb EXCEPT ![t] = c]
        BY <3>1, <4>1 DEF TypeOK
      <4> QED
        BY <3>2, <4>1 DEF TypeOK
    <3> QED
      BY <3>3, <3>4
  <2>2. CASE ~ExemptRestored(p)
    <3>1. UNCHANGED <<exempt, exemptDb>>
      BY <2>2 DEF MoveStep, CheckMove, RecheckActivation, LockAndJournal, RenameInVolume,
             CopyAndJournal, PublishCopy, DeleteSource, workOnly, dbVars
    <3> QED
      BY <3>1 DEF TypeOK
  <2> QED
    BY <2>1, <2>2
<1>11. inFlight' \in [Proc -> SUBSET Path]
  BY <1>3 DEF TypeOK
<1> QED
  BY <1>1, <1>3, <1>4, <1>5, <1>6, <1>7, <1>8, <1>9, <1>10, <1>11, WorkerTyped

LEMMA FinishTyped ==
  ASSUME TypeInv, NEW p \in Proc, Finish(p)
  PROVE  TypeInv'
<1> TypeOK /\ Filled
  BY DEF TypeInv
<1>1. work[p].pc = "finish" /\ Goto(p, "release")
  BY DEF Finish, At
<1>2. work[p].op \in Op /\ work[p].result \in Terminal /\ work[p].target \in Path
      /\ work[p].snap \in Snap /\ WorkMoves(p)
  <2> "release" \in Busy
    BY DEF Busy
  <2> QED
    BY <1>1, WorkerRunning, GotoMoves
<1>3. /\ ops' \in [Op -> OpRow] /\ RowsFilled' /\ Kept
      /\ journal' \in [Op -> Entry \cup {NONE}]
      /\ exemptDb' \in [Path -> Snap \cup {NONE}]
  <2>1. CASE CloseRow(work[p].op, work[p].result, work[p].target, work[p].snap)
    BY <1>2, <2>1, CloseTyped
  <2>2. CASE UNCHANGED dbVars
    BY <2>2 DEF dbVars, TypeOK, Filled, RowsFilled, Kept
  <2> QED
    BY <2>1, <2>2 DEF Finish, Cur
<1>4. used' \in [edits : Nat, crashes : Nat, faults : Nat]
  <2>1. Fault \/ used' = used
    BY DEF Finish
  <2> QED
    BY <2>1, FaultTyped DEF TypeOK
<1>5. UNCHANGED <<disk, serial, phase, exempt, inFlight, pending, checked, queue, rec, placed>>
  BY DEF Finish, threadVars
<1>6. /\ disk' \in [Path -> Snap \cup {NONE}] /\ serial' \in Nat
      /\ exempt' \in [Proc -> [Path -> Snap \cup {NONE}]]
      /\ inFlight' \in [Proc -> SUBSET Path]
      /\ placed' \in [Op -> Placement \cup {NONE}]
  BY <1>5 DEF TypeOK
<1> QED
  BY <1>1, <1>2, <1>3, <1>4, <1>5, <1>6, WorkerTyped

\* The claims of a request are given up.
LEMMA ReleasedTyped ==
  ASSUME TypeInv, NEW p \in Proc, inFlight' = [inFlight EXCEPT ![p] = @ \ Claims(Cur(p))]
  PROVE  inFlight' \in [Proc -> SUBSET Path]
<1> DEFINE c == Claims(Cur(p))
<1>1. inFlight \in [Proc -> SUBSET Path] /\ inFlight' = [inFlight EXCEPT ![p] = @ \ c]
  BY DEF TypeInv, TypeOK
<1> HIDE DEF c
<1> QED
  BY <1>1

LEMMA IdleTyped == Idle \in Request /\ NoRec \in Recovery
  BY DEF Idle, Request, NoRec, Recovery, Statuses

LEMMA ReleaseTyped ==
  ASSUME TypeInv, NEW p \in Proc, Release(p)
  PROVE  TypeInv'
<1> TypeOK /\ Filled
  BY DEF TypeInv
<1>1. inFlight' \in [Proc -> SUBSET Path]
  BY ReleasedTyped DEF Release
<1>2. /\ work' \in [Proc -> Request] /\ work'[p] = Idle
      /\ \A q \in Proc \ {p} : work'[q] = work[q]
  <2> work \in [Proc -> Request] /\ work' = [work EXCEPT ![p] = Idle]
    BY DEF TypeOK, Release
  <2> QED
    BY IdleTyped
<1>3. UNCHANGED <<disk, serial, ops, journal, exemptDb, phase, exempt, pending, checked, queue, rec,
                  used, placed>>
  BY DEF Release, dbVars, threadVars
<1>4. TypeOK'
  BY <1>1, <1>2, <1>3 DEF TypeOK
<1>5. WorkFilled'
  BY <1>2, <1>3 DEF Filled, WorkFilled, Idle
<1>6. Quiet'
  BY <1>2, <1>3 DEF Filled, Quiet
<1>7. RowsFilled' /\ QueueFilled' /\ RecFilled' /\ CheckedFilled'
  BY <1>3 DEF Filled, RowsFilled, QueueFilled, RecFilled, CheckedFilled
<1> QED
  BY <1>4, <1>5, <1>6, <1>7 DEF TypeInv, Filled

LEMMA PanicTyped ==
  ASSUME TypeInv, NEW p \in Proc, Panic(p)
  PROVE  TypeInv'
<1> TypeOK /\ Filled
  BY DEF TypeInv
<1>1. work[p].pc # "idle" /\ Goto(p, "recover")
  BY DEF Panic
<1>2. /\ work[p].op \in Op /\ ops[work[p].op].status # "none" /\ phase[p] = "running"
      /\ Step(p, "recover", work[p].target, work[p].snap, work[p].result)
  <2> "recover" \in Busy
    BY DEF Busy
  <2> QED
    BY <1>1, WorkerRunning, GotoMoves
<1>3. inFlight' \in [Proc -> SUBSET Path] /\ used' \in [edits : Nat, crashes : Nat, faults : Nat]
  BY ReleasedTyped, FaultTyped DEF Panic
<1>4. UNCHANGED <<disk, serial, ops, journal, exemptDb, phase, exempt, pending, checked, queue,
                  placed>>
  BY DEF Panic, dbVars, threadVars
<1>5. /\ rec' \in [Proc -> Recovery] /\ rec'[p].op = work[p].op /\ rec'[p].todo = rec[p].todo
      /\ rec'[p].verdict = rec[p].verdict /\ rec'[p].dst = rec[p].dst /\ rec'[p].snap = rec[p].snap
      /\ \A q \in Proc \ {p} : rec'[q] = rec[q]
  <2> DEFINE r == [rec[p] EXCEPT !.op = work[p].op]
  <2>1. rec \in [Proc -> Recovery] /\ rec[p] \in Recovery
    BY DEF TypeOK
  <2>2. rec' = [rec EXCEPT ![p] = r]
    BY DEF Panic, Cur
  <2>3. r \in Recovery /\ r.op = work[p].op /\ r.todo = rec[p].todo
        /\ r.verdict = rec[p].verdict /\ r.dst = rec[p].dst /\ r.snap = rec[p].snap
    BY <1>2, <2>1 DEF Recovery
  <2> HIDE DEF r
  <2>4. rec' \in [Proc -> Recovery] /\ rec'[p] = r /\ \A q \in Proc \ {p} : rec'[q] = rec[q]
    BY <2>1, <2>2, <2>3
  <2> QED
    BY <2>3, <2>4
<1>6. TypeOK'
  BY <1>2, <1>3, <1>4, <1>5 DEF TypeOK, Step
<1>7. WorkFilled'
  BY <1>2, <1>4 DEF Filled, WorkFilled, Step
<1>8. RecFilled'
  BY <1>2, <1>4, <1>5, MoveAssumption DEF Filled, RecFilled
<1>9. Quiet'
  BY <1>2, <1>4, <1>5 DEF Filled, Quiet, Step
<1>10. RowsFilled' /\ QueueFilled' /\ CheckedFilled'
  BY <1>4 DEF Filled, RowsFilled, QueueFilled, CheckedFilled
<1> QED
  BY <1>6, <1>7, <1>8, <1>9, <1>10 DEF TypeInv, Filled

----------------------------------------------------------------------------
(* Steps of a reconciliation, and of the processes.                        *)

\* A step that changes the reconciliation of p only.
LEMMA RecStepTyped ==
  ASSUME TypeInv, NEW p \in Proc, NEW r \in Recovery, rec' = [rec EXCEPT ![p] = r],
         \A o \in r.todo : ops[o].status # "none",
         r.op # NONE => ops[r.op].status # "none",
         r.verdict # "none" => r.op # NONE,
         r.verdict \in {"rollback", "complete"} => r.dst \in Path /\ r.snap \in Snap,
         phase'[p] # "down",
         phase' \in [Proc -> {"down", "starting", "running"}],
         phase' = phase \/ (phase[p] = "down" /\ \A q \in Proc \ {p} : phase'[q] = phase[q]),
         phase'[p] = "running" => phase[p] = "running",
         UNCHANGED <<serial, ops, journal, exemptDb, exempt, inFlight, pending,
                     checked, queue, work, placed>>,
         disk' \in [Path -> Snap \cup {NONE}],
         used' \in [edits : Nat, crashes : Nat, faults : Nat]
  PROVE  TypeInv'
<1> TypeOK /\ Filled
  BY DEF TypeInv
<1>1. rec' \in [Proc -> Recovery] /\ rec'[p] = r /\ \A q \in Proc \ {p} : rec'[q] = rec[q]
  BY DEF TypeOK
<1>2. TypeOK'
  BY <1>1 DEF TypeOK
<1>3. RecFilled'
  BY <1>1 DEF Filled, RecFilled
<1>4. Quiet'
  BY <1>1 DEF Filled, Quiet
<1>5. RowsFilled' /\ QueueFilled' /\ CheckedFilled' /\ WorkFilled'
  BY DEF Filled, RowsFilled, QueueFilled, CheckedFilled, WorkFilled
<1> QED
  BY <1>2, <1>3, <1>4, <1>5 DEF TypeInv, Filled

LEMMA StartTyped ==
  ASSUME TypeInv, NEW p \in Proc, Start(p)
  PROVE  TypeInv'
<1> TypeOK /\ Filled
  BY DEF TypeInv
<1> DEFINE todo == {o \in Op : ops[o].status = "started"}
           r == [rec[p] EXCEPT !.todo = todo]
<1>1. rec[p] \in Recovery /\ rec[p] = NoRec /\ phase[p] = "down"
  BY DEF TypeOK, Filled, Quiet, Start
<1>2. rec' = [rec EXCEPT ![p] = r] /\ phase' = [phase EXCEPT ![p] = "starting"]
  BY DEF Start
<1>3. /\ r \in Recovery /\ r.todo = todo /\ r.op = NONE /\ r.verdict = "none"
  BY <1>1 DEF Recovery, NoRec
<1>4. \A o \in todo : ops[o].status # "none"
  OBVIOUS
<1> HIDE DEF r
<1>5. /\ phase' \in [Proc -> {"down", "starting", "running"}] /\ phase'[p] = "starting"
      /\ \A q \in Proc \ {p} : phase'[q] = phase[q]
  BY <1>2 DEF TypeOK
<1>6. /\ UNCHANGED <<serial, ops, journal, exemptDb, exempt, inFlight, pending, checked, queue, work,
                     placed>>
      /\ disk' \in [Path -> Snap \cup {NONE}]
      /\ used' \in [edits : Nat, crashes : Nat, faults : Nat]
  BY DEF Start, dbVars, threadVars, TypeOK
<1> QED
  BY <1>1, <1>2, <1>3, <1>4, <1>5, <1>6, RecStepTyped

LEMMA PickTyped ==
  ASSUME TypeInv, NEW p \in Proc, NEW o \in Op, PickInterrupted(p, o)
  PROVE  TypeInv'
<1> TypeOK /\ Filled
  BY DEF TypeInv
<1> DEFINE r == [rec[p] EXCEPT !.todo = @ \ {o}, !.op = IF OwnerGone(o) THEN o ELSE NONE]
<1>1. rec \in [Proc -> Recovery] /\ rec[p] \in Recovery /\ phase[p] = "starting"
      /\ rec[p].op = NONE /\ rec[p].verdict = "none" /\ o \in rec[p].todo
  BY DEF TypeOK, PickInterrupted, Filled, RecFilled
<1>2. rec' = [rec EXCEPT ![p] = r] /\ UNCHANGED recOnly
  BY DEF PickInterrupted
<1>3. /\ r \in Recovery /\ r.todo \subseteq rec[p].todo /\ r.op \in {o, NONE} /\ r.verdict = "none"
  BY <1>1 DEF Recovery
<1>4. ops[o].status # "none" /\ \A a \in r.todo : ops[a].status # "none"
  BY <1>1, <1>3 DEF Filled, RecFilled
<1> HIDE DEF r
<1>5. /\ UNCHANGED <<phase, serial, ops, journal, exemptDb, exempt, inFlight, pending, checked, queue,
                     work, placed>>
      /\ disk' \in [Path -> Snap \cup {NONE}]
      /\ used' \in [edits : Nat, crashes : Nat, faults : Nat]
      /\ phase' \in [Proc -> {"down", "starting", "running"}]
  BY <1>2 DEF recOnly, dbVars, threadVars, TypeOK
<1> QED
  BY <1>1, <1>2, <1>3, <1>4, <1>5, RecStepTyped

LEMMA LookTyped ==
  ASSUME TypeInv, NEW p \in Proc, Look(p)
  PROVE  TypeInv'
<1> TypeOK /\ Filled
  BY DEF TypeInv
<1> DEFINE o == rec[p].op
           row == journal[o]
           d == IF row = NONE THEN NONE ELSE row.dst
           s == IF row = NONE THEN NONE ELSE row.snap
           v == Verdict(o)
           r == [rec[p] EXCEPT !.verdict = v, !.dst = d, !.snap = s]
<1>1. /\ rec \in [Proc -> Recovery] /\ rec[p] \in Recovery /\ o \in Op /\ o # NONE
      /\ row \in Entry \cup {NONE} /\ ops[o].status # "none"
      /\ \A a \in rec[p].todo : ops[a].status # "none"
  BY DEF TypeOK, Look, Filled, RecFilled, Recovery
<1>2. rec' = [rec EXCEPT ![p] = r] /\ UNCHANGED recOnly
  BY <1>1 DEF Look
<1>3. /\ d \in Path \cup {NONE} /\ s \in Snap \cup {NONE}
      /\ v \in {"fail", "rollback", "complete"}
      /\ v \in {"rollback", "complete"} => d \in Path /\ s \in Snap
  BY <1>1 DEF Entry, Verdict
<1> HIDE DEF row, d, s, v
<1>4. /\ r \in Recovery /\ r.todo = rec[p].todo /\ r.op = o /\ r.verdict = v /\ r.dst = d /\ r.snap = s
  BY <1>1, <1>3 DEF Recovery
<1>5. phase[p] # "down"
  <2> rec[p] # NoRec
    BY <1>1 DEF NoRec
  <2> QED
    BY DEF Filled, Quiet
<1> HIDE DEF r
<1>6. /\ UNCHANGED <<phase, serial, ops, journal, exemptDb, exempt, inFlight, pending, checked, queue,
                     work, placed>>
      /\ disk' \in [Path -> Snap \cup {NONE}]
      /\ used' \in [edits : Nat, crashes : Nat, faults : Nat]
      /\ phase' \in [Proc -> {"down", "starting", "running"}]
  BY <1>2 DEF recOnly, dbVars, threadVars, TypeOK
<1>7. /\ rec' = [rec EXCEPT ![p] = r]
      /\ \A a \in r.todo : ops[a].status # "none"
      /\ r.op # NONE => ops[r.op].status # "none"
      /\ r.verdict # "none" => r.op # NONE
      /\ r.verdict \in {"rollback", "complete"} => r.dst \in Path /\ r.snap \in Snap
  BY <1>1, <1>2, <1>3, <1>4
<1>8. phase'[p] # "down" /\ phase' = phase
  BY <1>5, <1>6
<1>9. r \in Recovery
  BY <1>4
<1> HIDE DEF o
<1> QED
  BY <1>6, <1>7, <1>8, <1>9, RecStepTyped

\* A step that ends the reconciliation of p.
LEMMA EndRecTyped ==
  ASSUME TypeInv, NEW p \in Proc, NEW todo, todo \subseteq rec[p].todo, EndRec(p, todo),
         rec[p].op # NONE,
         UNCHANGED <<phase, serial, exempt, inFlight, pending, checked, queue, placed>>,
         ops' \in [Op -> OpRow], RowsFilled', Kept,
         journal' \in [Op -> Entry \cup {NONE}], exemptDb' \in [Path -> Snap \cup {NONE}],
         disk' \in [Path -> Snap \cup {NONE}],
         used' \in [edits : Nat, crashes : Nat, faults : Nat]
  PROVE  TypeInv'
<1> TypeOK /\ Filled
  BY DEF TypeInv
<1> DEFINE r == [NoRec EXCEPT !.todo = todo]
<1>1. rec \in [Proc -> Recovery] /\ rec[p].todo \in SUBSET Op /\ work \in [Proc -> Request]
  BY DEF TypeOK, Recovery
<1>2. rec' = [rec EXCEPT ![p] = r] /\ work' = [work EXCEPT ![p] = Idle]
  BY DEF EndRec
<1>3. r \in Recovery /\ r.todo = todo /\ r.op = NONE /\ r.verdict = "none"
  BY <1>1 DEF Recovery, NoRec
<1> HIDE DEF r
<1>4. rec' \in [Proc -> Recovery] /\ rec'[p] = r /\ \A q \in Proc \ {p} : rec'[q] = rec[q]
  BY <1>1, <1>2, <1>3
<1>5. work' \in [Proc -> Request] /\ work'[p] = Idle /\ \A q \in Proc \ {p} : work'[q] = work[q]
  BY <1>1, <1>2, IdleTyped
<1>6. TypeOK'
  BY <1>4, <1>5 DEF TypeOK
<1>7. WorkFilled'
  BY <1>5 DEF Filled, WorkFilled, Idle, Kept
<1>8. RecFilled'
  BY <1>1, <1>3, <1>4 DEF Filled, RecFilled, Kept, Recovery
<1>9. QueueFilled'
  <2> SUFFICES ASSUME NEW q \in Proc, NEW i \in 1..Len(queue[q])
               PROVE  ops'[queue[q][i]].status # "none"
    BY DEF QueueFilled
  <2> queue[q] \in Seq(Op) /\ queue[q][i] \in Op
    BY DEF TypeOK
  <2> QED
    BY DEF Filled, QueueFilled, Kept
<1>10. Quiet'
  <2> phase[p] # "down"
    BY DEF Filled, Quiet, NoRec
  <2> QED
    BY <1>4, <1>5 DEF Filled, Quiet
<1>11. CheckedFilled'
  BY DEF Filled, CheckedFilled
<1> QED
  BY <1>6, <1>7, <1>8, <1>9, <1>10, <1>11 DEF TypeInv, Filled

\* The reconciliation goes on to fail the row.
LEMMA FailNextTyped ==
  ASSUME TypeInv, NEW p \in Proc, rec[p].op # NONE,
         rec' = [rec EXCEPT ![p].verdict = "fail"],
         UNCHANGED <<phase, serial, ops, journal, exemptDb, exempt, inFlight, pending, checked, queue,
                     work, placed>>,
         disk' \in [Path -> Snap \cup {NONE}],
         used' \in [edits : Nat, crashes : Nat, faults : Nat]
  PROVE  TypeInv'
<1> TypeOK /\ Filled
  BY DEF TypeInv
<1> DEFINE r == [rec[p] EXCEPT !.verdict = "fail"]
<1>1. rec \in [Proc -> Recovery] /\ rec[p] \in Recovery /\ phase[p] # "down"
      /\ phase \in [Proc -> {"down", "starting", "running"}]
  BY DEF TypeOK, Filled, Quiet, NoRec
<1>2. rec' = [rec EXCEPT ![p] = r]
  OBVIOUS
<1>3. r \in Recovery /\ r.todo = rec[p].todo /\ r.op = rec[p].op /\ r.verdict = "fail"
  BY <1>1 DEF Recovery
<1>4. ops[rec[p].op].status # "none" /\ \A o \in rec[p].todo : ops[o].status # "none"
  BY DEF Filled, RecFilled
<1>5. /\ r.op # NONE /\ ops[r.op].status # "none" /\ \A o \in r.todo : ops[o].status # "none"
      /\ r.verdict \notin {"rollback", "complete"}
  BY <1>3, <1>4
<1>6. phase' \in [Proc -> {"down", "starting", "running"}] /\ phase'[p] # "down" /\ r \in Recovery
  BY <1>1, <1>3
<1> HIDE DEF r
<1> QED
  BY <1>2, <1>5, <1>6, RecStepTyped

LEMMA RemoveCopyTyped ==
  ASSUME TypeInv, NEW p \in Proc, RemoveCopy(p)
  PROVE  TypeInv'
<1> TypeOK /\ Filled
  BY DEF TypeInv
<1>1. rec[p].op # NONE /\ rec[p].dst \in Path
  BY DEF RemoveCopy, Filled, RecFilled
<1>2. disk' \in [Path -> Snap \cup {NONE}]
  <2> DEFINE d == rec[p].dst
  <2>1. disk \in [Path -> Snap \cup {NONE}] /\ d \in Path
    BY <1>1 DEF TypeOK
  <2>2. disk' = disk \/ disk' = [disk EXCEPT ![d] = NONE]
    BY DEF RemoveCopy
  <2> HIDE DEF d
  <2>3. CASE disk' = [disk EXCEPT ![d] = NONE]
    BY <2>1, <2>3
  <2> QED
    BY <2>1, <2>2, <2>3
<1>3. used' \in [edits : Nat, crashes : Nat, faults : Nat]
  <2>1. Fault \/ used' = used
    BY DEF RemoveCopy
  <2> QED
    BY <2>1, FaultTyped DEF TypeOK
<1>4. UNCHANGED <<serial, ops, journal, exemptDb, phase, exempt, inFlight, pending, checked, queue,
                  placed>>
  BY DEF RemoveCopy, dbVars, threadVars
<1>5. CASE rec' = [rec EXCEPT ![p].verdict = "fail"] /\ UNCHANGED work
  BY <1>1, <1>2, <1>3, <1>4, <1>5, FailNextTyped
<1>6. CASE EndRec(p, rec[p].todo)
  <2>1. /\ ops' \in [Op -> OpRow] /\ RowsFilled' /\ Kept
        /\ journal' \in [Op -> Entry \cup {NONE}] /\ exemptDb' \in [Path -> Snap \cup {NONE}]
    BY <1>4 DEF TypeOK, Filled, RowsFilled, Kept
  <2> QED
    BY <1>1, <1>2, <1>3, <1>4, <1>6, <2>1, EndRecTyped
<1> QED
  BY <1>5, <1>6 DEF RemoveCopy

LEMMA CloseReconciledTyped ==
  ASSUME TypeInv, NEW p \in Proc, CloseReconciled(p)
  PROVE  TypeInv'
<1> TypeOK /\ Filled
  BY DEF TypeInv
<1> DEFINE o == rec[p].op
<1>1. /\ o # NONE /\ o \in Op /\ rec[p].todo \in SUBSET Op
      /\ rec[p].verdict = "complete" => rec[p].dst \in Path /\ rec[p].snap \in Snap
  <2>1. rec[p] \in Recovery
    BY DEF TypeOK
  <2>2. rec[p].verdict \in {"fail", "complete"}
    BY DEF CloseReconciled
  <2> QED
    BY <2>1, <2>2 DEF Filled, RecFilled, Recovery
<1>2. used' \in [edits : Nat, crashes : Nat, faults : Nat]
  <2>1. Fault \/ used' = used
    BY DEF CloseReconciled
  <2> QED
    BY <2>1, FaultTyped DEF TypeOK
<1>3. UNCHANGED <<disk, serial, phase, exempt, inFlight, pending, checked, queue, placed>>
  BY DEF CloseReconciled, threadVars
<1>4. disk' \in [Path -> Snap \cup {NONE}]
  BY <1>3 DEF TypeOK
<1>5. CASE UNCHANGED dbVars
  <2>1. /\ ops' \in [Op -> OpRow] /\ RowsFilled' /\ Kept
        /\ journal' \in [Op -> Entry \cup {NONE}] /\ exemptDb' \in [Path -> Snap \cup {NONE}]
    BY <1>5 DEF dbVars, TypeOK, Filled, RowsFilled, Kept
  <2>2. CASE rec' = [rec EXCEPT ![p].verdict = "fail"] /\ UNCHANGED work
    BY <1>1, <1>2, <1>3, <1>4, <1>5, <2>2, FailNextTyped DEF dbVars
  <2>3. CASE \E todo \in {rec[p].todo, {}} : EndRec(p, todo)
    <3> PICK todo \in {rec[p].todo, {}} : EndRec(p, todo)
      BY <2>3
    <3> todo \subseteq rec[p].todo
      OBVIOUS
    <3> QED
      BY <1>1, <1>2, <1>3, <1>4, <2>1, EndRecTyped
  <2> QED
    BY <2>2, <2>3 DEF CloseReconciled
<1>6. CASE ~UNCHANGED dbVars
  <2>1. /\ EndRec(p, rec[p].todo)
        /\ \/ rec[p].verdict = "complete" /\ CloseRow(o, "completed", rec[p].dst, rec[p].snap)
           \/ CloseRow(o, "failed", NONE, NONE)
    BY <1>6 DEF CloseReconciled
  <2>2. {"completed", "failed"} \subseteq Terminal
    BY DEF Terminal, Statuses
  <2>3. /\ ops' \in [Op -> OpRow] /\ RowsFilled' /\ Kept
        /\ journal' \in [Op -> Entry \cup {NONE}] /\ exemptDb' \in [Path -> Snap \cup {NONE}]
    <3>1. CASE rec[p].verdict = "complete" /\ CloseRow(o, "completed", rec[p].dst, rec[p].snap)
      BY <1>1, <2>2, <3>1, CloseTyped
    <3>2. CASE CloseRow(o, "failed", NONE, NONE)
      BY <1>1, <2>2, <3>2, CloseTyped
    <3> QED
      BY <2>1, <3>1, <3>2
  <2> QED
    BY <1>1, <1>2, <1>3, <1>4, <2>1, <2>3, EndRecTyped
<1> QED
  BY <1>5, <1>6

LEMMA ReadyTyped ==
  ASSUME TypeInv, NEW p \in Proc, Ready(p)
  PROVE  TypeInv'
<1> TypeOK /\ Filled
  BY DEF TypeInv
<1>1. phase[p] = "starting" /\ rec[p] = NoRec /\ phase' = [phase EXCEPT ![p] = "running"]
  BY DEF Ready
<1>2. /\ phase' \in [Proc -> {"down", "starting", "running"}] /\ phase'[p] = "running"
      /\ \A q \in Proc \ {p} : phase'[q] = phase[q]
  BY <1>1 DEF TypeOK
<1>3. journal' \in [Op -> Entry \cup {NONE}]
  <2>1. journal \in [Op -> Entry \cup {NONE}]
    BY DEF TypeOK
  <2>2. journal' = journal \/ journal' = [o \in Op |-> IF ops[o].status = "started" THEN journal[o]
                                                       ELSE NONE]
    BY DEF Ready
  <2> QED
    BY <2>1, <2>2
<1>4. exempt' \in [Proc -> [Path -> Snap \cup {NONE}]]
  <2>1. \/ exempt' = [exempt EXCEPT ![p] = exemptDb]
        \/ exempt' = [exempt EXCEPT ![p] = [x \in Path |-> NONE]]
    BY DEF Ready, LoadedExemptions, NoExemptions
  <2>2. /\ exempt \in [Proc -> [Path -> Snap \cup {NONE}]]
        /\ exemptDb \in [Path -> Snap \cup {NONE}]
    BY DEF TypeOK
  <2> QED
    BY <2>1, <2>2
<1>5. /\ pending' \in [Proc -> [Watched -> Snap \cup {NONE}]]
      /\ \A q \in Proc \ {p} : pending'[q] = pending[q]
  <2> DEFINE n == [x \in Watched |-> disk[x]]
  <2>1. pending' = [pending EXCEPT ![p] = n] /\ pending \in [Proc -> [Watched -> Snap \cup {NONE}]]
    BY DEF Ready, TypeOK
  <2>2. n \in [Watched -> Snap \cup {NONE}]
    <3> disk \in [Path -> Snap \cup {NONE}] /\ Watched \subseteq Path
      BY MoveAssumption DEF TypeOK
    <3> QED
      OBVIOUS
  <2> HIDE DEF n
  <2> QED
    BY <2>1, <2>2
<1>6. UNCHANGED <<disk, serial, ops, exemptDb, inFlight, checked, queue, work, rec, placed>>
  BY DEF Ready
<1>12. used' \in [edits : Nat, crashes : Nat, faults : Nat]
  <2>1. Fault \/ used' = used
    BY DEF Ready
  <2> QED
    BY <2>1, FaultTyped DEF TypeOK
<1>7. TypeOK'
  BY <1>2, <1>3, <1>4, <1>5, <1>6, <1>12 DEF TypeOK
<1>8. checked[p] = NONE
  BY <1>1 DEF Filled, Quiet
<1>9. CheckedFilled'
  BY <1>5, <1>6, <1>8 DEF Filled, CheckedFilled
<1>10. Quiet'
  BY <1>2, <1>6 DEF Filled, Quiet
<1>11. RowsFilled' /\ WorkFilled' /\ QueueFilled' /\ RecFilled'
  BY <1>6 DEF Filled, RowsFilled, WorkFilled, QueueFilled, RecFilled
<1> QED
  BY <1>7, <1>9, <1>10, <1>11 DEF TypeInv, Filled

LEMMA CrashTyped ==
  ASSUME TypeInv, NEW p \in Proc, Crash(p)
  PROVE  TypeInv'
<1> TypeOK /\ Filled
  BY DEF TypeInv
<1>1. UNCHANGED <<disk, serial, journal, exemptDb, placed>>
  BY DEF Crash
<1>2. used' \in [edits : Nat, crashes : Nat, faults : Nat]
  <2>1. used \in [edits : Nat, crashes : Nat, faults : Nat]
    BY DEF TypeOK
  <2>2. used' = [used EXCEPT !.crashes = @ + 1]
    BY DEF Crash
  <2> QED
    BY <2>1, <2>2
<1>3. /\ phase' \in [Proc -> {"down", "starting", "running"}]
      /\ phase'[p] = "down" /\ \A q \in Proc \ {p} : phase'[q] = phase[q]
  <2> phase' = [phase EXCEPT ![p] = "down"]
    BY DEF Crash
  <2> QED
    BY DEF TypeOK
<1>4. ops' \in [Op -> OpRow] /\ RowsFilled' /\ Kept
  <2>1. ops \in [Op -> OpRow]
    BY DEF TypeOK
  <2>2. ops' = [o \in Op |-> IF ops[o].owner = p THEN [ops[o] EXCEPT !.owner = NONE] ELSE ops[o]]
    BY DEF Crash
  <2>3. ASSUME NEW o \in Op
        PROVE  /\ ops'[o] \in OpRow
               /\ ops[o].status = ops'[o].status
               /\ ops[o].status # "none" => RowFilled(ops'[o])
    <3>1. ops[o] \in OpRow /\ (ops[o].status # "none" => RowFilled(ops[o]))
      BY <2>1 DEF Filled, RowsFilled
    <3>2. ops'[o] = ops[o] \/ ops'[o] = [ops[o] EXCEPT !.owner = NONE]
      BY <2>2
    <3> QED
      BY <3>1, <3>2 DEF OpRow, RowFilled
  <2>4. ops' \in [Op -> OpRow]
    BY <2>2, <2>3
  <2> QED
    BY <2>3, <2>4 DEF RowsFilled, Kept
<1>5. exempt' \in [Proc -> [Path -> Snap \cup {NONE}]]
  <2> exempt' = [exempt EXCEPT ![p] = [x \in Path |-> NONE]]
    BY DEF Crash
  <2> QED
    BY DEF TypeOK
<1>6. inFlight' \in [Proc -> SUBSET Path]
  <2> inFlight' = [inFlight EXCEPT ![p] = {}]
    BY DEF Crash
  <2> QED
    BY DEF TypeOK
<1>7. /\ pending' \in [Proc -> [Watched -> Snap \cup {NONE}]]
      /\ \A q \in Proc \ {p} : pending'[q] = pending[q]
  <2> pending' = [pending EXCEPT ![p] = [x \in Watched |-> NONE]]
    BY DEF Crash
  <2> QED
    BY DEF TypeOK
<1>8. /\ checked' \in [Proc -> Watched \cup {NONE}] /\ checked'[p] = NONE
      /\ \A q \in Proc \ {p} : checked'[q] = checked[q]
  <2> checked' = [checked EXCEPT ![p] = NONE]
    BY DEF Crash
  <2> QED
    BY DEF TypeOK
<1>9. /\ queue' \in [Proc -> Seq(Op)] /\ queue'[p] = << >>
      /\ \A q \in Proc \ {p} : queue'[q] = queue[q]
  <2> queue' = [queue EXCEPT ![p] = << >>] /\ << >> \in Seq(Op)
    BY DEF Crash
  <2> QED
    BY DEF TypeOK
<1>10. /\ work' \in [Proc -> Request] /\ work'[p] = Idle
       /\ \A q \in Proc \ {p} : work'[q] = work[q]
  <2> work' = [work EXCEPT ![p] = Idle]
    BY DEF Crash
  <2> QED
    BY IdleTyped DEF TypeOK
<1>11. /\ rec' \in [Proc -> Recovery] /\ rec'[p] = NoRec
       /\ \A q \in Proc \ {p} : rec'[q] = rec[q]
  <2> rec' = [rec EXCEPT ![p] = NoRec]
    BY DEF Crash
  <2> QED
    BY IdleTyped DEF TypeOK
<1>12. TypeOK'
  BY <1>1, <1>2, <1>3, <1>4, <1>5, <1>6, <1>7, <1>8, <1>9, <1>10, <1>11 DEF TypeOK
<1>13. WorkFilled'
  BY <1>4, <1>10 DEF Filled, WorkFilled, Kept, Idle
<1>14. QueueFilled'
  <2> SUFFICES ASSUME NEW q \in Proc, NEW i \in 1..Len(queue'[q])
               PROVE  ops'[queue'[q][i]].status # "none"
    BY DEF QueueFilled
  <2>1. q # p
    BY <1>9
  <2>2. queue'[q] = queue[q] /\ queue[q] \in Seq(Op) /\ queue[q][i] \in Op
    BY <1>9, <2>1 DEF TypeOK
  <2> QED
    BY <1>4, <2>2 DEF Filled, QueueFilled, Kept
<1>15. RecFilled'
  <2> rec \in [Proc -> Recovery]
    BY DEF TypeOK
  <2> QED
    BY <1>4, <1>11 DEF Filled, RecFilled, Kept, NoRec, Recovery
<1>16. CheckedFilled'
  BY <1>7, <1>8 DEF Filled, CheckedFilled
<1>17. Quiet'
  <2> SUFFICES ASSUME NEW q \in Proc
               PROVE  /\ phase'[q] # "running" =>
                           checked'[q] = NONE /\ work'[q] = Idle /\ queue'[q] = << >>
                      /\ phase'[q] = "down" => rec'[q] = NoRec
    BY DEF Quiet
  <2>1. CASE q = p
    BY <2>1, <1>8, <1>9, <1>10, <1>11
  <2>2. CASE q # p
    BY <2>2, <1>3, <1>8, <1>9, <1>10, <1>11 DEF Filled, Quiet
  <2> QED
    BY <2>1, <2>2
<1> QED
  BY <1>4, <1>12, <1>13, <1>14, <1>15, <1>16, <1>17 DEF TypeInv, Filled

LEMMA InitTyped == Init => TypeInv
<1> SUFFICES ASSUME Init PROVE TypeInv
  OBVIOUS
<1>1. NoRow \in OpRow /\ Idle \in Request /\ NoRec \in Recovery
  BY IdleTyped DEF NoRow, OpRow, Statuses
<1>2. TypeOK
  <2> HIDE DEF NoRow, Idle, NoRec
  <2> << >> \in Seq(Op) /\ 0 \in Nat
    OBVIOUS
  <2> [edits |-> 0, crashes |-> 0, faults |-> 0] \in [edits : Nat, crashes : Nat, faults : Nat]
    OBVIOUS
  <2> QED
    BY <1>1 DEF Init, TypeOK
<1>3. RowsFilled /\ WorkFilled /\ QueueFilled
  BY DEF Init, RowsFilled, WorkFilled, QueueFilled, NoRow, Idle
<1>4. RecFilled /\ CheckedFilled /\ Quiet
  BY DEF Init, RecFilled, CheckedFilled, Quiet, NoRec
<1> QED
  BY <1>2, <1>3, <1>4 DEF TypeInv, Filled

LEMMA StepTyped == TypeInv /\ [Next]_vars => TypeInv'
<1> SUFFICES ASSUME TypeInv, [Next]_vars PROVE TypeInv'
  OBVIOUS
<1>1. CASE Users
  BY <1>1, UserTyped DEF Users
<1>2. ASSUME NEW p \in Proc, Organizer(p) PROVE TypeInv'
  BY <1>2, NoticeTyped, TakeStableTyped, DispatchTyped, RetryTyped, UndoTyped DEF Organizer
<1>3. ASSUME NEW p \in Proc, Worker(p) PROVE TypeInv'
  BY <1>3, TakeRequestTyped, MoveStepTyped, FinishTyped, ReleaseTyped DEF Worker, MoveStep
<1>4. ASSUME NEW p \in Proc, Reconciler(p) PROVE TypeInv'
  BY <1>4, PickTyped, LookTyped, RemoveCopyTyped, CloseReconciledTyped DEF Reconciler
<1>5. ASSUME NEW p \in Proc, Lifecycle(p) \/ Panic(p) \/ Crash(p) PROVE TypeInv'
  BY <1>5, StartTyped, ReadyTyped, PanicTyped, CrashTyped DEF Lifecycle
<1>6. CASE UNCHANGED vars
  BY <1>6 DEF vars, dbVars, threadVars, TypeInv, TypeOK, Filled, RowsFilled, WorkFilled,
              QueueFilled, RecFilled, CheckedFilled, Quiet
<1> QED
  BY <1>1, <1>2, <1>3, <1>4, <1>5, <1>6 DEF Next

LEMMA TypeInvariant == Spec => []TypeInv
<1> QED
  BY InitTyped, StepTyped, PTL DEF Spec

\* Every variable keeps its type: no step of a thread, a worker, a recovery
\* or a crash leaves a request with a missing path, identity or operation.
THEOREM MoveTypeOK == Spec => []TypeOK
<1>1. TypeInv => TypeOK
  BY DEF TypeInv
<1> QED
  BY <1>1, TypeInvariant, PTL

----------------------------------------------------------------------------
(* OrganizerMove implements OperationLedger: whatever processes, crashes   *)
(* and faults do to an operation, its row moves as the ledger allows, and  *)
(* what is proved of the ledger holds of the operations table.             *)

LP == INSTANCE OperationLedgerProofs WITH
  status <- [o \in Op |-> ops[o].status],
  kind <- [o \in Op |-> ops[o].kind],
  parent <- [o \in Op |-> ops[o].parent],
  undone <- {o \in Op : ops[o].undone}

LEMMA StutterHistory ==
  ASSUME SameColumns
  PROVE  UNCHANGED LP!vars
<1>1. [o \in Op |-> ops'[o].status] = [o \in Op |-> ops[o].status]
  BY DEF SameColumns
<1>2. [o \in Op |-> ops'[o].kind] = [o \in Op |-> ops[o].kind]
  BY DEF SameColumns
<1>3. [o \in Op |-> ops'[o].parent] = [o \in Op |-> ops[o].parent]
  BY DEF SameColumns
<1>4. {o \in Op : ops'[o].undone} = {o \in Op : ops[o].undone}
  BY DEF SameColumns
<1> QED
  BY <1>1, <1>2, <1>3, <1>4 DEF LP!vars

LEMMA InsertHistory ==
  ASSUME TypeInv, LP!UndoneExactlyOnce,
         NEW o \in Op, NEW p \in Proc \cup {NONE}, NEW k \in {"move", "retry", "undo"},
         NEW q \in Op \cup {NONE}, NEW st \in {"started", "skipped"},
         NEW src \in Path, NEW dst \in Path, NEW snap \in Snap,
         k = "undo" => q \in Op, k # "undo" => src \in Watched,
         InsertRow(o, p, k, q, st, src, dst, snap)
  PROVE  LP!Insert(o, k, q, st)
<1>1. /\ ops[o].status = "none"
      /\ \A a \in Op \ {o} : ops'[a] = ops[a]
      /\ ops'[o].status = st /\ ops'[o].kind = k /\ ops'[o].parent = q
      /\ ops'[o].undone = FALSE
  <2>1. ops \in [Op -> OpRow]
    BY DEF TypeInv, TypeOK
  <2> DEFINE row == [status |-> st, kind |-> k, parent |-> q, owner |-> p, src |-> src,
                     dst |-> dst, snap |-> snap, after |-> NONE, undone |-> FALSE]
  <2>2. ops' = [ops EXCEPT ![o] = row] /\ ops[o].status = "none"
    BY DEF InsertRow, FreeId, Rows
  <2>3. row.status = st /\ row.kind = k /\ row.parent = q /\ row.undone = FALSE
    OBVIOUS
  <2> HIDE DEF row
  <2> QED
    BY <2>1, <2>2, <2>3
<1>2. o \notin {a \in Op : ops[a].undone}
  BY <1>1 DEF LP!UndoneExactlyOnce
<1>3. {a \in Op : ops'[a].undone} = {a \in Op : ops[a].undone}
  BY <1>1, <1>2
<1>4. [a \in Op |-> ops'[a].status] = [[a \in Op |-> ops[a].status] EXCEPT ![o] = st]
  BY <1>1
<1>5. [a \in Op |-> ops'[a].kind] = [[a \in Op |-> ops[a].kind] EXCEPT ![o] = k]
  BY <1>1
<1>6. [a \in Op |-> ops'[a].parent] = [[a \in Op |-> ops[a].parent] EXCEPT ![o] = q]
  BY <1>1
<1> QED
  BY <1>1, <1>3, <1>4, <1>5, <1>6 DEF LP!Insert

LEMMA CloseHistory ==
  ASSUME TypeInv, LP!LedgerInv, NEW o \in Op, NEW st \in Terminal, NEW dst, NEW snap,
         CloseRow(o, st, dst, snap)
  PROVE  LP!Close(o, st) \/ SameColumns
<1>1. CASE ops[o].status # "started"
  BY <1>1 DEF CloseRow, dbVars, SameColumns
<1>2. CASE ops[o].status = "started"
  <2>1. ops' = Closed(o, st, dst, snap) /\ ops \in [Op -> OpRow]
    BY <1>2 DEF CloseRow, TypeInv, TypeOK
  <2>2. ops[o].kind = "undo" => /\ ops[o].parent \in Op /\ ops[o].parent # o
    BY <1>2 DEF LP!LedgerInv, LP!UndoOfCompleted
  <2>3. /\ ops'[o].status = st /\ ops'[o].kind = ops[o].kind /\ ops'[o].parent = ops[o].parent
        /\ ops'[o].undone = ops[o].undone
    <3>1. ops'[o] = [ops[o] EXCEPT !.status = st,
                                   !.dst = IF st = "completed" THEN dst ELSE @,
                                   !.after = IF st = "completed" THEN snap ELSE @]
      BY <2>1 DEF Closed
    <3> QED
      BY <2>1, <3>1 DEF OpRow
  <2> DEFINE marks(a) == st = "completed" /\ ops[o].kind = "undo" /\ a = ops[o].parent
  <2>4. ASSUME NEW a \in Op, a # o
        PROVE  /\ ops'[a].status = ops[a].status /\ ops'[a].kind = ops[a].kind
               /\ ops'[a].parent = ops[a].parent
               /\ marks(a) => ops'[a].undone = TRUE
               /\ ~marks(a) => ops'[a].undone = ops[a].undone
    <3>1. ops'[a] = IF marks(a) THEN [ops[a] EXCEPT !.undone = TRUE] ELSE ops[a]
      BY <2>1, <2>4 DEF Closed
    <3>2. CASE marks(a)
      <4>1. ops'[a] = [ops[a] EXCEPT !.undone = TRUE]
        BY <3>1, <3>2
      <4>2. ops[a] \in OpRow
        BY <2>1
      <4> QED
        BY <3>2, <4>1, <4>2 DEF OpRow
    <3>3. CASE ~marks(a)
      BY <3>1, <3>3
    <3> QED
      BY <3>2, <3>3
  <2>5. [a \in Op |-> ops'[a].status] = [[a \in Op |-> ops[a].status] EXCEPT ![o] = st]
    BY <2>3, <2>4
  <2>6. /\ [a \in Op |-> ops'[a].kind] = [a \in Op |-> ops[a].kind]
        /\ [a \in Op |-> ops'[a].parent] = [a \in Op |-> ops[a].parent]
    BY <2>3, <2>4
  <2>7. CASE st = "completed" /\ ops[o].kind = "undo"
    <3>1. {a \in Op : ops'[a].undone} = {a \in Op : ops[a].undone} \cup {ops[o].parent}
      BY <2>2, <2>3, <2>4, <2>7
    <3> QED
      BY <1>2, <2>5, <2>6, <2>7, <3>1 DEF LP!Close
  <2>8. CASE ~(st = "completed" /\ ops[o].kind = "undo")
    <3>1. {a \in Op : ops'[a].undone} = {a \in Op : ops[a].undone}
      BY <2>3, <2>4, <2>8
    <3> QED
      BY <1>2, <2>5, <2>6, <2>8, <3>1 DEF LP!Close
  <2> QED
    BY <2>7, <2>8
<1> QED
  BY <1>1, <1>2

\* The database side of a step: a new row, a closed row, or no row.
LEMMA DispatchHistory ==
  ASSUME TypeInv, LP!LedgerInv, NEW p \in Proc, Dispatch(p)
  PROVE  LP!Next \/ SameColumns
<1> DEFINE x == checked[p]
           snap == pending[p][x]
<1> TypeOK /\ Filled
  BY DEF TypeInv
<1>1. x \in Watched /\ snap \in Snap /\ x \in Path /\ Home[x] \in Path
  BY MoveAssumption DEF Dispatch, Filled, CheckedFilled, TypeOK
<1>2. \/ ops' = ops
      \/ \E o \in Op, st \in {"started", "skipped"} :
           InsertRow(o, p, "move", NONE, st, x, Home[x], snap)
  BY DEF Dispatch, KeepPending, dbVars
<1>3. CASE ops' = ops
  BY <1>3 DEF SameColumns
<1>4. ASSUME NEW o \in Op, NEW st \in {"started", "skipped"},
             InsertRow(o, p, "move", NONE, st, x, Home[x], snap)
      PROVE  LP!Next
  <2>1. LP!Insert(o, "move", NONE, st)
    BY <1>1, <1>4, InsertHistory DEF LP!LedgerInv
  <2>2. LP!OpenMove(o)
    BY <2>1 DEF LP!OpenMove
  <2> QED
    BY <2>2 DEF LP!Next
<1> QED
  BY <1>2, <1>3, <1>4

LEMMA RetryHistory ==
  ASSUME TypeInv, LP!LedgerInv, NEW p \in Proc, NEW q \in Op, RetryOperation(p, q)
  PROVE  LP!Next
<1> TypeOK /\ Filled
  BY DEF TypeInv
<1>1. /\ ops[q].src \in Watched /\ ops[q].src \in Path /\ Home[ops[q].src] \in Path
      /\ ops[q].snap \in Snap
  BY MoveAssumption DEF RetryOperation, Filled, RowsFilled, RowFilled
<1> PICK o \in Op :
       InsertRow(o, p, "retry", q, "started", ops[q].src, Home[ops[q].src], ops[q].snap)
  BY DEF RetryOperation
<1>2. LP!Insert(o, "retry", q, "started")
  BY <1>1, InsertHistory DEF LP!LedgerInv
<1>3. LP!OpenRetry(o, q)
  BY <1>2 DEF LP!OpenRetry, LP!Children, Children, RetryOperation
<1> QED
  BY <1>3 DEF LP!Next

LEMMA UndoHistory ==
  ASSUME TypeInv, LP!LedgerInv, NEW p \in Proc, NEW q \in Op, UndoOperation(p, q)
  PROVE  LP!Next
<1> TypeOK /\ Filled
  BY DEF TypeInv
<1>1. ops[q].src \in Path /\ ops[q].dst \in Path /\ ops[q].after \in Snap
  BY DEF UndoOperation, Filled, RowsFilled, RowFilled
<1> PICK o \in Op : InsertRow(o, p, "undo", q, "started", ops[q].dst, ops[q].src, ops[q].after)
  BY DEF UndoOperation
<1>2. LP!Insert(o, "undo", q, "started")
  BY <1>1, InsertHistory DEF LP!LedgerInv
<1>3. LP!OpenUndo(o, q)
  BY <1>2 DEF LP!OpenUndo, LP!Children, Children, UndoOperation
<1> QED
  BY <1>3 DEF LP!Next

LEMMA ClosedHistory ==
  ASSUME TypeInv, LP!LedgerInv, NEW p \in Proc, Finish(p) \/ CloseReconciled(p)
  PROVE  LP!Next \/ SameColumns
<1> TypeOK /\ Filled
  BY DEF TypeInv
<1>1. CASE UNCHANGED dbVars
  BY <1>1 DEF dbVars, SameColumns
<1>2. ASSUME NEW o \in Op, NEW st \in Terminal, NEW d, NEW s, CloseRow(o, st, d, s)
      PROVE  LP!Next \/ SameColumns
  <2>1. LP!Close(o, st) \/ SameColumns
    BY <1>2, CloseHistory
  <2>2. st \in LP!Terminal
    BY DEF LP!Terminal, Terminal, Statuses
  <2> QED
    BY <2>1, <2>2 DEF LP!Next
<1>3. CASE Finish(p)
  <2>1. work[p].op \in Op /\ work[p].result \in Terminal
    BY <1>3, WorkerRunning DEF Finish, At
  <2>2. CloseRow(work[p].op, work[p].result, work[p].target, work[p].snap) \/ UNCHANGED dbVars
    BY <1>3 DEF Finish, Cur
  <2> QED
    BY <1>1, <1>2, <2>1, <2>2
<1>4. CASE CloseReconciled(p)
  <2>1. rec[p].op \in Op
    <3>1. rec[p] \in Recovery
      BY DEF TypeOK
    <3> QED
      BY <1>4, <3>1 DEF CloseReconciled, Filled, RecFilled, Recovery
  <2>2. \/ UNCHANGED dbVars
        \/ CloseRow(rec[p].op, "completed", rec[p].dst, rec[p].snap)
        \/ CloseRow(rec[p].op, "failed", NONE, NONE)
    BY <1>4 DEF CloseReconciled
  <2>3. {"completed", "failed"} \subseteq Terminal
    BY DEF Terminal, Statuses
  <2> QED
    BY <1>1, <1>2, <2>1, <2>2, <2>3
<1> QED
  BY <1>3, <1>4

LEMMA CrashHistory ==
  ASSUME TypeInv, NEW p \in Proc, Crash(p)
  PROVE  SameColumns
<1>1. ops \in [Op -> OpRow]
  BY DEF TypeInv, TypeOK
<1>2. ops' = [o \in Op |-> IF ops[o].owner = p THEN [ops[o] EXCEPT !.owner = NONE] ELSE ops[o]]
  BY DEF Crash
<1> SUFFICES ASSUME NEW o \in Op
             PROVE  /\ ops'[o].status = ops[o].status /\ ops'[o].kind = ops[o].kind
                    /\ ops'[o].parent = ops[o].parent /\ ops'[o].undone = ops[o].undone
  BY DEF SameColumns
<1>3. ops'[o] = ops[o] \/ ops'[o] = [ops[o] EXCEPT !.owner = NONE]
  BY <1>2
<1>4. ops[o] \in OpRow
  BY <1>1
<1> QED
  BY <1>3, <1>4 DEF OpRow

\* All other steps leave the operations table alone.
LEMMA OtherHistory ==
  ASSUME NEW p \in Proc,
         \/ \E x \in Watched : Notice(p, x) \/ TakeStable(p, x)
         \/ TakeRequest(p) \/ MoveStep(p) \/ Release(p) \/ Panic(p)
         \/ \E o \in Op : PickInterrupted(p, o)
         \/ Look(p) \/ RemoveCopy(p) \/ Start(p) \/ Ready(p)
  PROVE  SameColumns
<1>1. ops' = ops
  BY DEF Notice, TakeStable, TakeRequest, MoveStep, CheckMove, RecheckActivation, LockAndJournal,
         RenameInVolume, CopyAndJournal, PublishCopy, DeleteSource, ExemptRestored, Release, Panic,
         PickInterrupted, Look, RemoveCopy, Start, Ready, workOnly, recOnly, dbVars
<1> QED
  BY Zenon, <1>1 DEF SameColumns

LEMMA StepHistory ==
  ASSUME TypeInv, LP!LedgerInv, [Next]_vars
  PROVE  [LP!Next]_(LP!vars)
<1>1. CASE Users
  <2> ops' = ops
    BY <1>1 DEF Users, UserWrite, UserDelete, dbVars
  <2> SameColumns
    BY DEF SameColumns
  <2> QED
    BY StutterHistory
<1>2. ASSUME NEW p \in Proc,
             Organizer(p) \/ Worker(p) \/ Reconciler(p) \/ Lifecycle(p) \/ Panic(p) \/ Crash(p)
      PROVE  [LP!Next]_(LP!vars)
  <2>1. LP!Next \/ SameColumns
    BY <1>2, DispatchHistory, RetryHistory, UndoHistory, ClosedHistory, CrashHistory, OtherHistory
       DEF Organizer, Worker, Reconciler, Lifecycle, MoveStep
  <2> QED
    BY <2>1, StutterHistory
<1>3. CASE UNCHANGED vars
  <2> SameColumns
    BY <1>3 DEF vars, dbVars, SameColumns
  <2> QED
    BY StutterHistory
<1> QED
  BY <1>1, <1>2, <1>3 DEF Next

LEMMA InitHistory == Init => LP!Init
  BY DEF Init, LP!Init, NoRow

LEMMA HistoryInvariant == Spec => [](TypeInv /\ LP!LedgerInv)
<1> DEFINE Inv == TypeInv /\ LP!LedgerInv
<1>1. Init => Inv
  BY InitTyped, InitHistory, LP!LedgerInit
<1>2. Inv /\ [Next]_vars => Inv'
  BY StepTyped, StepHistory, LP!LedgerStep
<1> QED
  BY <1>1, <1>2, PTL DEF Spec

\* The operations table follows OperationLedger: each row is opened once
\* under the guards of its kind and closed once, and undone_at is set by the
\* step that completes the undo, over all processes, crashes and faults.
THEOREM MoveImplementsLedger == Spec => ImplementsLedger
<1>1. TypeInv /\ LP!LedgerInv /\ [Next]_vars => [Ledger!Next]_(Ledger!vars)
  <2>1. LP!Next => Ledger!Next
    BY Zenon DEF LP!Next, LP!OpenMove, LP!OpenRetry, LP!OpenUndo, LP!Close, LP!Insert, LP!Children,
           Ledger!Next, Ledger!OpenMove, Ledger!OpenRetry, Ledger!OpenUndo, Ledger!Close,
           Ledger!Insert, Ledger!Children, LP!Terminal, Ledger!Terminal
  <2>2. UNCHANGED LP!vars => UNCHANGED Ledger!vars
    BY DEF LP!vars, Ledger!vars
  <2> QED
    BY Zenon, <2>1, <2>2, StepHistory
<1>2. Init => Ledger!Init
  BY InitHistory DEF LP!Init, Ledger!Init
<1> QED
  BY <1>1, <1>2, HistoryInvariant, PTL DEF Spec, ImplementsLedger, Ledger!Spec

\* What holds of every ledger holds of the operations table.
THEOREM MoveUndoneExactlyOnce == Spec => []UndoneExactlyOnce
<1>1. LP!LedgerInv => UndoneExactlyOnce
  BY DEF LP!LedgerInv, LP!UndoneExactlyOnce, UndoneExactlyOnce, Ledger!UndoneExactlyOnce,
         LP!Children, Ledger!Children
<1> QED
  BY <1>1, HistoryInvariant, PTL

----------------------------------------------------------------------------
(* JournalAheadOfMove, for every instance of OrganizerMove: when a file    *)
(* has appeared at a target, the journal already names it.                 *)

(* The second invariant: a live request belongs to one process, and no     *)
(* reconciliation ever holds the operation of another live worker.  The    *)
(* third: the journal row is written, and current, before a file appears   *)
(* at a target.                                                            *)

\* The members of a queue are operations.
LEMMA QueueMember ==
  ASSUME TypeInv, NEW p \in Proc, NEW i \in 1..Len(queue[p])
  PROVE  queue[p][i] \in Op /\ ops[queue[p][i]].status # "none"
<1> queue[p] \in Seq(Op)
  BY DEF TypeInv, TypeOK
<1> QED
  BY DEF TypeInv, Filled, QueueFilled

\* A process that is not running has no requests.
LEMMA QuietQueue ==
  ASSUME TypeInv, NEW p \in Proc, phase[p] # "running"
  PROVE  work[p].pc = "idle" /\ 1..Len(queue[p]) = {}
<1> queue[p] = << >> /\ work[p] = Idle
  BY DEF TypeInv, Filled, Quiet
<1> QED
  BY DEF Idle

\* The live operation of p is in no other process's hands.
LEMMA OnlyMine ==
  ASSUME MoveInv, NEW p \in Proc, NEW q \in Proc, p # q, work[p].pc # "idle"
  PROVE  /\ work[q].pc # "idle" => work[q].op # work[p].op
         /\ \A i \in 1..Len(queue[q]) : queue[q][i] # work[p].op
         /\ \A i \in 1..Len(queue[p]) : queue[p][i] # work[p].op
         /\ rec[q].op # work[p].op
<1>1. ops[work[p].op].owner = p /\ work[p].op \in Op /\ work[p].op # NONE /\ p # NONE
  BY MoveAssumption, WorkerRunning DEF MoveInv, Owned, RequestsOwned
<1>2. work[q].pc # "idle" => work[q].op # work[p].op
  BY <1>1 DEF MoveInv, Owned, RequestsOwned
<1>3. \A i \in 1..Len(queue[q]) : queue[q][i] # work[p].op
  BY <1>1 DEF MoveInv, Owned, RequestsOwned
<1>4. \A i \in 1..Len(queue[p]) : queue[p][i] # work[p].op
  BY DEF MoveInv, Owned, RequestsDistinct
<1>5. rec[q].op # work[p].op
  BY <1>1, <1>2 DEF MoveInv, Owned, RecoveryOwned
<1> QED
  BY <1>2, <1>3, <1>4, <1>5

----------------------------------------------------------------------------
(* Steps that leave the requests alone.                                    *)

LEMMA FrameOwned ==
  ASSUME MoveInv, RowsKept, UNCHANGED <<phase, queue, work, rec>>
  PROVE  Owned'
<1> TypeInv /\ Owned
  BY DEF MoveInv
<1>1. \A p \in Proc : work[p].pc # "idle" => work[p].op \in Op /\ ops[work[p].op].status # "none"
  BY WorkerRunning
<1>2. \A p \in Proc : \A i \in 1..Len(queue[p]) :
        queue[p][i] \in Op /\ ops[queue[p][i]].status # "none"
  BY QueueMember
<1>3. \A p \in Proc : rec[p].op # NONE => rec[p].op \in Op /\ ops[rec[p].op].status # "none"
  <2> rec \in [Proc -> Recovery]
    BY DEF TypeInv, TypeOK
  <2> QED
    BY DEF TypeInv, Filled, RecFilled, Recovery
<1>4. RequestsOwned' /\ RequestsDistinct'
  BY <1>1, <1>2 DEF RowsKept, Owned, RequestsOwned, RequestsDistinct
<1>5. RequestsStarted'
  BY <1>1, <1>2 DEF RowsKept, Owned, RequestsStarted
<1>6. RecoveryOwned'
  BY <1>3 DEF RowsKept, Owned, RecoveryOwned
<1> QED
  BY <1>4, <1>5, <1>6 DEF Owned

LEMMA FrameJournal ==
  ASSUME MoveInv, RowsKept, UNCHANGED <<journal, placed, queue, work>>
  PROVE  JournalInv'
<1> TypeInv /\ JournalInv
  BY DEF MoveInv
<1>1. \A p \in Proc : work[p].pc # "idle" => work[p].op \in Op /\ ops[work[p].op].status # "none"
  BY WorkerRunning
<1>2. NothingPlacedYet'
  BY DEF RowsKept, JournalInv, NothingPlacedYet
<1>3. JournalCurrent'
  BY <1>1 DEF RowsKept, JournalInv, JournalCurrent
<1>4. JournalAheadOfMove'
  BY DEF RowsKept, JournalInv, NothingPlacedYet, JournalAheadOfMove
<1> QED
  BY <1>2, <1>3, <1>4 DEF JournalInv

LEMMA InsertNew ==
  ASSUME TypeInv, NEW o \in Op, NEW p \in Proc, NEW k \in {"move", "retry", "undo"},
         NEW q \in Op \cup {NONE}, NEW st \in {"started", "skipped"},
         NEW src \in Path, NEW dst \in Path, NEW snap \in Snap,
         k = "undo" => q \in Op, k # "undo" => src \in Watched,
         InsertRow(o, p, k, q, st, src, dst, snap)
  PROVE  NewRow(p, o) /\ ops'[o].status = st /\ RowsKept
<1>1. /\ ops[o].status = "none"
      /\ \A a \in Op \ {o} : ops'[a] = ops[a]
      /\ ops'[o].status = st /\ ops'[o].owner = p
  BY InsertTyped
<1> QED
  BY <1>1 DEF NewRow, RowsKept

LEMMA SubmitInv ==
  ASSUME MoveInv, NEW p \in Proc, NEW o \in Op, NewRow(p, o), ops'[o].status = "started", RowsKept,
         Submit(p, o), UNCHANGED <<phase, work, rec, journal, placed>>
  PROVE  Owned' /\ JournalInv'
<1> TypeInv /\ Owned /\ JournalInv
  BY DEF MoveInv
<1>1. \A q \in Proc : work[q].pc # "idle" =>
        work[q].op \in Op \ {o} /\ ops[work[q].op].status # "none"
  BY WorkerRunning DEF NewRow
<1>2. \A q \in Proc : \A i \in 1..Len(queue[q]) :
        queue[q][i] \in Op \ {o} /\ ops[queue[q][i]].status # "none"
  BY QueueMember DEF NewRow
<1>3. /\ Len(queue[p]) \in Nat /\ Len(queue'[p]) = Len(queue[p]) + 1
      /\ queue'[p][Len(queue[p]) + 1] = o
      /\ \A i \in 1..Len(queue[p]) : queue'[p][i] = queue[p][i]
      /\ \A q \in Proc \ {p} : queue'[q] = queue[q]
  <2>1. queue \in [Proc -> Seq(Op)] /\ queue' = [queue EXCEPT ![p] = Append(@, o)]
    BY DEF Submit, TypeInv, TypeOK
  <2>2. queue'[p] = Append(queue[p], o) /\ queue[p] \in Seq(Op)
        /\ \A q \in Proc \ {p} : queue'[q] = queue[q]
    BY <2>1
  <2> QED
    BY <2>2
<1>4. \A q \in Proc : \A i \in 1..Len(queue'[q]) :
        \/ q = p /\ i = Len(queue[p]) + 1 /\ queue'[q][i] = o
        \/ i \in 1..Len(queue[q]) /\ queue'[q][i] = queue[q][i]
  BY <1>3
<1>5. RequestsOwned'
  BY <1>1, <1>2, <1>4 DEF RowsKept, NewRow, Owned, RequestsOwned
<1>6. RequestsDistinct'
  <2> SUFFICES ASSUME NEW q \in Proc, NEW i \in 1..Len(queue'[q])
               PROVE  /\ work[q].pc # "idle" => queue'[q][i] # work[q].op
                      /\ \A j \in 1..Len(queue'[q]) : queue'[q][i] = queue'[q][j] => i = j
    BY DEF RequestsDistinct
  <2>1. work[q].pc # "idle" => queue'[q][i] # work[q].op
    BY <1>1, <1>4 DEF Owned, RequestsDistinct
  <2>2. ASSUME NEW j \in 1..Len(queue'[q]), queue'[q][i] = queue'[q][j] PROVE i = j
    <3>1. CASE i \in 1..Len(queue[q]) /\ queue'[q][i] = queue[q][i]
      <4>1. queue'[q][j] # o
        BY <1>2, <2>2, <3>1
      <4>2. j \in 1..Len(queue[q]) /\ queue'[q][j] = queue[q][j]
        BY <1>4, <4>1
      <4> QED
        BY <2>2, <3>1, <4>2 DEF Owned, RequestsDistinct
    <3>2. CASE q = p /\ i = Len(queue[p]) + 1 /\ queue'[q][i] = o
      <4>1. ~(j \in 1..Len(queue[q]) /\ queue'[q][j] = queue[q][j])
        BY <1>2, <2>2, <3>2
      <4> QED
        BY <1>4, <3>2, <4>1
    <3> QED
      BY <1>4, <3>1, <3>2
  <2> QED
    BY <2>1, <2>2
<1>7. RequestsStarted'
  <2>1. \A q \in Proc : work[q].pc \notin {"idle", "release", "recover"} =>
          ops'[work[q].op].status = "started"
    BY <1>1 DEF RowsKept, Owned, RequestsStarted
  <2>2. \A q \in Proc : \A i \in 1..Len(queue[q]) : ops'[queue[q][i]].status = "started"
    BY <1>2 DEF RowsKept, Owned, RequestsStarted
  <2>3. \A q \in Proc : \A i \in 1..Len(queue'[q]) : ops'[queue'[q][i]].status = "started"
    BY <1>4, <2>2
  <2> QED
    BY <2>1, <2>3 DEF RequestsStarted
<1>8. RecoveryOwned'
  <2>1. \A q \in Proc : rec[q].op # NONE => rec[q].op \in Op /\ ops[rec[q].op].status # "none"
    <3> rec \in [Proc -> Recovery]
      BY DEF TypeInv, TypeOK
    <3> QED
      BY DEF TypeInv, Filled, RecFilled, Recovery
  <2> QED
    BY <2>1 DEF RowsKept, Owned, RecoveryOwned
<1>9. NothingPlacedYet'
  BY <1>1, <1>2, <1>4 DEF RowsKept, NewRow, JournalInv, NothingPlacedYet
<1>10. JournalCurrent'
  BY <1>1 DEF RowsKept, JournalInv, JournalCurrent
<1>11. JournalAheadOfMove'
  BY DEF RowsKept, NewRow, JournalInv, NothingPlacedYet, JournalAheadOfMove
<1> QED
  BY <1>5, <1>6, <1>7, <1>8, <1>9, <1>10, <1>11 DEF Owned, JournalInv

LEMMA OrganizerInv ==
  ASSUME MoveInv, NEW p \in Proc, Organizer(p)
  PROVE  Owned' /\ JournalInv'
<1> TypeInv /\ TypeOK /\ Filled
  BY DEF MoveInv, TypeInv
<1>1. CASE \E x \in Watched : Notice(p, x) \/ TakeStable(p, x)
  <2> UNCHANGED <<ops, journal, placed, phase, queue, work, rec>>
    BY <1>1 DEF Notice, TakeStable, dbVars
  <2> RowsKept
    BY DEF RowsKept
  <2> QED
    BY FrameOwned, FrameJournal
<1>2. CASE Dispatch(p)
  <2> DEFINE x == checked[p]
             snap == pending[p][x]
  <2>1. x \in Watched /\ snap \in Snap /\ x \in Path /\ Home[x] \in Path
    BY <1>2, MoveAssumption DEF Dispatch, Filled, CheckedFilled, TypeOK
  <2>2. UNCHANGED <<journal, placed, phase, work, rec>>
    BY <1>2 DEF Dispatch, KeepPending, dbVars
  <2>3. \/ UNCHANGED <<ops, queue>>
        \/ \E o \in Op : InsertRow(o, p, "move", NONE, "skipped", x, Home[x], snap)
                         /\ UNCHANGED queue
        \/ \E o \in Op : InsertRow(o, p, "move", NONE, "started", x, Home[x], snap)
                         /\ Submit(p, o)
    BY <1>2 DEF Dispatch, KeepPending, dbVars
  <2>4. CASE UNCHANGED <<ops, queue>>
    <3> RowsKept
      BY <2>4 DEF RowsKept
    <3> QED
      BY <2>2, <2>4, FrameOwned, FrameJournal
  <2>5. ASSUME NEW o \in Op, NEW st \in {"started", "skipped"},
               InsertRow(o, p, "move", NONE, st, x, Home[x], snap)
        PROVE  NewRow(p, o) /\ ops'[o].status = st /\ RowsKept
    BY <2>1, <2>5, InsertNew
  <2>6. CASE \E o \in Op : InsertRow(o, p, "move", NONE, "skipped", x, Home[x], snap)
                           /\ UNCHANGED queue
    <3> RowsKept
      BY <2>5, <2>6
    <3> QED
      BY <2>2, <2>6, FrameOwned, FrameJournal
  <2>7. CASE \E o \in Op : InsertRow(o, p, "move", NONE, "started", x, Home[x], snap)
                           /\ Submit(p, o)
    <3> PICK o \in Op : InsertRow(o, p, "move", NONE, "started", x, Home[x], snap)
                        /\ Submit(p, o)
      BY <2>7
    <3> NewRow(p, o) /\ ops'[o].status = "started" /\ RowsKept
      BY <2>5
    <3> QED
      BY <2>2, SubmitInv
  <2> QED
    BY <2>3, <2>4, <2>6, <2>7
<1>3. ASSUME NEW q \in Op, RetryOperation(p, q) PROVE Owned' /\ JournalInv'
  <2>1. /\ ops[q].src \in Watched /\ ops[q].src \in Path /\ Home[ops[q].src] \in Path
        /\ ops[q].snap \in Snap
    BY <1>3, MoveAssumption DEF RetryOperation, Filled, RowsFilled, RowFilled
  <2> PICK o \in Op :
        /\ InsertRow(o, p, "retry", q, "started", ops[q].src, Home[ops[q].src], ops[q].snap)
        /\ Submit(p, o)
    BY <1>3 DEF RetryOperation
  <2>2. NewRow(p, o) /\ ops'[o].status = "started" /\ RowsKept
    BY <2>1, InsertNew
  <2>3. UNCHANGED <<phase, work, rec, journal, placed>>
    BY <1>3 DEF RetryOperation
  <2> QED
    BY <2>2, <2>3, SubmitInv
<1>4. ASSUME NEW q \in Op, UndoOperation(p, q) PROVE Owned' /\ JournalInv'
  <2>1. ops[q].src \in Path /\ ops[q].dst \in Path /\ ops[q].after \in Snap
    BY <1>4 DEF UndoOperation, Filled, RowsFilled, RowFilled
  <2> PICK o \in Op :
        /\ InsertRow(o, p, "undo", q, "started", ops[q].dst, ops[q].src, ops[q].after)
        /\ Submit(p, o)
    BY <1>4 DEF UndoOperation
  <2>2. NewRow(p, o) /\ ops'[o].status = "started" /\ RowsKept
    BY <2>1, InsertNew
  <2>3. UNCHANGED <<phase, work, rec, journal, placed>>
    BY <1>4 DEF UndoOperation
  <2> QED
    BY <2>2, <2>3, SubmitInv
<1> QED
  BY <1>1, <1>2, <1>3, <1>4 DEF Organizer

----------------------------------------------------------------------------
(* Steps of the worker.                                                    *)

LEMMA TakeRequestInv ==
  ASSUME MoveInv, NEW p \in Proc, TakeRequest(p)
  PROVE  Owned' /\ JournalInv'
<1> TypeInv /\ Owned /\ JournalInv /\ TypeOK
  BY DEF MoveInv, TypeInv
<1> DEFINE o == Head(queue[p])
<1>1. queue[p] \in Seq(Op) /\ queue[p] # << >> /\ work[p].pc = "idle" /\ phase[p] = "running"
  BY DEF TypeOK, TakeRequest, At, Running
<1>2. /\ Len(queue[p]) \in Nat /\ 1 \in 1..Len(queue[p]) /\ o = queue[p][1] /\ o \in Op
      /\ Len(Tail(queue[p])) = Len(queue[p]) - 1
      /\ \A i \in 1..Len(Tail(queue[p])) : Tail(queue[p])[i] = queue[p][i + 1]
  BY <1>1
<1>3. UNCHANGED <<ops, journal, placed, phase, rec>>
  BY DEF TakeRequest, dbVars
<1>4. /\ work'[p].pc = "check" /\ work'[p].op = o
      /\ \A q \in Proc \ {p} : work'[q] = work[q]
  <2> DEFINE w == [pc |-> "check", op |-> o, target |-> ops[o].dst, snap |-> ops[o].snap,
                   result |-> "none"]
  <2>1. work' = [work EXCEPT ![p] = w] /\ work \in [Proc -> Request]
    BY DEF TakeRequest, TypeOK
  <2>2. w.pc = "check" /\ w.op = o
    OBVIOUS
  <2> HIDE DEF w
  <2> QED
    BY <2>1, <2>2
<1>5. queue'[p] = Tail(queue[p]) /\ \A q \in Proc \ {p} : queue'[q] = queue[q]
  <2> DEFINE rest == Tail(queue[p])
  <2>1. queue' = [queue EXCEPT ![p] = rest] /\ queue \in [Proc -> Seq(Op)]
    BY DEF TakeRequest, TypeOK
  <2> HIDE DEF rest
  <2>2. queue'[p] = rest /\ \A q \in Proc \ {p} : queue'[q] = queue[q]
    BY <2>1
  <2> QED
    BY <2>2 DEF rest
<1> HIDE DEF o
<1>6. \A i \in 1..Len(queue'[p]) : i + 1 \in 1..Len(queue[p]) /\ queue'[p][i] = queue[p][i + 1]
  BY <1>2, <1>5
<1>7. ops[o].owner = p /\ ops[o].status = "started" /\ placed[o] = NONE
  BY <1>2 DEF Owned, RequestsOwned, RequestsStarted, JournalInv, NothingPlacedYet
<1> DEFINE Old(q, i) == \E j \in 1..Len(queue[q]) : queue'[q][i] = queue[q][j]
<1>a. \A q \in Proc : \A i \in 1..Len(queue'[q]) : Old(q, i)
  BY <1>5, <1>6
<1>8. RequestsOwned'
  <2>1. \A q \in Proc : work'[q].pc # "idle" => ops[work'[q].op].owner = q
    BY <1>4, <1>7 DEF Owned, RequestsOwned
  <2>2. \A q \in Proc : \A i \in 1..Len(queue'[q]) : ops[queue'[q][i]].owner = q
    BY <1>a DEF Owned, RequestsOwned
  <2> QED
    BY <1>3, <2>1, <2>2 DEF RequestsOwned
<1>9. RequestsDistinct'
  <2> SUFFICES ASSUME NEW q \in Proc, NEW i \in 1..Len(queue'[q])
               PROVE  /\ work'[q].pc # "idle" => queue'[q][i] # work'[q].op
                      /\ \A j \in 1..Len(queue'[q]) : queue'[q][i] = queue'[q][j] => i = j
    BY DEF RequestsDistinct
  <2>1. CASE q # p
    BY <1>4, <1>5, <2>1 DEF Owned, RequestsDistinct
  <2>2. CASE q = p
    <3>1. i + 1 # 1 /\ i + 1 \in 1..Len(queue[p]) /\ queue'[p][i] = queue[p][i + 1]
      BY <1>6, <2>2
    <3>2. queue[p][i + 1] # queue[p][1]
      BY <1>2, <3>1 DEF Owned, RequestsDistinct
    <3>3. ASSUME NEW j \in 1..Len(queue'[p]), queue'[p][i] = queue'[p][j] PROVE i = j
      <4>1. i + 1 = j + 1
        BY <1>6, <3>1, <3>3 DEF Owned, RequestsDistinct
      <4> QED
        BY <2>2, <4>1
    <3> QED
      BY <1>2, <1>4, <2>2, <3>1, <3>2, <3>3
  <2> QED
    BY <2>1, <2>2
<1>10. RequestsStarted'
  <2>1. \A q \in Proc : work'[q].pc \notin {"idle", "release", "recover"} =>
          ops[work'[q].op].status = "started"
    BY <1>4, <1>7 DEF Owned, RequestsStarted
  <2>2. \A q \in Proc : \A i \in 1..Len(queue'[q]) : ops[queue'[q][i]].status = "started"
    BY <1>a DEF Owned, RequestsStarted
  <2> QED
    BY <1>3, <2>1, <2>2 DEF RequestsStarted
<1>11. RecoveryOwned'
  BY <1>1, <1>3, <1>4 DEF Owned, RecoveryOwned
<1>12. NothingPlacedYet'
  <2>1. \A q \in Proc : work'[q].pc \in {"check", "recheck", "lock", "rename", "publish"} =>
          placed[work'[q].op] = NONE
    BY <1>4, <1>7 DEF JournalInv, NothingPlacedYet
  <2>2. \A q \in Proc : \A i \in 1..Len(queue'[q]) : placed[queue'[q][i]] = NONE
    BY <1>a DEF JournalInv, NothingPlacedYet
  <2> QED
    BY <1>3, <2>1, <2>2 DEF JournalInv, NothingPlacedYet
<1>13. JournalCurrent' /\ JournalAheadOfMove'
  BY <1>3, <1>4 DEF JournalInv, JournalCurrent, JournalAheadOfMove
<1> QED
  BY <1>8, <1>9, <1>10, <1>11, <1>12, <1>13 DEF Owned, JournalInv

\* A step of the move keeps the request with its process.
LEMMA MoveStepOwned ==
  ASSUME MoveInv, NEW p \in Proc, MoveStep(p)
  PROVE  Owned'
<1> TypeInv /\ Owned
  BY DEF MoveInv
<1>1. work[p].pc \notin {"idle", "release", "recover"}
  BY DEF MoveStep, At, CheckMove, RecheckActivation, LockAndJournal, RenameInVolume,
         CopyAndJournal, PublishCopy, DeleteSource, ExemptRestored
<1>2. UNCHANGED <<ops, phase, queue, rec>>
  BY DEF MoveStep, CheckMove, RecheckActivation, LockAndJournal, RenameInVolume, CopyAndJournal,
         PublishCopy, DeleteSource, ExemptRestored, workOnly, dbVars, threadVars
<1>3. /\ work'[p].op = work[p].op /\ work'[p].pc \notin {"idle", "release", "recover"}
      /\ \A q \in Proc \ {p} : work'[q] = work[q]
  BY MoveStepMoves DEF MoveOn, Step, Busy
<1>4. RequestsOwned' /\ RequestsDistinct' /\ RequestsStarted'
  BY <1>1, <1>2, <1>3 DEF Owned, RequestsOwned, RequestsDistinct, RequestsStarted
<1>5. RecoveryOwned'
  BY Zenon, <1>1, <1>2, <1>3 DEF Owned, RecoveryOwned
<1> QED
  BY <1>4, <1>5 DEF Owned

\* What a step of the move does to the journal and to the placement of its
\* operation, as far as the third invariant needs to know.
LEMMA MoveStepEffect ==
  ASSUME MoveInv, NEW p \in Proc, MoveStep(p)
  PROVE  LET o == work[p].op
             t == work[p].target
         IN /\ work'[p].op = o
            /\ \A a \in Op \ {o} : journal'[a] = journal[a] /\ placed'[a] = placed[a]
            /\ \/ /\ UNCHANGED <<journal, placed>>
                  /\ \/ work'[p].pc \in {"finish", "exempt"}
                     \/ /\ work[p].pc \in {"check", "recheck", "rename", "publish"}
                        /\ work'[p].pc \in {"recheck", "lock"}
               \/ /\ work[p].pc \in {"lock", "rename"}
                  /\ placed' = placed
                  /\ \/ /\ work'[p].pc = "rename"
                        /\ journal'[o] = [dst |-> work'[p].target, snap |-> ops[o].snap]
                     \/ /\ work'[p].pc = "publish"
                        /\ journal'[o] = [dst |-> work'[p].target, snap |-> work'[p].snap]
               \/ /\ work[p].pc \in {"rename", "publish", "delete"}
                  /\ journal' = journal
                  /\ \E g \in BOOLEAN :
                       placed'[o] = [dst |-> t, gone |-> g,
                                     snap |-> IF work[p].pc = "rename" THEN ops[o].snap
                                              ELSE work[p].snap]
                  /\ \/ work'[p].pc \in {"finish", "exempt"}
                     \/ /\ work[p].pc = "publish" /\ work'[p].pc = "delete"
                        /\ work'[p].target = t /\ work'[p].snap = work[p].snap
<1> TypeInv /\ TypeOK
  BY DEF MoveInv, TypeInv
<1> DEFINE o == work[p].op
<1>1. /\ work[p].pc # "idle" /\ work[p].snap \in Snap /\ ops[o].snap \in Snap
      /\ work'[p].op = o
  BY MoveStepMoves, WorkerRunning DEF RowFilled, MoveOn, Step
<1> {"failed", "cancelled", "completed"} \subseteq Terminal
    /\ {"recheck", "lock", "rename", "publish", "delete", "finish"} \subseteq Busy
  BY DEF Terminal, Statuses, Busy
<1>2. CASE CheckMove(p)
  <2>1. \/ Report(p, "cancelled") \/ Report(p, "failed")
        \/ Goto(p, "recheck") \/ Divert(p, "recheck")
    BY <1>2 DEF CheckMove
  <2>2. work'[p].pc \in {"finish", "recheck"}
    BY <1>1, <2>1, ReportMoves, GotoMoves, DivertMoves DEF Step
  <2>3. UNCHANGED <<journal, placed>> /\ work[p].pc = "check"
    BY <1>2 DEF CheckMove, At, workOnly, dbVars
  <2> QED
    BY <1>1, <2>2, <2>3
<1>3. CASE RecheckActivation(p)
  <2>1. work'[p].pc \in {"finish", "lock"}
    BY <1>1, <1>3, ReportMoves, GotoMoves DEF RecheckActivation, Step
  <2>2. UNCHANGED <<journal, placed>> /\ work[p].pc = "recheck"
    BY <1>3 DEF RecheckActivation, At, workOnly, dbVars
  <2> QED
    BY <1>1, <2>1, <2>2
<1>4. CASE LockAndJournal(p)
  <2>1. work[p].pc = "lock" /\ placed' = placed
    BY <1>4 DEF LockAndJournal, At
  <2>2. CASE Report(p, "failed") /\ journal' = journal
    BY <1>1, <2>1, <2>2, ReportMoves DEF Step
  <2>3. CASE journal' = JournalRow(p, ops[o].snap) /\ Goto(p, "rename")
    <3>1. work'[p].pc = "rename" /\ work'[p].target = work[p].target
      BY Zenon, <1>1, <2>3, GotoMoves DEF Step
    <3>2. /\ journal'[o] = [dst |-> work[p].target, snap |-> ops[o].snap]
          /\ \A a \in Op \ {o} : journal'[a] = journal[a]
      BY Zenon, <1>1, <2>3, JournalRowTyped
    <3> QED
      BY <1>1, <2>1, <3>1, <3>2
  <2> QED
    BY <1>4, <2>2, <2>3 DEF LockAndJournal, Cur
<1>5. CASE RenameInVolume(p)
  <2>1. work[p].pc = "rename" /\ journal' = journal
    BY <1>5 DEF RenameInVolume, At, dbVars
  <2>2. CASE Divert(p, "lock") /\ placed' = placed
    <3>1. work'[p].pc \in {"finish", "lock"}
      BY <1>1, <2>2, DivertMoves DEF Step
    <3> QED
      BY <1>1, <2>1, <2>2, <3>1
  <2>3. CASE placed' = Place(p, ops[o].snap, TRUE) /\ Moved(p, ops[o].snap)
    <3>1. work'[p].pc \in {"finish", "exempt"}
      BY <1>1, <2>3, MovedMoves DEF Step
    <3>2. /\ placed'[o] = [dst |-> work[p].target, snap |-> ops[o].snap, gone |-> TRUE]
          /\ \A a \in Op \ {o} : placed'[a] = placed[a]
      BY <1>1, <2>3, PlaceTyped
    <3> QED
      BY <1>1, <2>1, <3>1, <3>2
  <2> QED
    BY <1>5, <2>2, <2>3 DEF RenameInVolume, Cur
<1>6. CASE CopyAndJournal(p)
  <2>1. work[p].pc = "rename" /\ placed' = placed
    BY <1>6 DEF CopyAndJournal, At
  <2>2. CASE Report(p, "failed") /\ journal' = journal
    BY <1>1, <2>1, <2>2, ReportMoves DEF Step
  <2> DEFINE copy == [doc |-> ops[o].snap.doc, id |-> serial + 1]
  <2>3. CASE journal' = JournalRow(p, copy)
             /\ work' = [work EXCEPT ![p].pc = "publish", ![p].snap = copy]
    <3>1. copy \in Snap
      <4>1. serial \in Nat
        BY DEF TypeOK
      <4> QED
        BY <1>1, <4>1 DEF Snap
    <3> HIDE DEF copy
    <3>2. work'[p].pc = "publish" /\ work'[p].target = work[p].target /\ work'[p].snap = copy
      <4>1. work \in [Proc -> Request] /\ work[p] \in Request
        BY DEF TypeOK
      <4> QED
        BY <2>3, <4>1 DEF Request
    <3>3. /\ journal'[o] = [dst |-> work[p].target, snap |-> copy]
          /\ \A a \in Op \ {o} : journal'[a] = journal[a]
      BY <1>1, <2>3, <3>1, JournalRowTyped
    <3> QED
      BY <1>1, <2>1, <3>2, <3>3
  <2> QED
    BY <1>6, <2>2, <2>3 DEF CopyAndJournal, Cur
<1>7. CASE PublishCopy(p)
  <2>1. work[p].pc = "publish" /\ journal' = journal
    BY <1>7 DEF PublishCopy, At, dbVars
  <2>2. CASE Divert(p, "lock") /\ placed' = placed
    <3>1. work'[p].pc \in {"finish", "lock"}
      BY <1>1, <2>2, DivertMoves DEF Step
    <3> QED
      BY <1>1, <2>1, <2>2, <3>1
  <2>3. CASE placed' = Place(p, work[p].snap, FALSE) /\ Goto(p, "delete")
    <3>1. work'[p].pc = "delete" /\ work'[p].target = work[p].target /\ work'[p].snap = work[p].snap
      BY <1>1, <2>3, GotoMoves DEF Step
    <3>2. /\ placed'[o] = [dst |-> work[p].target, snap |-> work[p].snap, gone |-> FALSE]
          /\ \A a \in Op \ {o} : placed'[a] = placed[a]
      BY <1>1, <2>3, PlaceTyped
    <3> QED
      BY <1>1, <2>1, <3>1, <3>2
  <2> QED
    BY <1>7, <2>2, <2>3 DEF PublishCopy
<1>8. CASE DeleteSource(p)
  <2>1. work[p].pc = "delete" /\ journal' = journal
    BY <1>8 DEF DeleteSource, At, dbVars
  <2>2. CASE Report(p, "failed") /\ placed' = placed
    BY <1>1, <2>1, <2>2, ReportMoves DEF Step
  <2>3. CASE placed' = Place(p, work[p].snap, TRUE) /\ Moved(p, work[p].snap)
    <3>1. work'[p].pc \in {"finish", "exempt"}
      BY <1>1, <2>3, MovedMoves DEF Step
    <3>2. /\ placed'[o] = [dst |-> work[p].target, snap |-> work[p].snap, gone |-> TRUE]
          /\ \A a \in Op \ {o} : placed'[a] = placed[a]
      BY <1>1, <2>3, PlaceTyped
    <3> QED
      BY <1>1, <2>1, <3>1, <3>2
  <2> QED
    BY <1>8, <2>2, <2>3 DEF DeleteSource
<1>9. CASE ExemptRestored(p)
  <2>1. UNCHANGED <<journal, placed>> /\ Goto(p, "finish") /\ work[p].pc = "exempt"
    BY <1>9 DEF ExemptRestored, At
  <2>2. work[p].result \in Terminal
    BY <1>1, <2>1, WorkerRunning
  <2>3. work'[p].pc = "finish"
    BY <1>1, <2>1, <2>2, GotoMoves DEF Step
  <2> QED
    BY <1>1, <2>1, <2>3
<1> QED
  BY <1>2, <1>3, <1>4, <1>5, <1>6, <1>7, <1>8, <1>9 DEF MoveStep

LEMMA MoveStepJournal ==
  ASSUME MoveInv, NEW p \in Proc, MoveStep(p)
  PROVE  JournalInv'
<1> TypeInv /\ JournalInv /\ Owned
  BY DEF MoveInv
<1> DEFINE o == work[p].op
<1>1. /\ work[p].pc \notin {"idle", "release", "recover"} /\ UNCHANGED <<ops, queue>>
  BY DEF MoveStep, At, CheckMove, RecheckActivation, LockAndJournal, RenameInVolume,
         CopyAndJournal, PublishCopy, DeleteSource, ExemptRestored, workOnly, dbVars, threadVars
<1>2. work'[p].op = o /\ o \in Op /\ ops[o].status = "started"
      /\ \A q \in Proc \ {p} : work'[q] = work[q]
  BY <1>1, MoveStepMoves, WorkerRunning DEF MoveOn, Step, Owned, RequestsStarted
<1>3. /\ \A q \in Proc \ {p} : work[q].pc # "idle" => work[q].op \in Op \ {o}
      /\ \A q \in Proc : \A i \in 1..Len(queue[q]) : queue[q][i] \in Op \ {o}
  <2>1. ASSUME NEW q \in Proc, q # p, work[q].pc # "idle" PROVE work[q].op \in Op /\ work[q].op # o
    BY <1>1, <2>1, OnlyMine, WorkerRunning
  <2>2. ASSUME NEW q \in Proc, NEW i \in 1..Len(queue[q]) PROVE queue[q][i] # o
    <3>1. CASE q = p
      BY <1>1, <3>1 DEF Owned, RequestsDistinct
    <3>2. CASE q # p
      BY <1>1, <3>2, OnlyMine
    <3> QED
      BY <3>1, <3>2
  <2>3. \A q \in Proc : \A i \in 1..Len(queue[q]) : queue[q][i] \in Op
    BY QueueMember
  <2> QED
    BY <2>1, <2>2, <2>3
<1>4. \A a \in Op \ {o} : journal'[a] = journal[a] /\ placed'[a] = placed[a]
  BY MoveStepEffect
<1>5. /\ work[p].pc \in {"check", "recheck", "lock", "rename", "publish"} => placed[o] = NONE
      /\ placed[o] # NONE => journal[o] = [dst |-> placed[o].dst, snap |-> placed[o].snap]
      /\ work[p].pc = "rename" => journal[o] = [dst |-> work[p].target, snap |-> ops[o].snap]
      /\ work[p].pc \in {"publish", "delete"} =>
           journal[o] = [dst |-> work[p].target, snap |-> work[p].snap]
  BY <1>2 DEF JournalInv, NothingPlacedYet, JournalCurrent, JournalAheadOfMove
<1>6. /\ work'[p].pc \in {"check", "recheck", "lock", "rename", "publish"} => placed'[o] = NONE
      /\ placed'[o] # NONE => journal'[o] = [dst |-> placed'[o].dst, snap |-> placed'[o].snap]
      /\ work'[p].pc = "rename" => journal'[o] = [dst |-> work'[p].target, snap |-> ops[o].snap]
      /\ work'[p].pc \in {"publish", "delete"} =>
           journal'[o] = [dst |-> work'[p].target, snap |-> work'[p].snap]
  <2>1. CASE /\ UNCHANGED <<journal, placed>>
             /\ \/ work'[p].pc \in {"finish", "exempt"}
                \/ /\ work[p].pc \in {"check", "recheck", "rename", "publish"}
                   /\ work'[p].pc \in {"recheck", "lock"}
    BY <1>5, <2>1
  <2>2. CASE /\ work[p].pc \in {"lock", "rename"}
             /\ placed' = placed
             /\ \/ /\ work'[p].pc = "rename"
                   /\ journal'[o] = [dst |-> work'[p].target, snap |-> ops[o].snap]
                \/ /\ work'[p].pc = "publish"
                   /\ journal'[o] = [dst |-> work'[p].target, snap |-> work'[p].snap]
    BY <1>5, <2>2
  <2>3. CASE /\ work[p].pc \in {"rename", "publish", "delete"}
             /\ journal' = journal
             /\ \E g \in BOOLEAN :
                  placed'[o] = [dst |-> work[p].target, gone |-> g,
                                snap |-> IF work[p].pc = "rename" THEN ops[o].snap
                                         ELSE work[p].snap]
             /\ \/ work'[p].pc \in {"finish", "exempt"}
                \/ /\ work[p].pc = "publish" /\ work'[p].pc = "delete"
                   /\ work'[p].target = work[p].target /\ work'[p].snap = work[p].snap
    <3>1. journal'[o] = [dst |-> work[p].target,
                         snap |-> IF work[p].pc = "rename" THEN ops[o].snap ELSE work[p].snap]
      BY <1>5, <2>3
    <3>2. placed'[o].dst = work[p].target
          /\ placed'[o].snap = IF work[p].pc = "rename" THEN ops[o].snap ELSE work[p].snap
      BY <2>3
    <3> QED
      BY <2>3, <3>1, <3>2
  <2> QED
    BY <2>1, <2>2, <2>3, MoveStepEffect
<1>7. NothingPlacedYet'
  <2>1. \A a \in Op : ops[a].status = "none" => placed'[a] = NONE
    BY <1>2, <1>4 DEF JournalInv, NothingPlacedYet
  <2>2. \A q \in Proc : \A i \in 1..Len(queue[q]) : placed'[queue[q][i]] = NONE
    BY <1>3, <1>4 DEF JournalInv, NothingPlacedYet
  <2>3. \A q \in Proc : work'[q].pc \in {"check", "recheck", "lock", "rename", "publish"} =>
          placed'[work'[q].op] = NONE
    BY <1>2, <1>3, <1>4, <1>6 DEF JournalInv, NothingPlacedYet
  <2> QED
    BY <1>1, <2>1, <2>2, <2>3 DEF NothingPlacedYet
<1>8. JournalCurrent'
  BY <1>1, <1>2, <1>3, <1>4, <1>6 DEF JournalInv, JournalCurrent
<1>9. JournalAheadOfMove'
  BY <1>1, <1>2, <1>4, <1>6 DEF JournalInv, JournalAheadOfMove
<1> QED
  BY <1>7, <1>8, <1>9 DEF JournalInv

----------------------------------------------------------------------------
(* Steps that close a row or end a request.                                *)

LEMMA CloseOnly ==
  ASSUME TypeInv, NEW o \in Op, NEW st \in Terminal, NEW dst, NEW snap,
         CloseRow(o, st, dst, snap)
  PROVE  ClosedOnly(o)
<1>1. CASE ops[o].status # "started"
  BY <1>1 DEF CloseRow, dbVars, ClosedOnly
<1>2. CASE ops[o].status = "started"
  <2>1. ops' = Closed(o, st, dst, snap) /\ ops \in [Op -> OpRow]
        /\ journal' = [journal EXCEPT ![o] = NONE] /\ journal \in [Op -> Entry \cup {NONE}]
    BY <1>2 DEF CloseRow, TypeInv, TypeOK
  <2>2. \A a \in Op \ {o} : journal'[a] = journal[a]
    BY <2>1
  <2>3. ops'[o].status = st /\ ops'[o].owner = ops[o].owner /\ ops'[o].snap = ops[o].snap
    <3>1. ops'[o] = [ops[o] EXCEPT !.status = st,
                                   !.dst = IF st = "completed" THEN dst ELSE @,
                                   !.after = IF st = "completed" THEN snap ELSE @]
      BY <2>1 DEF Closed
    <3> QED
      BY <2>1, <3>1 DEF OpRow
  <2>4. ASSUME NEW a \in Op \ {o}
        PROVE  /\ ops'[a].status = ops[a].status /\ ops'[a].owner = ops[a].owner
               /\ ops'[a].snap = ops[a].snap
    <3>1. ops'[a] = ops[a] \/ ops'[a] = [ops[a] EXCEPT !.undone = TRUE]
      BY <2>1 DEF Closed
    <3>2. ops[a] \in OpRow
      BY <2>1
    <3> QED
      BY <3>1, <3>2 DEF OpRow
  <2> QED
    BY <1>2, <2>2, <2>3, <2>4 DEF ClosedOnly
<1> QED
  BY <1>1, <1>2

\* The row of a request that ends, or of an interrupted operation, is closed;
\* the requests of everybody else, and what is queued, are not disturbed.
LEMMA EndsInv ==
  ASSUME MoveInv, NEW p \in Proc, NEW o \in Op, ClosedOnly(o),
         \A q \in Proc \ {p} : work[q].pc # "idle" => work[q].op # o,
         \A q \in Proc : \A i \in 1..Len(queue[q]) : queue[q][i] # o,
         \A q \in Proc \ {p} : work'[q] = work[q] /\ rec'[q].op = rec[q].op,
         \/ work'[p].pc = "idle"
         \/ work'[p].pc = "release" /\ work'[p].op = work[p].op /\ work[p].pc # "idle"
         \/ work'[p].pc = "recover" /\ work'[p].op = work[p].op /\ work[p].pc # "idle",
         \/ rec'[p].op = NONE
         \/ rec'[p].op = rec[p].op /\ work'[p].pc = "idle" /\ work[p].pc = "idle"
         \/ work'[p].pc = "recover" /\ rec'[p].op = work'[p].op /\ phase[p] = "running",
         UNCHANGED <<queue, phase, placed>>
  PROVE  Owned' /\ JournalInv'
<1> TypeInv /\ Owned /\ JournalInv
  BY DEF MoveInv
<1>1. /\ \A q \in Proc : work[q].pc # "idle" => work[q].op \in Op
      /\ \A q \in Proc : \A i \in 1..Len(queue[q]) : queue[q][i] \in Op \ {o}
  BY WorkerRunning, QueueMember
<1>2. RequestsOwned'
  BY <1>1 DEF ClosedOnly, Owned, RequestsOwned
<1>3. RequestsDistinct'
  BY <1>1 DEF Owned, RequestsDistinct
<1>4. RequestsStarted'
  <2>1. \A q \in Proc : work'[q].pc \notin {"idle", "release", "recover"} =>
          ops'[work'[q].op].status = "started"
    BY <1>1 DEF ClosedOnly, Owned, RequestsStarted
  <2>2. \A q \in Proc : \A i \in 1..Len(queue[q]) : ops'[queue[q][i]].status = "started"
    BY <1>1 DEF ClosedOnly, Owned, RequestsStarted
  <2> QED
    BY <2>1, <2>2 DEF RequestsStarted
<1>5. RecoveryOwned'
  <2> rec \in [Proc -> Recovery]
    BY DEF TypeInv, TypeOK
  <2>1. \A q \in Proc : rec[q].op # NONE => rec[q].op \in Op
    BY DEF Recovery
  <2> SUFFICES ASSUME NEW q \in Proc, rec'[q].op # NONE
               PROVE  \/ phase[q] = "starting" /\ ops'[rec'[q].op].owner = NONE
                      \/ phase[q] = "running" /\ work'[q].pc = "recover" /\ work'[q].op = rec'[q].op
    BY DEF RecoveryOwned
  <2>2. CASE q # p
    BY <2>1, <2>2 DEF ClosedOnly, Owned, RecoveryOwned
  <2>3. CASE q = p
    BY <2>1, <2>3 DEF ClosedOnly, Owned, RecoveryOwned
  <2> QED
    BY <2>2, <2>3
<1>6. NothingPlacedYet'
  <2>1. \A a \in Op : ops'[a].status = "none" => ops[a].status = "none"
    BY DEF ClosedOnly, Terminal
  <2>2. \A q \in Proc : work'[q].pc \in {"check", "recheck", "lock", "rename", "publish"} =>
          placed[work'[q].op] = NONE
    BY DEF JournalInv, NothingPlacedYet
  <2> QED
    BY <2>1, <2>2 DEF JournalInv, NothingPlacedYet
<1>7. JournalCurrent'
  BY <1>1 DEF ClosedOnly, JournalInv, JournalCurrent
<1>8. JournalAheadOfMove'
  <2>1. placed' = placed /\ JournalAheadOfMove
    BY DEF JournalInv
  <2> SUFFICES ASSUME NEW a \in Op, placed[a] # NONE, ops'[a].status = "started"
               PROVE  journal'[a] = [dst |-> placed[a].dst, snap |-> placed[a].snap]
    BY <2>1 DEF JournalAheadOfMove
  <2>2. ops[a].status = "started" /\ journal'[a] = journal[a]
    BY DEF ClosedOnly, Terminal
  <2> QED
    BY <2>1, <2>2 DEF JournalAheadOfMove
<1> QED
  BY <1>2, <1>3, <1>4, <1>5, <1>6, <1>7, <1>8 DEF Owned, JournalInv

\* The operation of a live request is held by its process alone.
LEMMA HeldAlone ==
  ASSUME MoveInv, NEW p \in Proc, work[p].pc # "idle"
  PROVE  /\ \A q \in Proc \ {p} : work[q].pc # "idle" => work[q].op # work[p].op
         /\ \A q \in Proc : \A i \in 1..Len(queue[q]) : queue[q][i] # work[p].op
<1>1. \A q \in Proc : \A i \in 1..Len(queue[q]) : queue[q][i] # work[p].op
  <2> SUFFICES ASSUME NEW q \in Proc, NEW i \in 1..Len(queue[q]) PROVE queue[q][i] # work[p].op
    OBVIOUS
  <2>1. CASE q = p
    BY <2>1 DEF MoveInv, Owned, RequestsDistinct
  <2>2. CASE q # p
    BY <2>2, OnlyMine
  <2> QED
    BY <2>1, <2>2
<1> QED
  BY <1>1, OnlyMine

LEMMA FinishInv ==
  ASSUME MoveInv, NEW p \in Proc, Finish(p) \/ Release(p) \/ Panic(p)
  PROVE  Owned' /\ JournalInv'
<1> TypeInv /\ Owned /\ JournalInv /\ TypeOK
  BY DEF MoveInv, TypeInv
<1>1. work[p].pc \notin {"idle", "recover"} /\ work[p].op \in Op /\ phase[p] = "running"
      /\ rec[p].op = NONE
  <2>1. work[p].pc \notin {"idle", "recover"}
    BY DEF Finish, Release, Panic, At
  <2> QED
    BY <2>1, WorkerRunning DEF Owned, RecoveryOwned
<1>2. UNCHANGED <<queue, phase, placed>>
  BY DEF Finish, Release, Panic, threadVars
<1>3. ClosedOnly(work[p].op)
  <2>1. CASE UNCHANGED dbVars
    BY <2>1 DEF dbVars, ClosedOnly
  <2>2. CASE CloseRow(Cur(p), work[p].result, work[p].target, work[p].snap) /\ work[p].pc = "finish"
    BY <1>1, <2>2, CloseOnly, WorkerRunning DEF Cur
  <2> QED
    BY <2>1, <2>2 DEF Finish, Release, Panic, At
<1>4. /\ \A q \in Proc \ {p} : work[q].pc # "idle" => work[q].op # work[p].op
      /\ \A q \in Proc : \A i \in 1..Len(queue[q]) : queue[q][i] # work[p].op
  BY <1>1, HeldAlone
<1>5. CASE Finish(p)
  <2>1. /\ work'[p].pc = "release" /\ work'[p].op = work[p].op
        /\ \A q \in Proc \ {p} : work'[q] = work[q]
    <3> Goto(p, "release") /\ "release" \in Busy
      BY <1>5 DEF Finish, Busy
    <3> QED
      BY <1>1, GotoMoves DEF Step
  <2>2. rec' = rec
    BY <1>5 DEF Finish
  <2> QED
    BY <1>1, <1>2, <1>3, <1>4, <2>1, <2>2, EndsInv
<1>6. CASE Release(p)
  <2>1. work'[p].pc = "idle" /\ \A q \in Proc \ {p} : work'[q] = work[q]
    <3> work \in [Proc -> Request] /\ work' = [work EXCEPT ![p] = Idle]
      BY <1>6 DEF TypeOK, Release
    <3> QED
      BY DEF Idle
  <2>2. rec' = rec
    BY <1>6 DEF Release
  <2> QED
    BY <1>1, <1>2, <1>3, <1>4, <2>1, <2>2, EndsInv
<1>7. CASE Panic(p)
  <2>1. /\ work'[p].pc = "recover" /\ work'[p].op = work[p].op
        /\ \A q \in Proc \ {p} : work'[q] = work[q]
    <3> Goto(p, "recover") /\ "recover" \in Busy
      BY <1>7 DEF Panic, Busy
    <3> QED
      BY <1>1, GotoMoves DEF Step
  <2>2. rec'[p].op = work[p].op /\ \A q \in Proc \ {p} : rec'[q] = rec[q]
    <3>1. rec \in [Proc -> Recovery] /\ rec[p] \in Recovery
      BY DEF TypeOK
    <3>2. rec' = [rec EXCEPT ![p].op = work[p].op]
      BY <1>7 DEF Panic, Cur
    <3> QED
      BY <3>1, <3>2 DEF Recovery
  <2> QED
    BY <1>1, <1>2, <1>3, <1>4, <2>1, <2>2, EndsInv
<1> QED
  BY <1>5, <1>6, <1>7

----------------------------------------------------------------------------
(* Steps of a reconciliation, and of the processes.                        *)

\* What is reconciled is in no queue and in no other worker's hands.
LEMMA RecoveredAlone ==
  ASSUME MoveInv, NEW p \in Proc, rec[p].op # NONE
  PROVE  /\ rec[p].op \in Op
         /\ \A q \in Proc \ {p} : work[q].pc # "idle" => work[q].op # rec[p].op
         /\ \A q \in Proc : \A i \in 1..Len(queue[q]) : queue[q][i] # rec[p].op
<1> TypeInv /\ Owned
  BY DEF MoveInv
<1>1. rec[p].op \in Op
  <2> rec[p] \in Recovery
    BY DEF TypeInv, TypeOK
  <2> QED
    BY DEF Recovery
<1>2. CASE ops[rec[p].op].owner = NONE
  <2> \A q \in Proc : q # NONE
    BY MoveAssumption
  <2> QED
    BY <1>1, <1>2 DEF Owned, RequestsOwned
<1>3. CASE work[p].pc = "recover" /\ work[p].op = rec[p].op
  BY <1>1, <1>3, HeldAlone
<1> QED
  BY <1>2, <1>3 DEF Owned, RecoveryOwned

\* A step that changes the reconciliation of p only.
LEMMA RecFrameInv ==
  ASSUME MoveInv, NEW p \in Proc, UNCHANGED <<ops, journal, placed, queue, work>>,
         \A q \in Proc \ {p} : rec'[q].op = rec[q].op /\ phase'[q] = phase[q],
         \/ rec'[p].op = NONE
         \/ rec'[p].op = rec[p].op /\ phase'[p] = phase[p]
         \/ phase'[p] = "starting" /\ ops[rec'[p].op].owner = NONE
  PROVE  Owned' /\ JournalInv'
<1> TypeInv /\ Owned /\ JournalInv
  BY DEF MoveInv
<1>1. RequestsOwned' /\ RequestsDistinct' /\ RequestsStarted'
  BY DEF Owned, RequestsOwned, RequestsDistinct, RequestsStarted
<1>2. RecoveryOwned'
  BY DEF Owned, RecoveryOwned
<1>3. JournalInv'
  BY DEF JournalInv, NothingPlacedYet, JournalCurrent, JournalAheadOfMove
<1> QED
  BY <1>1, <1>2, <1>3 DEF Owned

\* A reconciliation ends: its row is closed, or left for the next start.
LEMMA EndRecInv ==
  ASSUME MoveInv, NEW p \in Proc, rec[p].op # NONE, NEW todo \in SUBSET Op, EndRec(p, todo),
         ClosedOnly(rec[p].op), UNCHANGED <<queue, phase, placed>>
  PROVE  Owned' /\ JournalInv'
<1> TypeOK
  BY DEF MoveInv, TypeInv
<1> DEFINE r == [NoRec EXCEPT !.todo = todo]
<1>1. rec' = [rec EXCEPT ![p] = r] /\ work' = [work EXCEPT ![p] = Idle]
      /\ rec \in [Proc -> Recovery] /\ work \in [Proc -> Request]
  BY DEF EndRec, TypeOK
<1>2. r.op = NONE /\ Idle.pc = "idle"
  BY DEF NoRec, Idle
<1> HIDE DEF r
<1>3. /\ rec'[p].op = NONE /\ work'[p].pc = "idle"
      /\ \A q \in Proc \ {p} : work'[q] = work[q] /\ rec'[q].op = rec[q].op
  BY <1>1, <1>2
<1> QED
  BY <1>3, RecoveredAlone, EndsInv

LEMMA ReconcilerInv ==
  ASSUME MoveInv, NEW p \in Proc, Reconciler(p)
  PROVE  Owned' /\ JournalInv'
<1> TypeInv /\ Owned /\ TypeOK /\ Filled
  BY DEF MoveInv, TypeInv
<1>0. rec \in [Proc -> Recovery] /\ rec[p] \in Recovery
  BY DEF TypeOK
<1>1. ASSUME NEW o \in Op, PickInterrupted(p, o) PROVE Owned' /\ JournalInv'
  <2>1. /\ phase[p] = "starting" /\ UNCHANGED <<ops, journal, placed, queue, work, phase>>
    BY <1>1 DEF PickInterrupted, recOnly, dbVars, threadVars
  <2> DEFINE v == IF OwnerGone(o) THEN o ELSE NONE
  <2>2. rec' = [rec EXCEPT ![p].todo = @ \ {o}, ![p].op = v]
    BY <1>1 DEF PickInterrupted
  <2>3. v = NONE \/ ops[v].owner = NONE
    BY DEF OwnerGone
  <2> HIDE DEF v
  <2>4. rec'[p].op = v /\ \A q \in Proc \ {p} : rec'[q] = rec[q]
    BY <1>0, <2>2 DEF Recovery
  <2> QED
    BY <2>1, <2>3, <2>4, RecFrameInv
<1>2. CASE Look(p)
  <2>1. UNCHANGED <<ops, journal, placed, queue, work, phase>>
    BY <1>2 DEF Look, recOnly, dbVars, threadVars
  <2> DEFINE o == rec[p].op
             v == Verdict(o)
             d == IF journal[o] = NONE THEN NONE ELSE journal[o].dst
             s == IF journal[o] = NONE THEN NONE ELSE journal[o].snap
  <2>2. rec' = [rec EXCEPT ![p].verdict = v, ![p].dst = d, ![p].snap = s]
    BY <1>2 DEF Look
  <2> HIDE DEF v, d, s
  <2>3. rec'[p].op = rec[p].op /\ \A q \in Proc \ {p} : rec'[q] = rec[q]
    BY <1>0, <2>2 DEF Recovery
  <2> QED
    BY <2>1, <2>3, RecFrameInv
<1>3. CASE RemoveCopy(p) \/ CloseReconciled(p)
  <2>1. rec[p].op # NONE /\ rec[p].op \in Op /\ rec[p].todo \in SUBSET Op
    BY <1>0, <1>3 DEF RemoveCopy, CloseReconciled, Filled, RecFilled, Recovery
  <2>2. UNCHANGED <<queue, phase, placed>>
    BY <1>3 DEF RemoveCopy, CloseReconciled, threadVars
  <2>3. CASE /\ rec' = [rec EXCEPT ![p].verdict = "fail"]
             /\ UNCHANGED <<work, ops, journal>>
    <3>1. rec'[p].op = rec[p].op /\ \A q \in Proc \ {p} : rec'[q] = rec[q]
      BY <1>0, <2>3 DEF Recovery
    <3> QED
      BY <2>2, <2>3, <3>1, RecFrameInv
  <2>4. ASSUME NEW todo \in SUBSET Op, EndRec(p, todo), ClosedOnly(rec[p].op)
        PROVE  Owned' /\ JournalInv'
    BY <2>1, <2>2, <2>4, EndRecInv
  <2>5. CASE RemoveCopy(p)
    <3>1. ClosedOnly(rec[p].op) /\ UNCHANGED <<ops, journal>>
      BY <2>5 DEF RemoveCopy, dbVars, ClosedOnly
    <3>2. \/ rec' = [rec EXCEPT ![p].verdict = "fail"] /\ UNCHANGED work
          \/ EndRec(p, rec[p].todo)
      BY <2>5 DEF RemoveCopy
    <3> QED
      BY <2>1, <2>3, <2>4, <3>1, <3>2
  <2>6. CASE CloseReconciled(p)
    <3>1. CASE UNCHANGED dbVars
      <4>1. ClosedOnly(rec[p].op) /\ UNCHANGED <<ops, journal>>
        BY <3>1 DEF dbVars, ClosedOnly
      <4>2. \/ rec' = [rec EXCEPT ![p].verdict = "fail"] /\ UNCHANGED work
            \/ EndRec(p, rec[p].todo)
            \/ EndRec(p, {})
        BY <2>6 DEF CloseReconciled
      <4>3. {} \in SUBSET Op
        OBVIOUS
      <4> QED
        BY <2>1, <2>3, <2>4, <4>1, <4>2, <4>3
    <3>2. CASE ~UNCHANGED dbVars
      <4>1. /\ EndRec(p, rec[p].todo)
            /\ \/ CloseRow(rec[p].op, "completed", rec[p].dst, rec[p].snap)
               \/ CloseRow(rec[p].op, "failed", NONE, NONE)
        BY <2>6, <3>2 DEF CloseReconciled
      <4>2. {"completed", "failed"} \subseteq Terminal
        BY DEF Terminal, Statuses
      <4>3. ClosedOnly(rec[p].op)
        BY <2>1, <4>1, <4>2, CloseOnly
      <4> QED
        BY <2>1, <2>4, <4>1, <4>3
    <3> QED
      BY <3>1, <3>2
  <2> QED
    BY <1>3, <2>5, <2>6
<1> QED
  BY <1>1, <1>2, <1>3 DEF Reconciler

LEMMA LifecycleInv ==
  ASSUME MoveInv, NEW p \in Proc, Lifecycle(p)
  PROVE  Owned' /\ JournalInv'
<1> TypeInv /\ Owned /\ JournalInv /\ TypeOK /\ Filled
  BY DEF MoveInv, TypeInv
<1>1. CASE Start(p)
  <2>1. phase[p] = "down" /\ UNCHANGED <<ops, journal, placed, queue, work>>
    BY <1>1 DEF Start, dbVars, threadVars
  <2> DEFINE todo == {o \in Op : ops[o].status = "started"}
  <2>2. rec' = [rec EXCEPT ![p].todo = todo] /\ phase' = [phase EXCEPT ![p] = "starting"]
    BY <1>1 DEF Start
  <2> HIDE DEF todo
  <2>3. rec'[p].op = rec[p].op /\ \A q \in Proc \ {p} : rec'[q] = rec[q] /\ phase'[q] = phase[q]
    BY <2>2 DEF TypeOK, Recovery
  <2>4. rec[p].op = NONE
    BY <2>1 DEF Filled, Quiet, NoRec
  <2> QED
    BY <2>1, <2>3, <2>4, RecFrameInv
<1>2. CASE Ready(p)
  <2>1. /\ phase[p] = "starting" /\ rec[p].op = NONE /\ phase' = [phase EXCEPT ![p] = "running"]
        /\ UNCHANGED <<ops, placed, queue, work, rec>>
    BY <1>2 DEF Ready, NoRec
  <2>2. \A q \in Proc \ {p} : phase'[q] = phase[q]
    BY <2>1 DEF TypeOK
  <2>3. \A o \in Op : ops[o].status = "started" => journal'[o] = journal[o]
    BY <1>2 DEF Ready
  <2>4. RequestsOwned' /\ RequestsDistinct' /\ RequestsStarted'
    BY <2>1 DEF Owned, RequestsOwned, RequestsDistinct, RequestsStarted
  <2>5. RecoveryOwned'
    BY <2>1, <2>2 DEF Owned, RecoveryOwned
  <2>6. NothingPlacedYet'
    BY <2>1 DEF JournalInv, NothingPlacedYet
  <2>7. JournalCurrent'
    <3>1. \A q \in Proc : work[q].pc \in {"rename", "publish", "delete"} =>
            work[q].op \in Op /\ ops[work[q].op].status = "started"
      BY WorkerRunning DEF Owned, RequestsStarted
    <3> QED
      BY <2>1, <2>3, <3>1 DEF JournalInv, JournalCurrent
  <2>8. JournalAheadOfMove'
    BY <2>1, <2>3 DEF JournalInv, JournalAheadOfMove
  <2> QED
    BY <2>4, <2>5, <2>6, <2>7, <2>8 DEF Owned, JournalInv
<1> QED
  BY <1>1, <1>2 DEF Lifecycle

LEMMA CrashInv ==
  ASSUME MoveInv, NEW p \in Proc, Crash(p)
  PROVE  Owned' /\ JournalInv'
<1> TypeInv /\ Owned /\ JournalInv /\ TypeOK /\ Filled
  BY DEF MoveInv, TypeInv
<1>1. UNCHANGED <<journal, placed>>
  BY DEF Crash
<1>2. /\ \A o \in Op : ops'[o].status = ops[o].status /\ ops'[o].snap = ops[o].snap
      /\ \A o \in Op : ops'[o].owner = IF ops[o].owner = p THEN NONE ELSE ops[o].owner
  <2> SUFFICES ASSUME NEW o \in Op
               PROVE  /\ ops'[o].status = ops[o].status /\ ops'[o].snap = ops[o].snap
                      /\ ops'[o].owner = IF ops[o].owner = p THEN NONE ELSE ops[o].owner
    OBVIOUS
  <2>1. ops' = [a \in Op |-> IF ops[a].owner = p THEN [ops[a] EXCEPT !.owner = NONE] ELSE ops[a]]
        /\ ops[o] \in OpRow
    BY DEF Crash, TypeOK
  <2>2. CASE ops[o].owner = p
    <3> ops'[o] = [ops[o] EXCEPT !.owner = NONE]
      BY <2>1, <2>2
    <3> QED
      BY <2>1, <2>2 DEF OpRow
  <2>3. CASE ops[o].owner # p
    BY <2>1, <2>3
  <2> QED
    BY <2>2, <2>3
<1>3. /\ work'[p].pc = "idle" /\ \A q \in Proc \ {p} : work'[q] = work[q]
  <2> work' = [work EXCEPT ![p] = Idle] /\ work \in [Proc -> Request]
    BY DEF Crash, TypeOK
  <2> QED
    BY DEF Idle
<1>4. /\ Len(queue'[p]) = 0 /\ \A q \in Proc \ {p} : queue'[q] = queue[q]
  <2> queue' = [queue EXCEPT ![p] = << >>] /\ queue \in [Proc -> Seq(Op)]
    BY DEF Crash, TypeOK
  <2> QED
    OBVIOUS
<1>5. /\ rec'[p].op = NONE /\ \A q \in Proc \ {p} : rec'[q] = rec[q] /\ phase'[q] = phase[q]
  <2> rec' = [rec EXCEPT ![p] = NoRec] /\ rec \in [Proc -> Recovery]
      /\ phase' = [phase EXCEPT ![p] = "down"]
      /\ phase \in [Proc -> {"down", "starting", "running"}]
    BY DEF Crash, TypeOK
  <2> QED
    BY DEF NoRec
<1>6. /\ \A q \in Proc \ {p} : work[q].pc # "idle" => work[q].op \in Op
      /\ \A q \in Proc \ {p} : \A i \in 1..Len(queue[q]) : queue[q][i] \in Op
      /\ \A q \in Proc \ {p} : rec[q].op # NONE => rec[q].op \in Op
  <2>1. \A q \in Proc : rec[q].op # NONE => rec[q].op \in Op
    <3> rec \in [Proc -> Recovery]
      BY DEF TypeOK
    <3> QED
      BY DEF Recovery
  <2> QED
    BY <2>1, WorkerRunning, QueueMember
<1>7. RequestsOwned'
  BY <1>2, <1>3, <1>4, <1>6 DEF Owned, RequestsOwned
<1>8. RequestsDistinct'
  BY <1>3, <1>4 DEF Owned, RequestsDistinct
<1>9. RequestsStarted'
  BY <1>2, <1>3, <1>4, <1>6 DEF Owned, RequestsStarted
<1>10. RecoveryOwned'
  BY <1>2, <1>3, <1>5, <1>6 DEF Owned, RecoveryOwned
<1>11. NothingPlacedYet'
  BY <1>1, <1>2, <1>3, <1>4 DEF JournalInv, NothingPlacedYet
<1>12. JournalCurrent'
  BY <1>1, <1>2, <1>3, <1>6 DEF JournalInv, JournalCurrent
<1>13. JournalAheadOfMove'
  BY <1>1, <1>2 DEF JournalInv, JournalAheadOfMove
<1> QED
  BY <1>7, <1>8, <1>9, <1>10, <1>11, <1>12, <1>13 DEF Owned, JournalInv

LEMMA MoveInvInit == Init => MoveInv
<1> SUFFICES ASSUME Init PROVE MoveInv
  OBVIOUS
<1>1. TypeInv
  BY InitTyped
<1>2. \A p \in Proc : Len(queue[p]) = 0 /\ work[p].pc = "idle" /\ rec[p].op = NONE
  BY DEF Init, Idle, NoRec
<1>3. Owned
  BY <1>2 DEF Owned, RequestsOwned, RequestsDistinct, RequestsStarted, RecoveryOwned
<1>4. \A o \in Op : placed[o] = NONE
  BY DEF Init
<1>5. JournalInv
  BY <1>2, <1>4 DEF JournalInv, NothingPlacedYet, JournalCurrent, JournalAheadOfMove
<1> QED
  BY <1>1, <1>3, <1>5 DEF MoveInv

LEMMA MoveInvStep == MoveInv /\ [Next]_vars => MoveInv'
<1> SUFFICES ASSUME MoveInv, [Next]_vars PROVE MoveInv'
  OBVIOUS
<1>1. TypeInv'
  BY StepTyped DEF MoveInv
<1>2. CASE Users \/ UNCHANGED vars
  <2> UNCHANGED <<ops, phase, queue, work, rec, journal, placed>>
    BY <1>2 DEF Users, UserWrite, UserDelete, vars, dbVars, threadVars
  <2> RowsKept
    BY DEF RowsKept
  <2> QED
    BY <1>1, FrameOwned, FrameJournal DEF MoveInv
<1>3. ASSUME NEW p \in Proc,
             Organizer(p) \/ Worker(p) \/ Reconciler(p) \/ Lifecycle(p) \/ Panic(p) \/ Crash(p)
      PROVE  Owned' /\ JournalInv'
  BY <1>3, OrganizerInv, TakeRequestInv, MoveStepOwned, MoveStepJournal, FinishInv, ReconcilerInv,
     LifecycleInv, CrashInv DEF Worker, MoveStep
<1> QED
  BY <1>1, <1>2, <1>3 DEF Next, MoveInv

LEMMA MoveInvariant == Spec => []MoveInv
<1> QED
  BY MoveInvInit, MoveInvStep, PTL DEF Spec

\* A started operation whose file has appeared at a target has a journal row
\* that names exactly this target and identity, at every moment at which a
\* process can die: the reconciliation never has to guess.
THEOREM MoveJournalAhead == Spec => []JournalAheadOfMove
<1>1. MoveInv => JournalAheadOfMove
  BY DEF MoveInv, JournalInv
<1> QED
  BY <1>1, MoveInvariant, PTL

\* No operation is in the hands of two processes: what a worker holds or has
\* queued belongs to its process and to one place in it, and a starting
\* process reconciles only operations whose owner is gone.
THEOREM MoveOwnedOnce == Spec => []Owned
<1>1. MoveInv => Owned
  BY DEF MoveInv
<1> QED
  BY <1>1, MoveInvariant, PTL

----------------------------------------------------------------------------
(* The files: what a request works on, where every identity is while it is *)
(* moved, rolled back and recovered, and what a completed row says of it.  *)

----------------------------------------------------------------------------
(* The in-flight claims of a process.                                      *)

LEMMA RequestFacts ==
  ASSUME MoveInv, NEW p \in Proc, NEW o \in Requests(p)
  PROVE  o \in Op /\ ops[o].status # "none" /\ ops[o].owner = p
<1> TypeInv /\ Owned
  BY DEF MoveInv
<1>1. CASE \E i \in 1..Len(queue[p]) : o = queue[p][i]
  BY <1>1, QueueMember DEF Owned, RequestsOwned
<1>2. CASE work[p].pc \notin {"idle", "recover"} /\ o = work[p].op
  BY <1>2, WorkerRunning DEF Owned, RequestsOwned
<1> QED
  BY <1>1, <1>2 DEF Requests

LEMMA TouchedSame ==
  ASSUME NEW S, TouchKept(S), NEW o \in S
  PROVE  Touched(o)' = Touched(o)
  BY DEF TouchKept, Touched

LEMMA ClaimsKept ==
  ASSUME NEW p \in Proc, ClaimsOf(p), Requests(p)' = Requests(p), inFlight'[p] = inFlight[p],
         TouchKept(Requests(p))
  PROVE  ClaimsOf(p)'
<1>1. \A o \in Requests(p) : Touched(o)' = Touched(o)
  BY TouchedSame
<1>2. {Touched(o)' : o \in Requests(p)'} = {Touched(o) : o \in Requests(p)}
  BY <1>1
<1> QED
  BY <1>1, <1>2 DEF ClaimsOf

LEMMA ClaimsAdded ==
  ASSUME NEW p \in Proc, NEW o, ClaimsOf(p), Requests(p)' = Requests(p) \cup {o},
         o \notin Requests(p), TouchKept(Requests(p)),
         inFlight'[p] = inFlight[p] \cup Touched(o)', Touched(o)' \cap inFlight[p] = {}
  PROVE  ClaimsOf(p)'
<1>1. \A a \in Requests(p) : Touched(a)' = Touched(a)
  BY TouchedSame
<1>2. {Touched(a)' : a \in Requests(p)'} = {Touched(a) : a \in Requests(p)} \cup {Touched(o)'}
  BY <1>1
<1>3. \A a \in Requests(p) : Touched(a) \subseteq inFlight[p]
  BY DEF ClaimsOf
<1>4. ASSUME NEW a \in Requests(p)', NEW b \in Requests(p)', a # b
      PROVE  Touched(a)' \cap Touched(b)' = {}
  <2>1. CASE a = o
    BY <1>1, <1>3, <1>4, <2>1
  <2>2. CASE b = o
    BY <1>1, <1>3, <1>4, <2>2
  <2>3. CASE a # o /\ b # o
    BY <1>1, <1>4, <2>3 DEF ClaimsOf
  <2> QED
    BY <2>1, <2>2, <2>3
<1>5. inFlight'[p] = UNION {Touched(a)' : a \in Requests(p)'}
  <2>1. inFlight[p] = UNION {Touched(a) : a \in Requests(p)}
    BY DEF ClaimsOf
  <2> QED
    BY <1>2, <2>1
<1> QED
  BY <1>4, <1>5 DEF ClaimsOf

LEMMA ClaimsDropped ==
  ASSUME NEW p \in Proc, NEW o \in Requests(p), ClaimsOf(p), Requests(p)' = Requests(p) \ {o},
         TouchKept(Requests(p)), inFlight'[p] = inFlight[p] \ Touched(o)
  PROVE  ClaimsOf(p)'
<1>1. \A a \in Requests(p) : Touched(a)' = Touched(a)
  BY TouchedSame
<1>2. UNION {Touched(a)' : a \in Requests(p)'} = UNION {Touched(a) : a \in Requests(p) \ {o}}
  BY <1>1
<1>3. UNION {Touched(a) : a \in Requests(p) \ {o}} = inFlight[p] \ Touched(o)
  <2>1. \A a \in Requests(p) \ {o} : Touched(a) \cap Touched(o) = {}
    BY DEF ClaimsOf
  <2> QED
    BY <2>1 DEF ClaimsOf
<1>4. \A a, b \in Requests(p)' : a # b => Touched(a)' \cap Touched(b)' = {}
  BY <1>1 DEF ClaimsOf
<1> QED
  BY <1>2, <1>3, <1>4 DEF ClaimsOf

\* Claims is what a request touches.
LEMMA ClaimsTouched == \A o : Claims(o) = Touched(o)
  BY DEF Claims, Touched

\* A step that takes no request up, and drops none.
LEMMA ClaimsFrame ==
  ASSUME MoveInv, ClaimsInv, UNCHANGED <<inFlight, queue>>,
         \A q \in Proc : TouchKept(Requests(q)),
         \A q \in Proc : Live(q)' <=> Live(q),
         \A q \in Proc : Live(q) => /\ work'[q].op = work[q].op
                                    /\ ops[work[q].op].kind = "undo" =>
                                         work'[q].target = work[q].target
  PROVE  ClaimsInv'
<1>1. \A q \in Proc : Requests(q)' = Requests(q)
  BY DEF Requests, Live
<1>2. \A q \in Proc : Live(q) => work[q].op \in Requests(q)
  BY DEF Requests, Live
<1>3. UndoTarget'
  BY <1>2 DEF ClaimsInv, UndoTarget, TouchKept, Live
<1>4. ClaimsMatchRequests'
  <2> SUFFICES ASSUME NEW q \in Proc PROVE ClaimsOf(q)'
    BY DEF ClaimsMatchRequests, ClaimsOf
  <2>1. ClaimsOf(q)
    BY DEF ClaimsInv, ClaimsMatchRequests, ClaimsOf
  <2> QED
    BY <1>1, <2>1, ClaimsKept
<1> QED
  BY <1>3, <1>4 DEF ClaimsInv

\* The request of a step keeps the target it undoes.
LEMMA MoveStepTarget ==
  ASSUME TypeInv, NEW p \in Proc, MoveStep(p), Undoing(p)
  PROVE  work'[p].target = work[p].target
<1>1. work[p].pc # "idle"
  BY MoveStepMoves
<1>2. work[p].snap \in Snap /\ ops[work[p].op].snap \in Snap /\ work[p] \in Request
      /\ work \in [Proc -> Request]
  BY <1>1, WorkerRunning DEF RowFilled, TypeInv, TypeOK
<1> {"failed", "cancelled"} \subseteq Terminal
    /\ {"recheck", "lock", "rename", "delete", "finish"} \subseteq Busy
  BY DEF Terminal, Statuses, Busy
<1>3. ASSUME NEW next, Divert(p, next) PROVE Report(p, "failed")
  BY <1>3 DEF Divert
<1>4. CASE Report(p, "failed") \/ Report(p, "cancelled")
  BY <1>1, <1>4, ReportMoves DEF Step
<1>5. CASE \E pc \in Busy : Goto(p, pc)
  BY <1>2, <1>5 DEF Goto, Request
<1>6. CASE Moved(p, work[p].snap) \/ Moved(p, ops[work[p].op].snap)
  BY <1>1, <1>2, <1>6, MovedMoves DEF Step
<1>7. CASE \E c : work' = [work EXCEPT ![p].pc = "publish", ![p].snap = c]
  BY <1>2, <1>7 DEF Request
<1>8. \/ Report(p, "failed") \/ Report(p, "cancelled") \/ \E pc \in Busy : Goto(p, pc)
      \/ Moved(p, work[p].snap) \/ Moved(p, ops[work[p].op].snap)
      \/ \E c : work' = [work EXCEPT ![p].pc = "publish", ![p].snap = c]
  BY <1>3 DEF MoveStep, CheckMove, RecheckActivation, LockAndJournal, RenameInVolume,
     CopyAndJournal, PublishCopy, DeleteSource, ExemptRestored, Cur
<1> QED
  BY <1>4, <1>5, <1>6, <1>7, <1>8

LEMMA MoveStepClaims ==
  ASSUME MoveInv, ClaimsInv, NEW p \in Proc, MoveStep(p)
  PROVE  ClaimsInv'
<1> TypeInv
  BY DEF MoveInv
<1>1. UNCHANGED <<ops, queue, inFlight>>
  BY DEF MoveStep, CheckMove, RecheckActivation, LockAndJournal, RenameInVolume, CopyAndJournal,
         PublishCopy, DeleteSource, ExemptRestored, workOnly, dbVars, threadVars
<1>2. /\ work'[p].op = work[p].op /\ work'[p].pc \notin {"idle", "recover"}
      /\ \A q \in Proc \ {p} : work'[q] = work[q]
  BY MoveStepMoves DEF MoveOn, Step, Busy
<1>3. work[p].pc \notin {"idle", "recover"}
  BY DEF MoveStep, At, CheckMove, RecheckActivation, LockAndJournal, RenameInVolume,
         CopyAndJournal, PublishCopy, DeleteSource, ExemptRestored
<1>4. ops[work[p].op].kind = "undo" => work'[p].target = work[p].target
  BY MoveStepTarget DEF Undoing, Cur
<1>5. \A q \in Proc : TouchKept(Requests(q))
  BY <1>1 DEF TouchKept
<1> QED
  BY <1>1, <1>2, <1>3, <1>4, <1>5, ClaimsFrame DEF Live

\* A row is new: no request is for it, and the rows of the requests stay.
LEMMA NewRowTouch ==
  ASSUME MoveInv, NEW p \in Proc, NEW o \in Op, NewRow(p, o), NEW q \in Proc
  PROVE  o \notin Requests(q) /\ TouchKept(Requests(q))
<1>1. \A a \in Requests(q) : a \in Op /\ ops[a].status # "none"
  BY RequestFacts
<1> QED
  BY <1>1 DEF NewRow, TouchKept

\* A submitted request is one more of its process.
LEMMA SubmitRequests ==
  ASSUME TypeOK, NEW p \in Proc, NEW o \in Op, Submit(p, o), work' = work
  PROVE  /\ Requests(p)' = Requests(p) \cup {o}
         /\ \A q \in Proc \ {p} : Requests(q)' = Requests(q)
<1>1. queue' = [queue EXCEPT ![p] = Append(@, o)] /\ queue \in [Proc -> Seq(Op)]
      /\ queue[p] \in Seq(Op)
  BY DEF Submit, TypeOK
<1>2. queue'[p] = Append(queue[p], o) /\ \A q \in Proc \ {p} : queue'[q] = queue[q]
  BY <1>1
<1>3. {queue'[p][i] : i \in 1..Len(queue'[p])} = {queue[p][i] : i \in 1..Len(queue[p])} \cup {o}
  <2>1. /\ Len(queue[p]) \in Nat /\ Len(queue'[p]) = Len(queue[p]) + 1
        /\ queue'[p][Len(queue[p]) + 1] = o
        /\ \A i \in 1..Len(queue[p]) : queue'[p][i] = queue[p][i]
    BY <1>1, <1>2
  <2>2. ASSUME NEW r \in {queue'[p][i] : i \in 1..Len(queue'[p])}
        PROVE  r \in {queue[p][i] : i \in 1..Len(queue[p])} \cup {o}
    <3>1. PICK i \in 1..Len(queue'[p]) : r = queue'[p][i]
      BY <2>2
    <3>2. i \in 1..Len(queue[p]) \/ i = Len(queue[p]) + 1
      BY <2>1
    <3> QED
      BY <2>1, <3>1, <3>2
  <2>3. ASSUME NEW r \in {queue[p][i] : i \in 1..Len(queue[p])} \cup {o}
        PROVE  r \in {queue'[p][i] : i \in 1..Len(queue'[p])}
    <3>1. CASE r = o
      <4>1. Len(queue[p]) + 1 \in 1..Len(queue'[p])
        BY <2>1
      <4> QED
        BY <2>1, <3>1, <4>1
    <3>2. CASE r \in {queue[p][i] : i \in 1..Len(queue[p])}
      <4>1. PICK i \in 1..Len(queue[p]) : r = queue[p][i]
        BY <3>2
      <4>2. i \in 1..Len(queue'[p])
        BY <2>1
      <4> QED
        BY <2>1, <4>1, <4>2
    <3> QED
      BY <2>3, <3>1, <3>2
  <2> QED
    BY Zenon, <2>2, <2>3
<1>4. Requests(p)' = Requests(p) \cup {o}
  BY <1>3 DEF Requests
<1>5. ASSUME NEW q \in Proc \ {p} PROVE Requests(q)' = Requests(q)
  BY <1>2, <1>5 DEF Requests
<1> QED
  BY <1>4, <1>5

LEMMA SubmitClaims ==
  ASSUME MoveInv, ClaimsInv, NEW p \in Proc, NEW o \in Op, NewRow(p, o), Submit(p, o), work' = work,
         Claims(o)' \cap inFlight[p] = {}
  PROVE  ClaimsInv'
<1> TypeInv /\ TypeOK
  BY DEF MoveInv, TypeInv
<1>1. \A q \in Proc : o \notin Requests(q) /\ TouchKept(Requests(q))
  BY NewRowTouch
<1>2. /\ Requests(p)' = Requests(p) \cup {o}
      /\ \A q \in Proc \ {p} : Requests(q)' = Requests(q)
  BY SubmitRequests
<1>3. /\ inFlight'[p] = inFlight[p] \cup Touched(o)'
      /\ \A q \in Proc \ {p} : inFlight'[q] = inFlight[q]
      /\ Touched(o)' \cap inFlight[p] = {}
  <2>1. Claims(o)' = Touched(o)'
    BY DEF Claims, Touched
  <2>2. inFlight' = [inFlight EXCEPT ![p] = @ \cup Claims(o)'] /\ inFlight \in [Proc -> SUBSET Path]
    BY DEF Submit, TypeOK
  <2> QED
    BY <2>1, <2>2
<1>4. UndoTarget'
  <2>1. \A q \in Proc : Live(q) => work[q].op \in Requests(q)
    BY DEF Live, Requests
  <2> QED
    BY <1>1, <2>1 DEF ClaimsInv, UndoTarget, TouchKept, Live
<1>5. ClaimsMatchRequests'
  <2> SUFFICES ASSUME NEW q \in Proc PROVE ClaimsOf(q)'
    BY DEF ClaimsMatchRequests, ClaimsOf
  <2>1. ClaimsOf(q)
    BY DEF ClaimsInv, ClaimsMatchRequests, ClaimsOf
  <2>2. CASE q = p
    BY <1>1, <1>2, <1>3, <2>1, <2>2, ClaimsAdded
  <2>3. CASE q # p
    BY <1>1, <1>2, <1>3, <2>1, <2>3, ClaimsKept
  <2> QED
    BY <2>2, <2>3
<1> QED
  BY <1>4, <1>5 DEF ClaimsInv

LEMMA OrganizerClaims ==
  ASSUME MoveInv, ClaimsInv, NEW p \in Proc, Organizer(p)
  PROVE  ClaimsInv'
<1> TypeInv /\ TypeOK /\ Filled
  BY DEF MoveInv, TypeInv
<1>0. ASSUME UNCHANGED <<inFlight, queue, work>>,
             ops' = ops \/ \E o \in Op : NewRow(p, o)
      PROVE  ClaimsInv'
  <2>1. \A q \in Proc : TouchKept(Requests(q))
    <3>1. CASE ops' = ops
      BY <3>1 DEF TouchKept
    <3>2. CASE \E o \in Op : NewRow(p, o)
      BY <3>2, NewRowTouch
    <3> QED
      BY <1>0, <3>1, <3>2
  <2> QED
    BY <1>0, <2>1, ClaimsFrame DEF Live
<1>1. CASE \E x \in Watched : Notice(p, x) \/ TakeStable(p, x)
  <2> UNCHANGED <<ops, queue, work, inFlight>>
    BY <1>1 DEF Notice, TakeStable, dbVars
  <2> QED
    BY <1>0
<1>2. CASE Dispatch(p)
  <2> DEFINE x == checked[p]
             snap == pending[p][x]
  <2>1. x \in Watched /\ snap \in Snap /\ x \in Path /\ Home[x] \in Path
    BY <1>2, MoveAssumption DEF Dispatch, Filled, CheckedFilled, TypeOK
  <2>2. work' = work
    BY <1>2 DEF Dispatch, KeepPending
  <2>3. \/ UNCHANGED <<ops, queue, inFlight>>
        \/ \E o \in Op : InsertRow(o, p, "move", NONE, "skipped", x, Home[x], snap)
                         /\ UNCHANGED <<queue, inFlight>>
        \/ /\ x \notin inFlight[p]
           /\ \E o \in Op : InsertRow(o, p, "move", NONE, "started", x, Home[x], snap)
                            /\ Submit(p, o)
    BY <1>2 DEF Dispatch, KeepPending, dbVars
  <2>4. ASSUME NEW o \in Op, NEW st \in {"started", "skipped"},
               InsertRow(o, p, "move", NONE, st, x, Home[x], snap)
        PROVE  NewRow(p, o) /\ Claims(o)' = {x}
    BY <2>1, <2>4, InsertNew, InsertTyped DEF Claims
  <2>5. CASE UNCHANGED <<ops, queue, inFlight>>
    BY <1>0, <2>2, <2>5
  <2>6. CASE \E o \in Op : InsertRow(o, p, "move", NONE, "skipped", x, Home[x], snap)
                           /\ UNCHANGED <<queue, inFlight>>
    BY <1>0, <2>2, <2>4, <2>6
  <2>7. CASE x \notin inFlight[p]
             /\ \E o \in Op : InsertRow(o, p, "move", NONE, "started", x, Home[x], snap)
                              /\ Submit(p, o)
    BY <2>2, <2>4, <2>7, SubmitClaims
  <2> QED
    BY <2>3, <2>5, <2>6, <2>7
<1>3. ASSUME NEW q \in Op, RetryOperation(p, q) PROVE ClaimsInv'
  <2>1. /\ ops[q].src \in Watched /\ ops[q].src \in Path /\ Home[ops[q].src] \in Path
        /\ ops[q].snap \in Snap
    BY <1>3, MoveAssumption DEF RetryOperation, Filled, RowsFilled, RowFilled
  <2> PICK o \in Op :
        /\ InsertRow(o, p, "retry", q, "started", ops[q].src, Home[ops[q].src], ops[q].snap)
        /\ Submit(p, o)
    BY <1>3 DEF RetryOperation
  <2>2. NewRow(p, o) /\ Claims(o)' = {ops[q].src}
    BY <2>1, InsertNew, InsertTyped DEF Claims
  <2>3. work' = work /\ ops[q].src \notin inFlight[p]
    BY <1>3 DEF RetryOperation
  <2> QED
    BY <2>2, <2>3, SubmitClaims
<1>4. ASSUME NEW q \in Op, UndoOperation(p, q) PROVE ClaimsInv'
  <2>1. ops[q].src \in Path /\ ops[q].dst \in Path /\ ops[q].after \in Snap
    BY <1>4 DEF UndoOperation, Filled, RowsFilled, RowFilled
  <2> PICK o \in Op :
        /\ InsertRow(o, p, "undo", q, "started", ops[q].dst, ops[q].src, ops[q].after)
        /\ Submit(p, o)
    BY <1>4 DEF UndoOperation
  <2>2. NewRow(p, o) /\ Claims(o)' = {ops[q].dst, ops[q].src}
    BY <2>1, InsertNew, InsertTyped DEF Claims
  <2>3. work' = work /\ {ops[q].src, ops[q].dst} \cap inFlight[p] = {}
    BY <1>4 DEF UndoOperation
  <2> QED
    BY <2>2, <2>3, SubmitClaims
<1> QED
  BY <1>1, <1>2, <1>3, <1>4 DEF Organizer

\* What closing a row leaves of the paths it names.
LEMMA CloseColumns ==
  ASSUME TypeInv, NEW o \in Op, NEW st \in Terminal, NEW dst, NEW snap,
         CloseRow(o, st, dst, snap)
  PROVE  /\ \A a \in Op : /\ ops'[a].kind = ops[a].kind /\ ops'[a].src = ops[a].src
                          /\ ops'[a].snap = ops[a].snap
         /\ \A a \in Op \ {o} : /\ ops'[a].dst = ops[a].dst /\ ops'[a].after = ops[a].after
                                /\ ops'[a].status = ops[a].status
         /\ \/ ops'[o] = ops[o]
            \/ /\ ops[o].status = "started" /\ ops'[o].status = st
               /\ IF st = "completed" THEN ops'[o].dst = dst /\ ops'[o].after = snap
                  ELSE ops'[o].dst = ops[o].dst
<1>1. CASE ops[o].status # "started"
  BY <1>1 DEF CloseRow, dbVars
<1>2. CASE ops[o].status = "started"
  <2>1. ops' = Closed(o, st, dst, snap) /\ ops \in [Op -> OpRow]
    BY <1>2 DEF CloseRow, TypeInv, TypeOK
  <2>2. /\ ops'[o].kind = ops[o].kind /\ ops'[o].src = ops[o].src /\ ops'[o].snap = ops[o].snap
        /\ ops'[o].status = st
        /\ IF st = "completed" THEN ops'[o].dst = dst /\ ops'[o].after = snap
           ELSE ops'[o].dst = ops[o].dst
    <3>1. ops'[o] = [ops[o] EXCEPT !.status = st,
                                   !.dst = IF st = "completed" THEN dst ELSE @,
                                   !.after = IF st = "completed" THEN snap ELSE @]
      BY <2>1 DEF Closed
    <3> QED
      BY <2>1, <3>1 DEF OpRow
  <2>3. ASSUME NEW a \in Op \ {o}
        PROVE  /\ ops'[a].kind = ops[a].kind /\ ops'[a].src = ops[a].src
               /\ ops'[a].snap = ops[a].snap /\ ops'[a].dst = ops[a].dst
               /\ ops'[a].after = ops[a].after /\ ops'[a].status = ops[a].status
    <3>1. ops'[a] = ops[a] \/ ops'[a] = [ops[a] EXCEPT !.undone = TRUE]
      BY <2>1 DEF Closed
    <3>2. ops[a] \in OpRow
      BY <2>1
    <3> QED
      BY <3>1, <3>2 DEF OpRow
  <2> QED
    BY <1>2, <2>2, <2>3
<1> QED
  BY <1>1, <1>2

LEMMA TakeRequestClaims ==
  ASSUME MoveInv, ClaimsInv, NEW p \in Proc, TakeRequest(p)
  PROVE  ClaimsInv'
<1> TypeInv /\ TypeOK
  BY DEF MoveInv, TypeInv
<1> DEFINE o == Head(queue[p])
           w == [pc |-> "check", op |-> o, target |-> ops[o].dst, snap |-> ops[o].snap,
                 result |-> "none"]
           rest == Tail(queue[p])
<1>1. queue[p] \in Seq(Op) /\ queue[p] # << >> /\ work[p].pc = "idle"
      /\ queue \in [Proc -> Seq(Op)] /\ work \in [Proc -> Request]
      /\ UNCHANGED <<ops, inFlight>>
  BY DEF TypeOK, TakeRequest, At, dbVars
<1>2. {queue[p][i] : i \in 1..Len(queue[p])} = {rest[i] : i \in 1..Len(rest)} \cup {o}
  <2>1. /\ Len(queue[p]) \in Nat /\ Len(queue[p]) >= 1 /\ o = queue[p][1]
        /\ Len(rest) = Len(queue[p]) - 1
        /\ \A i \in 1..Len(rest) : rest[i] = queue[p][i + 1]
    BY <1>1
  <2> HIDE DEF rest, o
  <2>2. ASSUME NEW i \in 1..Len(queue[p])
        PROVE  queue[p][i] \in {rest[j] : j \in 1..Len(rest)} \cup {o}
    <3>1. CASE i = 1
      BY <2>1, <3>1
    <3>2. CASE i # 1
      <4>1. i - 1 \in 1..Len(rest) /\ rest[i - 1] = queue[p][i]
        BY <2>1, <3>2
      <4> QED
        BY <4>1
    <3> QED
      BY <3>1, <3>2
  <2>3. ASSUME NEW i \in 1..Len(rest) PROVE i + 1 \in 1..Len(queue[p])
    BY <2>1
  <2>4. 1 \in 1..Len(queue[p])
    BY <2>1
  <2> QED
    BY <2>1, <2>2, <2>3, <2>4
<1>3. /\ work'[p] = w /\ queue'[p] = rest
      /\ \A q \in Proc \ {p} : work'[q] = work[q] /\ queue'[q] = queue[q]
  <2>1. work' = [work EXCEPT ![p] = w] /\ queue' = [queue EXCEPT ![p] = rest]
    BY DEF TakeRequest
  <2> HIDE DEF w, rest
  <2> QED
    BY <1>1, <2>1
<1>4. w.pc = "check" /\ w.op = o /\ w.target = ops[o].dst
  OBVIOUS
<1> HIDE DEF w, rest, o
<1>5. \A q \in Proc : Requests(q)' = Requests(q) /\ inFlight'[q] = inFlight[q]
                      /\ TouchKept(Requests(q))
  <2>1. Requests(p) = {queue[p][i] : i \in 1..Len(queue[p])}
    BY <1>1 DEF Requests
  <2>2. Requests(p)' = {rest[i] : i \in 1..Len(rest)} \cup {o}
    BY <1>3, <1>4 DEF Requests
  <2>3. \A q \in Proc \ {p} : Requests(q)' = Requests(q)
    BY <1>3 DEF Requests
  <2> QED
    BY <1>1, <1>2, <2>1, <2>2, <2>3 DEF TouchKept
<1>6. UndoTarget'
  BY <1>1, <1>3, <1>4 DEF ClaimsInv, UndoTarget
<1>7. ClaimsMatchRequests'
  <2> SUFFICES ASSUME NEW q \in Proc PROVE ClaimsOf(q)'
    BY DEF ClaimsMatchRequests, ClaimsOf
  <2>1. ClaimsOf(q)
    BY DEF ClaimsInv, ClaimsMatchRequests, ClaimsOf
  <2> QED
    BY <1>5, <2>1, ClaimsKept
<1> QED
  BY <1>6, <1>7 DEF ClaimsInv

\* A request is in one place of its process.
LEMMA RequestOnce ==
  ASSUME MoveInv, NEW p \in Proc, Live(p)
  PROVE  /\ work[p].op \in Requests(p)
         /\ \A i \in 1..Len(queue[p]) : queue[p][i] # work[p].op
         /\ \A q \in Proc \ {p} : work[p].op \notin Requests(q)
<1>1. work[p].pc # "idle"
  BY DEF Live
<1>2. work[p].op \in Requests(p) /\ \A i \in 1..Len(queue[p]) : queue[p][i] # work[p].op
  BY <1>1, HeldAlone DEF Live, Requests
<1>3. ASSUME NEW q \in Proc \ {p} PROVE work[p].op \notin Requests(q)
  BY <1>2, RequestFacts
<1> QED
  BY <1>2, <1>3

LEMMA FinishClaims ==
  ASSUME MoveInv, ClaimsInv, NEW p \in Proc, Finish(p)
  PROVE  ClaimsInv'
<1> TypeInv /\ TypeOK
  BY DEF MoveInv, TypeInv
<1> DEFINE o == work[p].op
<1>1. work[p].pc = "finish" /\ Live(p) /\ UNCHANGED <<inFlight, queue>>
  BY DEF Finish, At, Live, threadVars
<1>2. o \in Op /\ work[p].result \in Terminal
  BY <1>1, WorkerRunning
<1>3. /\ work'[p].pc = "release" /\ work'[p].op = o /\ work'[p].target = work[p].target
      /\ \A q \in Proc \ {p} : work'[q] = work[q]
  <2> Goto(p, "release") /\ "release" \in Busy
    BY DEF Finish, Busy
  <2> QED
    BY <1>1, GotoMoves DEF Step
<1>4. \A a \in Op : /\ ops'[a].kind = ops[a].kind /\ ops'[a].src = ops[a].src
                    /\ ops[a].kind = "undo" /\ (a # o \/ work[p].target = ops[o].dst)
                         => ops'[a].dst = ops[a].dst
  <2>1. CASE UNCHANGED dbVars
    BY <2>1 DEF dbVars
  <2>2. CASE CloseRow(o, work[p].result, work[p].target, work[p].snap)
    BY <1>2, <2>2, CloseColumns
  <2> QED
    BY <2>1, <2>2 DEF Finish, Cur
<1>5. ops[o].kind = "undo" => work[p].target = ops[o].dst
  BY <1>1 DEF ClaimsInv, UndoTarget
<1>6. \A q \in Proc : TouchKept(Requests(q))
  <2>1. \A q \in Proc : Requests(q) \subseteq Op
    BY RequestFacts
  <2> QED
    BY <1>4, <1>5, <2>1 DEF TouchKept
<1> QED
  BY <1>1, <1>3, <1>6, ClaimsFrame DEF Live

LEMMA DropClaims ==
  ASSUME MoveInv, ClaimsInv, NEW p \in Proc, Release(p) \/ Panic(p)
  PROVE  ClaimsInv'
<1> TypeInv /\ TypeOK
  BY DEF MoveInv, TypeInv
<1> DEFINE o == work[p].op
<1>1. Live(p) /\ work[p].pc # "idle" /\ UNCHANGED <<ops, queue>>
  BY DEF Release, Panic, At, Live, threadVars, dbVars
<1>2. /\ work'[p].pc \in {"idle", "recover"} /\ \A q \in Proc \ {p} : work'[q] = work[q]
  <2>1. CASE Release(p)
    <3>1. work' = [work EXCEPT ![p] = Idle] /\ work \in [Proc -> Request]
      BY <2>1 DEF Release, TypeOK
    <3> QED
      BY <3>1 DEF Idle
  <2>2. CASE Panic(p)
    <3>1. Goto(p, "recover") /\ "recover" \in Busy
      BY <2>2 DEF Panic, Busy
    <3> QED
      BY <1>1, <3>1, GotoMoves DEF Step
  <2> QED
    BY <2>1, <2>2
<1>3. /\ inFlight'[p] = inFlight[p] \ Touched(o)
      /\ \A q \in Proc \ {p} : inFlight'[q] = inFlight[q]
  <2>1. inFlight' = [inFlight EXCEPT ![p] = @ \ Claims(o)] /\ inFlight \in [Proc -> SUBSET Path]
    BY DEF Release, Panic, TypeOK, Cur
  <2>2. Claims(o) = Touched(o)
    BY ClaimsTouched
  <2> HIDE DEF o
  <2> QED
    BY <2>1, <2>2
<1>4. o \in Requests(p) /\ \A i \in 1..Len(queue[p]) : queue[p][i] # o
  BY <1>1, RequestOnce
<1>5. Requests(p)' = Requests(p) \ {o} /\ \A q \in Proc \ {p} : Requests(q)' = Requests(q)
  BY <1>1, <1>2, <1>4 DEF Requests, Live
<1>6. \A q \in Proc : TouchKept(Requests(q))
  BY <1>1 DEF TouchKept
<1>7. UndoTarget'
  BY <1>1, <1>2 DEF ClaimsInv, UndoTarget
<1>8. ClaimsMatchRequests'
  <2> SUFFICES ASSUME NEW q \in Proc PROVE ClaimsOf(q)'
    BY DEF ClaimsMatchRequests, ClaimsOf
  <2>1. ClaimsOf(q)
    BY DEF ClaimsInv, ClaimsMatchRequests, ClaimsOf
  <2>2. CASE q = p
    BY <1>3, <1>4, <1>5, <1>6, <2>1, <2>2, ClaimsDropped
  <2>3. CASE q # p
    BY <1>3, <1>5, <1>6, <2>1, <2>3, ClaimsKept
  <2> QED
    BY <2>2, <2>3
<1> QED
  BY <1>7, <1>8 DEF ClaimsInv

LEMMA ReconcilerClaims ==
  ASSUME MoveInv, ClaimsInv, NEW p \in Proc, Reconciler(p) \/ Lifecycle(p)
  PROVE  ClaimsInv'
<1> TypeInv /\ TypeOK /\ Filled /\ Owned
  BY DEF MoveInv, TypeInv
<1>0. UNCHANGED <<queue, inFlight>>
  BY DEF Reconciler, PickInterrupted, Look, RemoveCopy, CloseReconciled, Lifecycle, Start, Ready,
         recOnly, threadVars
<1>1. CASE UNCHANGED <<ops, work>>
  <2> \A q \in Proc : TouchKept(Requests(q))
    BY <1>1 DEF TouchKept
  <2> QED
    BY <1>0, <1>1, ClaimsFrame DEF Live
<1>2. CASE RemoveCopy(p) \/ CloseReconciled(p)
  <2>1. rec[p].op # NONE /\ rec[p] \in Recovery /\ rec[p].op \in Op
    BY <1>2 DEF RemoveCopy, CloseReconciled, Filled, RecFilled, Recovery, TypeOK
  <2>2. work[p].pc \in {"idle", "recover"}
    <3>1. CASE phase[p] = "starting"
      BY <3>1 DEF Filled, Quiet, Idle
    <3>2. CASE work[p].pc = "recover"
      BY <3>2
    <3> QED
      BY <2>1, <3>1, <3>2 DEF Owned, RecoveryOwned
  <2>3. \A q \in Proc : rec[p].op \notin Requests(q)
    BY <2>1, <2>2, RecoveredAlone DEF Requests
  <2>4. work' = work \/ work' = [work EXCEPT ![p] = Idle]
    BY <1>2 DEF RemoveCopy, CloseReconciled, EndRec
  <2>5. \A q \in Proc : work'[q] = work[q] \/ (q = p /\ work'[q].pc = "idle")
    BY <2>4 DEF TypeOK, Idle
  <2>6. \A q \in Proc : TouchKept(Requests(q))
    <3>1. CASE ops' = ops
      BY <3>1 DEF TouchKept
    <3>2. CASE \E st \in Terminal : \E dst, snap : CloseRow(rec[p].op, st, dst, snap)
      <4>1. \A q \in Proc : \A o \in Requests(q) : o \in Op \ {rec[p].op}
        BY <2>3, RequestFacts
      <4>2. \A a \in Op \ {rec[p].op} : /\ ops'[a].kind = ops[a].kind /\ ops'[a].src = ops[a].src
                                        /\ ops'[a].dst = ops[a].dst
        BY <2>1, <3>2, CloseColumns
      <4> QED
        BY <4>1, <4>2 DEF TouchKept
    <3>3. {"completed", "failed"} \subseteq Terminal
      BY DEF Terminal, Statuses
    <3> QED
      BY <1>2, <3>1, <3>2, <3>3 DEF RemoveCopy, CloseReconciled, dbVars
  <2>7. \A q \in Proc : Live(q)' <=> Live(q)
    BY <2>2, <2>5 DEF Live
  <2>8. \A q \in Proc : Live(q) => work'[q] = work[q]
    BY <2>2, <2>5 DEF Live
  <2> QED
    BY <1>0, <2>6, <2>7, <2>8, ClaimsFrame
<1>3. UNCHANGED <<ops, work>> \/ RemoveCopy(p) \/ CloseReconciled(p)
  BY DEF Reconciler, PickInterrupted, Look, Lifecycle, Start, Ready, recOnly, dbVars
<1> QED
  BY <1>1, <1>2, <1>3

LEMMA CrashClaims ==
  ASSUME MoveInv, ClaimsInv, NEW p \in Proc, Crash(p)
  PROVE  ClaimsInv'
<1> TypeInv /\ TypeOK
  BY DEF MoveInv, TypeInv
<1>1. \A o \in Op : ops'[o].kind = ops[o].kind /\ ops'[o].src = ops[o].src /\ ops'[o].dst = ops[o].dst
  <2> SUFFICES ASSUME NEW o \in Op
               PROVE  ops'[o].kind = ops[o].kind /\ ops'[o].src = ops[o].src
                      /\ ops'[o].dst = ops[o].dst
    OBVIOUS
  <2>1. /\ ops[o] \in OpRow
        /\ ops'[o] = ops[o] \/ ops'[o] = [ops[o] EXCEPT !.owner = NONE]
    BY DEF Crash, TypeOK
  <2> QED
    BY <2>1 DEF OpRow
<1>2. /\ work'[p].pc = "idle" /\ queue'[p] = << >> /\ inFlight'[p] = {}
      /\ \A q \in Proc \ {p} : /\ work'[q] = work[q] /\ queue'[q] = queue[q]
                               /\ inFlight'[q] = inFlight[q]
  <2>1. /\ work' = [work EXCEPT ![p] = Idle] /\ work \in [Proc -> Request]
        /\ queue' = [queue EXCEPT ![p] = << >>] /\ queue \in [Proc -> Seq(Op)]
        /\ inFlight' = [inFlight EXCEPT ![p] = {}] /\ inFlight \in [Proc -> SUBSET Path]
    BY DEF Crash, TypeOK
  <2> QED
    BY <2>1 DEF Idle
<1>3. \A q \in Proc : TouchKept(Requests(q)) /\ (Live(q) => work[q].op \in Op)
  <2>1. \A q \in Proc : Requests(q) \subseteq Op
    BY RequestFacts
  <2>2. \A q \in Proc : Live(q) => work[q].op \in Op
    BY WorkerRunning DEF Live
  <2> QED
    BY <1>1, <2>1, <2>2 DEF TouchKept
<1>4. UndoTarget'
  BY <1>1, <1>2, <1>3 DEF ClaimsInv, UndoTarget, Live
<1>5. ClaimsMatchRequests'
  <2> SUFFICES ASSUME NEW q \in Proc PROVE ClaimsOf(q)'
    BY DEF ClaimsMatchRequests, ClaimsOf
  <2>1. CASE q = p
    <3>1. Requests(q)' = {}
      BY <1>2, <2>1 DEF Requests
    <3> QED
      BY <1>2, <2>1, <3>1 DEF ClaimsOf
  <2>2. CASE q # p
    <3>1. ClaimsOf(q) /\ Requests(q)' = Requests(q)
      BY <1>2, <2>2 DEF ClaimsInv, ClaimsMatchRequests, ClaimsOf, Requests
    <3> QED
      BY <1>2, <1>3, <2>2, <3>1, ClaimsKept
  <2> QED
    BY <2>1, <2>2
<1> QED
  BY <1>4, <1>5 DEF ClaimsInv

LEMMA ClaimsStep == MoveInv /\ ClaimsInv /\ [Next]_vars => ClaimsInv'
<1> SUFFICES ASSUME MoveInv, ClaimsInv, [Next]_vars PROVE ClaimsInv'
  OBVIOUS
<1>1. CASE Users \/ UNCHANGED vars
  <2> UNCHANGED <<ops, queue, work, inFlight>>
    BY <1>1 DEF Users, UserWrite, UserDelete, vars, dbVars, threadVars
  <2> \A q \in Proc : TouchKept(Requests(q))
    BY DEF TouchKept
  <2> QED
    BY ClaimsFrame DEF Live
<1>2. ASSUME NEW p \in Proc,
             Organizer(p) \/ Worker(p) \/ Reconciler(p) \/ Lifecycle(p) \/ Panic(p) \/ Crash(p)
      PROVE  ClaimsInv'
  BY <1>2, OrganizerClaims, TakeRequestClaims, MoveStepClaims, FinishClaims, DropClaims,
     ReconcilerClaims, CrashClaims DEF Worker, MoveStep
<1> QED
  BY <1>1, <1>2 DEF Next

LEMMA ClaimsInit == Init => ClaimsInv
<1> SUFFICES ASSUME Init PROVE ClaimsInv
  OBVIOUS
<1>1. \A p \in Proc : work[p].pc = "idle" /\ Requests(p) = {} /\ inFlight[p] = {}
  BY DEF Init, Idle, Requests
<1> QED
  BY <1>1 DEF ClaimsInv, UndoTarget, ClaimsMatchRequests

\* The in-flight paths of a process are those that its live requests touch, and no
\* two of its requests touch the same path, whatever fails, panics or crashes.
THEOREM MoveClaims == Spec => []ClaimsMatchRequests
<1>1. Init => MoveInv /\ ClaimsInv
  BY MoveInvInit, ClaimsInit
<1>2. MoveInv /\ ClaimsInv /\ [Next]_vars => MoveInv' /\ ClaimsInv'
  BY MoveInvStep, ClaimsStep
<1>3. ClaimsInv => ClaimsMatchRequests
  BY DEF ClaimsInv
<1> QED
  BY <1>1, <1>2, <1>3, PTL DEF Spec

----------------------------------------------------------------------------
(* The files.                                                              *)

LEMMA PutKept ==
  ASSUME PlacedKept
  PROVE  \A x, snap : PutIn(placed, x, snap) => PutIn(placed', x, snap)
  BY DEF PlacedKept, PutIn

\* Files disappear; no copy is made and nothing is journaled.
LEMMA FilesLose ==
  ASSUME FilesInv, serial' = serial, \A x \in Path : disk'[x] \in {disk[x], NONE},
         \A o \in Op : journal'[o] \in {journal[o], NONE},
         \A q \in Proc : work'[q].pc = "publish" => work'[q] = work[q]
  PROVE  DistinctFiles' /\ KnownIds' /\ CopiesHidden'
<1> DistinctFiles /\ KnownIds /\ CopiesHidden
  BY DEF FilesInv, DiskInv
<1>1. DistinctFiles'
  BY DEF DistinctFiles
<1>2. KnownIds'
  BY DEF KnownIds
<1>3. CopiesHidden'
  BY DEF CopiesHidden
<1> QED
  BY <1>1, <1>2, <1>3

\* Nothing is newly held, and what is held is left alone.
LEMMA HeldKept ==
  ASSUME MoveInv, FilesInv, FileKept,
         \A q \in Proc :
           \/ /\ work'[q] = work[q]
              /\ work[q].pc \in Holding => disk'[ops[work[q].op].src] = disk[ops[work[q].op].src]
              /\ work[q].pc = "delete" => disk'[work[q].target] = disk[work[q].target]
           \/ /\ work'[q].pc \notin Holding
              /\ work'[q].pc \in {"recheck", "lock"} => work'[q].target # ops'[work'[q].op].src
  PROVE  HeldInPlace' /\ HeldOnce'
<1> TypeInv /\ HeldInPlace /\ HeldOnce
  BY DEF FilesInv, DiskInv, MoveInv
<1>1. \A q \in Proc : work[q].pc # "idle" =>
        ops'[work[q].op].src = ops[work[q].op].src /\ ops'[work[q].op].snap = ops[work[q].op].snap
  BY WorkerRunning DEF FileKept
<1>2. \A q \in Proc : work'[q].pc \in Holding => work'[q] = work[q]
  OBVIOUS
<1>3. HeldInPlace'
  BY <1>1 DEF HeldInPlace, Holding
<1>4. HeldOnce'
  BY <1>1, <1>2 DEF HeldOnce, Holding
<1> QED
  BY <1>3, <1>4

\* What is recorded of a file: by the journal, by a request, by a reconciliation
\* and by a row.
LEMMA RecordsKept ==
  ASSUME MoveInv, FilesInv, PlacedKept,
         \A o \in Op : journal'[o] # NONE /\ disk'[journal'[o].dst] = journal'[o].snap =>
           \/ journal[o] = journal'[o] /\ disk[journal[o].dst] = journal[o].snap
           \/ PutIn(placed', journal'[o].dst, journal'[o].snap),
         \A q \in Proc :
           \/ work'[q] = work[q]
           \/ /\ work'[q].pc = "delete" =>
                   /\ placed'[work'[q].op] # NONE
                   /\ placed'[work'[q].op].dst = work'[q].target
                   /\ placed'[work'[q].op].snap = work'[q].snap
              /\ Succeeds(q)' => PutIn(placed', work'[q].target, work'[q].snap),
         \A q \in Proc : rec'[q].verdict = "complete" =>
           \/ rec[q].verdict = "complete" /\ rec'[q].dst = rec[q].dst /\ rec'[q].snap = rec[q].snap
           \/ PutIn(placed', rec'[q].dst, rec'[q].snap),
         \A o \in Op : ops'[o].status = "completed" =>
           \/ ops[o].status = "completed" /\ ops'[o].dst = ops[o].dst /\ ops'[o].after = ops[o].after
           \/ PutIn(placed', ops'[o].dst, ops'[o].after)
  PROVE  RecordInv'
<1> TypeInv /\ JournalMatched /\ WorkPlaced /\ RecoveryPlaced /\ CompletedIsReal
  BY DEF FilesInv, RecordInv, MoveInv
<1>1. JournalMatched'
  BY PutKept DEF JournalMatched
<1>2. WorkPlaced'
  <2> SUFFICES ASSUME NEW q \in Proc
               PROVE  /\ work'[q].pc = "delete" =>
                           /\ placed'[work'[q].op] # NONE
                           /\ placed'[work'[q].op].dst = work'[q].target
                           /\ placed'[work'[q].op].snap = work'[q].snap
                      /\ Succeeds(q)' => PutIn(placed', work'[q].target, work'[q].snap)
    BY DEF WorkPlaced, Succeeds
  <2>1. work[q].pc = "delete" => work[q].op \in Op
    BY WorkerRunning
  <2>3. work'[q] = work[q] /\ Succeeds(q)' => PutIn(placed', work'[q].target, work'[q].snap)
    BY PutKept DEF WorkPlaced, Succeeds
  <2>2. work'[q].pc = "delete" /\ work'[q] = work[q] =>
          /\ placed'[work'[q].op] # NONE
          /\ placed'[work'[q].op].dst = work'[q].target
          /\ placed'[work'[q].op].snap = work'[q].snap
    BY <2>1 DEF WorkPlaced, PlacedKept
  <2> QED
    BY <2>2, <2>3
<1>3. RecoveryPlaced'
  BY PutKept DEF RecoveryPlaced
<1>4. CompletedIsReal'
  <2> SUFFICES ASSUME NEW o \in Op, ops'[o].status = "completed"
               PROVE  PutIn(placed', ops'[o].dst, ops'[o].after)
    BY DEF CompletedIsReal, PutIn
  <2>1. ops[o].status = "completed" => PutIn(placed, ops[o].dst, ops[o].after)
    BY DEF CompletedIsReal, PutIn
  <2> QED
    BY <2>1, PutKept
<1> QED
  BY <1>1, <1>2, <1>3, <1>4 DEF RecordInv

\* A step that leaves the disk alone, and holds nothing new.
LEMMA FilesStay ==
  ASSUME MoveInv, FilesInv, FileKept, UNCHANGED <<disk, serial, placed>>,
         \A o \in Op : journal'[o] \in {journal[o], NONE},
         \A q \in Proc :
           \/ work'[q] = work[q]
           \/ /\ work'[q].pc \notin Holding
              /\ work'[q].pc \in {"recheck", "lock"} => work'[q].target # ops'[work'[q].op].src
              /\ Succeeds(q)' => PutIn(placed, work'[q].target, work'[q].snap),
         \A q \in Proc : rec'[q].verdict = "complete" =>
           \/ rec[q].verdict = "complete" /\ rec'[q].dst = rec[q].dst /\ rec'[q].snap = rec[q].snap
           \/ PutIn(placed, rec'[q].dst, rec'[q].snap),
         \A o \in Op : ops'[o].status = "completed" =>
           \/ ops[o].status = "completed" /\ ops'[o].dst = ops[o].dst /\ ops'[o].after = ops[o].after
           \/ PutIn(placed, ops'[o].dst, ops'[o].after)
  PROVE  FilesInv'
<1>1. PlacedKept
  BY DEF PlacedKept
<1>2. DistinctFiles' /\ KnownIds' /\ CopiesHidden'
  BY FilesLose DEF Holding
<1>3. HeldInPlace' /\ HeldOnce'
  BY HeldKept
<1>4. RecordInv'
  <2>1. \A o \in Op : journal'[o] # NONE /\ disk'[journal'[o].dst] = journal'[o].snap =>
          journal[o] = journal'[o] /\ disk[journal[o].dst] = journal[o].snap
    OBVIOUS
  <2>2. \A q \in Proc :
          \/ work'[q] = work[q]
          \/ /\ work'[q].pc # "delete"
             /\ Succeeds(q)' => PutIn(placed', work'[q].target, work'[q].snap)
    BY DEF Holding
  <2>3. \A q \in Proc : rec'[q].verdict = "complete" =>
          \/ rec[q].verdict = "complete" /\ rec'[q].dst = rec[q].dst /\ rec'[q].snap = rec[q].snap
          \/ PutIn(placed', rec'[q].dst, rec'[q].snap)
    OBVIOUS
  <2>4. \A o \in Op : ops'[o].status = "completed" =>
          \/ ops[o].status = "completed" /\ ops'[o].dst = ops[o].dst /\ ops'[o].after = ops[o].after
          \/ PutIn(placed', ops'[o].dst, ops'[o].after)
    OBVIOUS
  <2> QED
    BY <1>1, <2>1, <2>2, <2>3, <2>4, RecordsKept
<1> QED
  BY <1>2, <1>3, <1>4 DEF FilesInv, DiskInv

LEMMA UserFiles ==
  ASSUME MoveInv, FilesInv, Users
  PROVE  FilesInv'
<1> TypeOK /\ TypeInv
  BY DEF MoveInv, TypeInv
<1>1. PICK x \in Path : UserWrite(x) \/ UserDelete(x)
  BY DEF Users
<1>2. /\ ~Held(x) /\ UNCHANGED <<ops, journal, placed, work, rec>>
      /\ \A y \in Path \ {x} : disk'[y] = disk[y]
  BY <1>1 DEF UserWrite, UserDelete, TypeOK, dbVars
<1>3. FileKept /\ PlacedKept
  BY <1>2 DEF FileKept, PlacedKept
<1>4. HeldInPlace' /\ HeldOnce'
  <2> SUFFICES ASSUME NEW q \in Proc
      PROVE /\ work[q].pc \in Holding => disk'[ops[work[q].op].src] = disk[ops[work[q].op].src]
            /\ work[q].pc = "delete" => disk'[work[q].target] = disk[work[q].target]
    BY <1>2, <1>3, HeldKept
  <2>1. work[q].pc # "idle" => ops[work[q].op].src \in Path /\ work[q].target \in Path
    BY WorkerRunning DEF RowFilled
  <2> QED
    BY <1>2, <2>1 DEF Held, Holding
<1>5. CASE UserDelete(x)
  <2>1. disk'[x] = NONE /\ serial' = serial
    BY <1>5 DEF UserDelete, TypeOK
  <2>2. DistinctFiles' /\ KnownIds' /\ CopiesHidden'
    BY <1>2, <2>1, FilesLose
  <2>3. RecordInv'
    <3>1. \A o \in Op : journal[o] # NONE => journal[o].dst \in Path /\ journal[o].snap # NONE
      BY MoveAssumption DEF TypeOK, Entry
    <3> QED
      BY <1>2, <1>3, <2>1, <3>1, RecordsKept
  <2> QED
    BY <1>4, <2>2, <2>3 DEF FilesInv, DiskInv
<1>6. CASE UserWrite(x)
  <2> DEFINE new == [doc |-> serial + 1, id |-> serial + 1]
  <2>1. serial \in Nat /\ serial' = serial + 1 /\ new.id = serial + 1 /\ new \in Snap /\ disk'[x] = new
    BY <1>6 DEF UserWrite, TypeOK, Snap
  <2> HIDE DEF new
  <2>2. /\ \A y \in Path : disk[y] # NONE => disk[y].id \in Nat /\ disk[y].id <= serial
        /\ \A o \in Op : journal[o] # NONE => /\ journal[o].dst \in Path /\ journal[o].snap.id \in Nat
                                              /\ journal[o].snap.id <= serial
    BY DEF TypeOK, Snap, Entry, FilesInv, DiskInv, KnownIds
  <2>3. DistinctFiles'
    BY <1>2, <2>1, <2>2 DEF FilesInv, DiskInv, DistinctFiles
  <2>4. KnownIds'
    BY <1>2, <2>1, <2>2 DEF KnownIds
  <2>5. CopiesHidden'
    <3>1. \A q \in Proc : work[q].pc = "publish" => work[q].snap.id \in Nat /\ work[q].snap.id <= serial
      BY WorkerRunning DEF FilesInv, DiskInv, CopiesHidden, Snap
    <3> QED
      BY <1>2, <2>1, <3>1 DEF FilesInv, DiskInv, CopiesHidden
  <2>6. RecordInv'
    <3>1. \A o \in Op : journal[o] # NONE /\ disk'[journal[o].dst] = journal[o].snap =>
            disk[journal[o].dst] = journal[o].snap
      BY <1>2, <2>1, <2>2
    <3> QED
      BY <1>2, <1>3, <3>1, RecordsKept
  <2> QED
    BY <1>4, <2>3, <2>4, <2>5, <2>6 DEF FilesInv, DiskInv
<1> QED
  BY <1>1, <1>5, <1>6

LEMMA OrganizerFiles ==
  ASSUME MoveInv, FilesInv, NEW p \in Proc, Organizer(p)
  PROVE  FilesInv'
<1> TypeInv /\ TypeOK /\ Filled
  BY DEF MoveInv, TypeInv
<1>1. UNCHANGED <<disk, serial, placed, journal, work, rec>>
  BY DEF Organizer, Notice, TakeStable, Dispatch, KeepPending, RetryOperation, UndoOperation, dbVars
<1>2. ops' = ops \/ \E o \in Op : NewRow(p, o)
  <2>1. CASE \E x \in Watched : Notice(p, x) \/ TakeStable(p, x)
    BY <2>1 DEF Notice, TakeStable, dbVars
  <2>2. CASE Dispatch(p)
    <3> DEFINE x == checked[p]
               snap == pending[p][x]
    <3>1. x \in Watched /\ snap \in Snap /\ x \in Path /\ Home[x] \in Path
      BY <2>2, MoveAssumption DEF Dispatch, Filled, CheckedFilled, TypeOK
    <3>2. ops' = ops \/ \E o \in Op, st \in {"started", "skipped"} :
                          InsertRow(o, p, "move", NONE, st, x, Home[x], snap)
      BY <2>2 DEF Dispatch, KeepPending, dbVars
    <3> QED
      BY <3>1, <3>2, InsertNew
  <2>3. ASSUME NEW q \in Op, RetryOperation(p, q) PROVE \E o \in Op : NewRow(p, o)
    <3>1. /\ ops[q].src \in Watched /\ ops[q].src \in Path /\ Home[ops[q].src] \in Path
          /\ ops[q].snap \in Snap
      BY <2>3, MoveAssumption DEF RetryOperation, Filled, RowsFilled, RowFilled
    <3>2. PICK o \in Op :
            InsertRow(o, p, "retry", q, "started", ops[q].src, Home[ops[q].src], ops[q].snap)
      BY <2>3 DEF RetryOperation
    <3> QED
      BY <3>1, <3>2, InsertNew
  <2>4. ASSUME NEW q \in Op, UndoOperation(p, q) PROVE \E o \in Op : NewRow(p, o)
    <3>1. ops[q].src \in Path /\ ops[q].dst \in Path /\ ops[q].after \in Snap
      BY <2>4 DEF UndoOperation, Filled, RowsFilled, RowFilled
    <3>2. PICK o \in Op :
            InsertRow(o, p, "undo", q, "started", ops[q].dst, ops[q].src, ops[q].after)
      BY <2>4 DEF UndoOperation
    <3> QED
      BY <3>1, <3>2, InsertNew
  <2> QED
    BY <2>1, <2>2, <2>3, <2>4 DEF Organizer
<1>3. FileKept /\ \A o \in Op : ops'[o].status = "completed" => ops'[o] = ops[o]
  <2>1. CASE ops' = ops
    BY <2>1 DEF FileKept
  <2>2. CASE \E o \in Op : NewRow(p, o)
    BY <2>2 DEF FileKept, NewRow
  <2> QED
    BY <1>2, <2>1, <2>2
<1> QED
  BY <1>1, <1>3, FilesStay

\* The steps of the worker.
LEMMA WorkStays ==
  ASSUME MoveInv, FilesInv, NEW p \in Proc, UNCHANGED <<disk, serial, placed, journal, ops, rec>>,
         NEW pc, NEW t, NEW s, NEW r, Step(p, pc, t, s, r), pc \notin Holding,
         pc \in {"recheck", "lock"} => t # ops[work[p].op].src,
         pc = "exempt" \/ (pc = "finish" /\ r = "completed") => PutIn(placed, t, s)
  PROVE  FilesInv'
<1>1. FileKept
  BY DEF FileKept
<1>2. \A q \in Proc :
        \/ work'[q] = work[q]
        \/ /\ work'[q].pc \notin Holding
           /\ work'[q].pc \in {"recheck", "lock"} => work'[q].target # ops'[work'[q].op].src
           /\ Succeeds(q)' => PutIn(placed, work'[q].target, work'[q].snap)
  BY DEF Step, Succeeds
<1> QED
  BY <1>1, <1>2, FilesStay

LEMMA ReportFiles ==
  ASSUME MoveInv, FilesInv, NEW p \in Proc, UNCHANGED <<disk, serial, placed, journal, ops, rec>>,
         work[p].pc # "idle", NEW st \in Terminal \ {"completed"}, Report(p, st)
  PROVE  FilesInv'
<1>1. Step(p, "finish", work[p].target, work[p].snap, st)
  BY ReportMoves DEF MoveInv
<1> DEFINE t == work[p].target
           s == work[p].snap
<1>2. Step(p, "finish", t, s, st)
  BY <1>1
<1> HIDE DEF t, s
<1> QED
  BY <1>2, WorkStays DEF Holding

\* A request that is diverted goes to a free path.
LEMMA DivertFiles ==
  ASSUME MoveInv, FilesInv, NEW p \in Proc, UNCHANGED <<disk, serial, placed, journal, ops, rec>>,
         work[p].pc # "idle", NEW next \in {"recheck", "lock"}, Divert(p, next),
         disk[ops[work[p].op].src] # NONE
  PROVE  FilesInv'
<1> TypeInv
  BY DEF MoveInv
<1>1. \/ \E st \in Terminal \ {"completed"} : Report(p, st)
      \/ \E t \in Path : disk[t] = NONE /\ work' = [work EXCEPT ![p].pc = next, ![p].target = t]
  <2> Spare \subseteq Path /\ {"failed", "skipped", "cancelled"} \subseteq Terminal \ {"completed"}
    BY MoveAssumption DEF Terminal, Statuses
  <2> QED
    BY DEF Divert
<1>2. ASSUME NEW t \in Path, disk[t] = NONE,
             work' = [work EXCEPT ![p].pc = next, ![p].target = t]
      PROVE  FilesInv'
  <2> DEFINE s == work[p].snap
             r == work[p].result
  <2>1. next \in Busy \ {"finish", "exempt", "release", "recover"} /\ next \notin Holding
    BY DEF Busy, Holding
  <2>2. Step(p, next, t, s, r)
    BY <1>2, <2>1, RetargetMoves
  <2>3. t # ops[work[p].op].src
    BY <1>2
  <2> HIDE DEF s, r
  <2> QED
    BY <2>1, <2>2, <2>3, WorkStays
<1> QED
  BY <1>1, <1>2, ReportFiles

LEMMA CheckFiles ==
  ASSUME MoveInv, FilesInv, NEW p \in Proc, CheckMove(p) \/ RecheckActivation(p) \/ ExemptRestored(p)
  PROVE  FilesInv'
<1> TypeInv
  BY DEF MoveInv
<1>1. /\ work[p].pc # "idle" /\ UNCHANGED <<disk, serial, placed, journal, ops, rec>>
  BY DEF CheckMove, RecheckActivation, ExemptRestored, At, workOnly, dbVars
<1> DEFINE t == work[p].target
           s == work[p].snap
           r == work[p].result
<1>2. ASSUME NEW pc \in {"recheck", "lock"}, Goto(p, pc), t # ops[work[p].op].src PROVE FilesInv'
  <2>1. Step(p, pc, t, s, r) /\ pc \notin Holding
    BY <1>1, <1>2, GotoMoves DEF Busy, Holding
  <2> HIDE DEF t, s, r
  <2> QED
    BY <1>1, <1>2, <2>1, WorkStays
<1>3. {"failed", "cancelled"} \subseteq Terminal \ {"completed"}
  BY DEF Terminal, Statuses
<1>4. CASE CheckMove(p)
  <2>1. \/ Report(p, "cancelled") \/ Report(p, "failed")
        \/ Goto(p, "recheck") /\ t # ops[work[p].op].src
        \/ Divert(p, "recheck") /\ disk[ops[work[p].op].src] # NONE
    BY <1>4 DEF CheckMove, Src, Cur
  <2> QED
    BY <1>1, <1>2, <1>3, <2>1, ReportFiles, DivertFiles
<1>5. CASE RecheckActivation(p)
  <2>1. Report(p, "cancelled") \/ (Goto(p, "lock") /\ t # ops[work[p].op].src)
    BY <1>5 DEF RecheckActivation, At, FilesInv, DiskInv, HeldInPlace
  <2> QED
    BY <1>1, <1>2, <1>3, <2>1, ReportFiles
<1>6. CASE ExemptRestored(p)
  <2>1. Goto(p, "finish") /\ work[p].pc = "exempt"
    BY <1>6 DEF ExemptRestored, At
  <2>2. r \in Terminal /\ PutIn(placed, t, s)
    BY <1>1, <2>1, WorkerRunning DEF FilesInv, RecordInv, WorkPlaced, Terminal, Statuses
  <2>3. Step(p, "finish", t, s, r)
    BY <1>1, <2>1, <2>2, GotoMoves DEF Busy
  <2> HIDE DEF t, s, r
  <2> QED
    BY <1>1, <2>2, <2>3, WorkStays DEF Holding
<1> QED
  BY <1>4, <1>5, <1>6

\* What the steps of a worker rest on.
LEMMA WorkerFacts ==
  ASSUME MoveInv, NEW p \in Proc, work[p].pc # "idle"
  PROVE  /\ work[p].op \in Op /\ work[p].target \in Path /\ work[p].snap \in Snap
         /\ ops[work[p].op].src \in Path /\ ops[work[p].op].snap \in Snap
         /\ \A q \in Proc : work[q].pc # "idle" =>
              /\ work[q].op \in Op /\ work[q].target \in Path /\ work[q].snap \in Snap
              /\ ops[work[q].op].src \in Path /\ ops[work[q].op].snap \in Snap
         /\ \A x \in Snap : x # NONE /\ x.id \in Nat
         /\ \A x \in Path : disk[x] # NONE => disk[x] \in Snap
         /\ \A o \in Op : journal[o] # NONE => journal[o].dst \in Path /\ journal[o].snap \in Snap
         /\ serial \in Nat
<1>1. \A q \in Proc : work[q].pc # "idle" =>
        /\ work[q].op \in Op /\ work[q].target \in Path /\ work[q].snap \in Snap
        /\ ops[work[q].op].src \in Path /\ ops[work[q].op].snap \in Snap
  BY WorkerRunning DEF MoveInv, RowFilled
<1>2. \A x \in Snap : x # NONE /\ x.id \in Nat
  BY MoveAssumption DEF Snap
<1>3. /\ \A x \in Path : disk[x] # NONE => disk[x] \in Snap
      /\ \A o \in Op : journal[o] # NONE => journal[o].dst \in Path /\ journal[o].snap \in Snap
      /\ serial \in Nat
  BY DEF MoveInv, TypeInv, TypeOK, Entry
<1> QED
  BY <1>1, <1>2, <1>3

LEMMA LockFiles ==
  ASSUME MoveInv, FilesInv, NEW p \in Proc, LockAndJournal(p)
  PROVE  FilesInv'
<1> TypeInv /\ DistinctFiles /\ KnownIds /\ CopiesHidden /\ HeldInPlace /\ HeldOnce
  BY DEF MoveInv, FilesInv, DiskInv
<1> DEFINE o == work[p].op
           src == ops[o].src
           snap == ops[o].snap
           t == work[p].target
<1>1. work[p].pc = "lock" /\ UNCHANGED <<disk, serial, ops, rec, placed>>
  BY DEF LockAndJournal, At
<1>2. \/ Report(p, "failed") /\ journal' = journal
      \/ /\ disk[src] = snap /\ ~Held(src)
         /\ journal' = JournalRow(p, snap) /\ Goto(p, "rename")
  BY DEF LockAndJournal, Src, Cur
<1>3. CASE Report(p, "failed") /\ journal' = journal
  <2> "failed" \in Terminal \ {"completed"}
    BY DEF Terminal, Statuses
  <2> QED
    BY <1>1, <1>3, ReportFiles
<1>4. CASE /\ disk[src] = snap /\ ~Held(src)
           /\ journal' = JournalRow(p, snap) /\ Goto(p, "rename")
  <2>1. /\ work'[p].pc = "rename" /\ work'[p].op = o /\ work'[p].target = t
        /\ \A q \in Proc \ {p} : work'[q] = work[q]
    BY <1>1, <1>4, GotoMoves DEF Step, Busy
  <2>2. /\ o \in Op /\ t \in Path /\ src \in Path /\ snap \in Snap /\ snap # NONE /\ t # src
    BY Zenon, <1>1, WorkerFacts DEF HeldInPlace
  <2>3. /\ journal'[o] = [dst |-> t, snap |-> snap]
        /\ \A a \in Op \ {o} : journal'[a] = journal[a]
    BY <1>1, <1>4, <2>2, JournalRowTyped
  <2>4. \A q \in Proc : /\ work[q].pc \in Holding => ops[work[q].op].src # src
                        /\ work[q].pc = "delete" => work[q].target # src
    BY <1>4 DEF Held, Holding
  <2> HIDE DEF o, src, snap, t
  <2>5. DistinctFiles' /\ CopiesHidden'
    BY <1>1, <2>1 DEF DistinctFiles, CopiesHidden
  <2>6. KnownIds'
    <3>1. journal'[o].snap = disk[src]
      BY <1>4, <2>3
    <3> QED
      BY <1>1, <1>4, <2>2, <2>3, <3>1 DEF KnownIds
  <2>7. HeldInPlace'
    <3>1. ops[work[p].op].src = src /\ ops[work[p].op].snap = snap
      BY DEF src, snap, o
    <3> QED
      BY <1>1, <1>4, <2>1, <2>2, <3>1 DEF HeldInPlace, Holding, o
  <2>8. HeldOnce'
    <3> SUFFICES ASSUME NEW a \in Proc, NEW b \in Proc, a # b, work'[a].pc \in Holding
        PROVE /\ work'[b].pc \in Holding => ops'[work'[b].op].src # ops'[work'[a].op].src
              /\ work'[b].pc = "delete" => work'[b].target # ops'[work'[a].op].src
              /\ work'[a].pc = "delete" /\ work'[b].pc = "delete" => work'[b].target # work'[a].target
      BY DEF HeldOnce
    <3>1. CASE a # p /\ b # p
      BY <1>1, <2>1, <3>1 DEF HeldOnce
    <3>2. CASE a = p
      BY <1>1, <2>1, <2>4, <3>2 DEF src
    <3>3. CASE b = p
      BY <1>1, <2>1, <2>4, <3>3 DEF src, Holding
    <3> QED
      BY <3>1, <3>2, <3>3
  <2>9. RecordInv'
    <3>1. disk[t] # snap
      BY <1>4, <2>2 DEF DistinctFiles
    <3>2. \A a \in Op : journal'[a] # NONE /\ disk'[journal'[a].dst] = journal'[a].snap =>
            journal[a] = journal'[a] /\ disk[journal[a].dst] = journal[a].snap
      BY <1>1, <2>3, <3>1
    <3>3. PlacedKept
      BY <1>1 DEF PlacedKept
    <3>4. \A q \in Proc : work'[q] = work[q] \/ (work'[q].pc = "rename" /\ ~Succeeds(q)')
      BY <2>1 DEF Succeeds
    <3> QED
      BY <1>1, <3>2, <3>3, <3>4, RecordsKept
  <2> QED
    BY Zenon, <2>5, <2>6, <2>7, <2>8, <2>9 DEF FilesInv, DiskInv
<1> QED
  BY <1>2, <1>3, <1>4

LEMMA CopyFiles ==
  ASSUME MoveInv, FilesInv, NEW p \in Proc, CopyAndJournal(p)
  PROVE  FilesInv'
<1> TypeInv /\ DistinctFiles /\ KnownIds /\ CopiesHidden /\ HeldInPlace /\ HeldOnce
  BY DEF MoveInv, FilesInv, DiskInv
<1> DEFINE o == work[p].op
           t == work[p].target
           copy == [doc |-> ops[o].snap.doc, id |-> serial + 1]
<1>1. work[p].pc = "rename" /\ UNCHANGED <<disk, ops, rec, placed>>
  BY DEF CopyAndJournal, At
<1>2. \/ Report(p, "failed") /\ UNCHANGED <<serial, journal>>
      \/ /\ serial' = serial + 1 /\ journal' = JournalRow(p, copy)
         /\ work' = [work EXCEPT ![p].pc = "publish", ![p].snap = copy]
  BY DEF CopyAndJournal, Cur
<1>3. CASE Report(p, "failed") /\ UNCHANGED <<serial, journal>>
  <2> "failed" \in Terminal \ {"completed"}
    BY DEF Terminal, Statuses
  <2> QED
    BY <1>1, <1>3, ReportFiles
<1>4. CASE /\ serial' = serial + 1 /\ journal' = JournalRow(p, copy)
           /\ work' = [work EXCEPT ![p].pc = "publish", ![p].snap = copy]
  <2>1. /\ o \in Op /\ t \in Path /\ serial \in Nat /\ ops[o].snap \in Snap
        /\ copy.doc = ops[o].snap.doc /\ copy.id = serial + 1
    BY <1>1, WorkerFacts
  <2>2. copy \in Snap
    BY <2>1 DEF Snap
  <2> HIDE DEF copy
  <2>3. /\ work'[p].pc = "publish" /\ work'[p].op = o /\ work'[p].target = t
        /\ work'[p].snap = copy /\ \A q \in Proc \ {p} : work'[q] = work[q]
    BY <1>4 DEF TypeInv, TypeOK, Request
  <2>4. /\ journal'[o] = [dst |-> t, snap |-> copy]
        /\ \A a \in Op \ {o} : journal'[a] = journal[a]
    BY <1>1, <1>4, <2>2, JournalRowTyped
  <2>5. /\ \A x \in Path : disk[x] # NONE => disk[x].id \in Nat /\ disk[x].id <= serial
        /\ \A a \in Op : journal[a] # NONE => journal[a].snap.id \in Nat /\ journal[a].snap.id <= serial
        /\ \A q \in Proc : work[q].pc = "publish" => work[q].snap.id \in Nat /\ work[q].snap.id <= serial
    <3>1. \A x \in Snap : x.id \in Nat
      BY DEF Snap
    <3>2. \A x \in Path : disk[x] # NONE => disk[x] \in Snap
      BY <1>1, WorkerFacts
    <3>3. \A a \in Op : journal[a] # NONE => journal[a].snap \in Snap
      BY <1>1, WorkerFacts
    <3>4. \A q \in Proc : work[q].pc = "publish" => work[q].snap \in Snap
      BY WorkerRunning
    <3> QED
      BY <3>1, <3>2, <3>3, <3>4 DEF KnownIds, CopiesHidden
  <2> HIDE DEF o, t
  <2>6. DistinctFiles'
    BY <1>1 DEF DistinctFiles
  <2>7. KnownIds'
    <3>1. \A x \in Path : disk'[x] # NONE => disk'[x].id <= serial'
      BY <1>1, <1>4, <2>1, <2>5
    <3>2. ASSUME NEW a \in Op, journal'[a] # NONE PROVE journal'[a].snap.id <= serial'
      <4>1. CASE a = o
        BY <1>4, <2>1, <2>4, <4>1
      <4>2. CASE a # o
        BY <1>4, <2>1, <2>4, <2>5, <3>2, <4>2
      <4> QED
        BY <4>1, <4>2
    <3> QED
      BY <3>1, <3>2 DEF KnownIds
  <2>8. CopiesHidden'
    <3> SUFFICES ASSUME NEW a \in Proc, work'[a].pc = "publish"
        PROVE /\ work'[a].snap.id <= serial'
              /\ \A x \in Path : disk'[x] # NONE => disk'[x].id # work'[a].snap.id
              /\ \A q \in Proc \ {a} : work'[q].pc = "publish" => work'[q].snap.id # work'[a].snap.id
      BY DEF CopiesHidden
    <3>0. /\ serial' = serial + 1 /\ serial \in Nat /\ disk' = disk
          /\ work'[p].snap.id = serial + 1
          /\ \A q \in Proc \ {p} : work'[q] = work[q]
      BY <1>1, <1>4, <2>1, <2>3
    <3>1. CASE a = p
      <4>1. \A q \in Proc \ {p} : work'[q].pc = "publish" => work'[q].snap.id # serial + 1
        BY <2>5, <3>0
      <4>2. \A x \in Path : disk[x] # NONE => disk[x].id # serial + 1
        BY <2>5, <3>0
      <4> QED
        BY <3>0, <3>1, <4>1, <4>2
    <3>2. CASE a # p
      <4>1. work'[a] = work[a] /\ work[a].snap.id \in Nat /\ work[a].snap.id <= serial
        BY <2>5, <3>0, <3>2
      <4>2. work[a].snap.id <= serial' /\ work[a].snap.id # serial + 1
        BY <3>0, <4>1
      <4>3. \A x \in Path : disk[x] # NONE => disk[x].id # work[a].snap.id
        BY <4>1 DEF CopiesHidden
      <4>4. \A q \in Proc \ {a} : work'[q].pc = "publish" => work'[q].snap.id # work[a].snap.id
        BY <3>0, <4>1, <4>2 DEF CopiesHidden
      <4> QED
        BY <3>0, <4>1, <4>2, <4>3, <4>4
    <3> QED
      BY <3>1, <3>2
  <2>9. HeldInPlace' /\ HeldOnce'
    <3>1. \A q \in Proc : /\ work'[q].op = work[q].op /\ work'[q].target = work[q].target
                          /\ work'[q] = work[q] \/ (q = p /\ work'[q].pc = "publish")
      BY <2>3 DEF o, t
    <3>2. work[p].target # ops[work[p].op].src /\ disk[ops[work[p].op].src] = ops[work[p].op].snap
      BY <1>1 DEF HeldInPlace, Holding
    <3>3. work'[p].snap.doc = ops[work[p].op].snap.doc
      BY <2>1, <2>3 DEF o
    <3>4. HeldInPlace'
      BY <1>1, <3>1, <3>2, <3>3 DEF HeldInPlace, Holding
    <3>5. HeldOnce'
      BY <1>1, <3>1 DEF HeldOnce, Holding
    <3> QED
      BY <3>4, <3>5
  <2>10. RecordInv'
    <3>1. disk[t] # copy
      BY <2>1, <2>2, <2>5, WorkerFacts, <1>1 DEF t
    <3>2. \A a \in Op : journal'[a] # NONE /\ disk'[journal'[a].dst] = journal'[a].snap =>
            journal[a] = journal'[a] /\ disk[journal[a].dst] = journal[a].snap
      BY <1>1, <2>4, <3>1
    <3>3. PlacedKept
      BY <1>1 DEF PlacedKept
    <3>4. \A q \in Proc : work'[q] = work[q] \/ (work'[q].pc = "publish" /\ ~Succeeds(q)')
      BY <2>3 DEF Succeeds
    <3> QED
      BY <1>1, <3>2, <3>3, <3>4, RecordsKept
  <2> QED
    BY <2>6, <2>7, <2>8, <2>9, <2>10 DEF FilesInv, DiskInv
<1> QED
  BY <1>2, <1>3, <1>4

\* What every document needs to stay on the disk.
LEMMA DocumentsKept ==
  ASSUME \A x \in Path : disk[x] # NONE => \E y \in Path : disk'[y] # NONE /\ disk'[y].doc = disk[x].doc
  PROVE  Documents \subseteq Documents'
  BY DEF Documents

\* A placement is not the missing one.
LEMMA PlacedRecord ==
  ASSUME NEW x \in Path, NEW snap \in Snap, NEW gone \in BOOLEAN
  PROVE  [dst |-> x, snap |-> snap, gone |-> gone] # NONE
  BY MoveAssumption

LEMMA RenameFiles ==
  ASSUME MoveInv, FilesInv, NEW p \in Proc, RenameInVolume(p)
  PROVE  FilesInv' /\ Documents \subseteq Documents'
<1> TypeInv /\ DistinctFiles /\ KnownIds /\ CopiesHidden /\ HeldInPlace /\ HeldOnce
  BY DEF MoveInv, FilesInv, DiskInv
<1> DEFINE o == work[p].op
           src == ops[o].src
           snap == ops[o].snap
           t == work[p].target
<1>1. work[p].pc = "rename" /\ UNCHANGED <<serial, journal, ops, rec>>
  BY DEF RenameInVolume, At, dbVars
<1>2. disk[src] = snap /\ t # src
  BY <1>1 DEF HeldInPlace, Holding
<1>3. /\ o \in Op /\ t \in Path /\ src \in Path /\ snap \in Snap /\ snap # NONE
  BY <1>1, WorkerFacts
<1>4. \/ Divert(p, "lock") /\ UNCHANGED <<disk, placed>>
      \/ /\ disk[t] = NONE
         /\ disk' = [disk EXCEPT ![src] = NONE, ![t] = snap]
         /\ placed' = Place(p, snap, TRUE) /\ Moved(p, snap)
  BY DEF RenameInVolume, Src, Cur
<1>5. CASE Divert(p, "lock") /\ UNCHANGED <<disk, placed>>
  <2>1. FilesInv'
    BY <1>1, <1>2, <1>3, <1>5, DivertFiles
  <2>2. Documents' = Documents
    BY <1>5 DEF Documents
  <2> QED
    BY <2>1, <2>2
<1>6. CASE /\ disk[t] = NONE
           /\ disk' = [disk EXCEPT ![src] = NONE, ![t] = snap]
           /\ placed' = Place(p, snap, TRUE) /\ Moved(p, snap)
  <2>1. /\ work'[p].pc \in {"exempt", "finish"} /\ work'[p].target = t /\ work'[p].snap = snap
        /\ \A q \in Proc \ {p} : work'[q] = work[q]
    BY <1>1, <1>3, <1>6, MovedMoves DEF Step
  <2>2. /\ placed'[o] = [dst |-> t, snap |-> snap, gone |-> TRUE]
        /\ \A a \in Op \ {o} : placed'[a] = placed[a]
    BY <1>1, <1>3, <1>6, PlaceTyped
  <2>3. placed[o] = NONE
    BY <1>1 DEF MoveInv, JournalInv, NothingPlacedYet
  <2>4. \A q \in Proc \ {p} : work[q].pc \in Holding =>
          /\ ops[work[q].op].src \in Path /\ ops[work[q].op].src # src /\ ops[work[q].op].src # t
          /\ work[q].pc = "delete" => work[q].target \in Path /\ work[q].target # src
                                      /\ work[q].target # t
    <3> SUFFICES ASSUME NEW q \in Proc \ {p}, work[q].pc \in Holding
        PROVE /\ ops[work[q].op].src \in Path /\ ops[work[q].op].src # src /\ ops[work[q].op].src # t
              /\ work[q].pc = "delete" => work[q].target \in Path /\ work[q].target # src
                                          /\ work[q].target # t
      OBVIOUS
    <3>1. /\ work[q].pc # "idle" /\ ops[work[q].op].src \in Path /\ work[q].target \in Path
          /\ ops[work[q].op].snap # NONE /\ work[q].snap # NONE
      BY WorkerFacts DEF Holding
    <3>2. /\ disk[ops[work[q].op].src] # NONE
          /\ work[q].pc = "delete" => disk[work[q].target] # NONE
      BY <3>1 DEF HeldInPlace
    <3>3. /\ ops[work[q].op].src # src
          /\ work[q].pc = "delete" => work[q].target # src
      BY <1>1 DEF HeldOnce, Holding
    <3> QED
      BY <1>6, <3>1, <3>2, <3>3
  <2> HIDE DEF o, src, snap, t
  <2>5. /\ disk'[t] = snap /\ disk'[src] = NONE
        /\ \A x \in Path : x # t => disk'[x] \in {disk[x], NONE}
        /\ \A x \in Path : x # t /\ x # src => disk'[x] = disk[x]
    BY <1>2, <1>3, <1>6 DEF TypeInv, TypeOK
  <2>6. DistinctFiles'
    <3>1. \A x \in Path : disk'[x] # NONE => \E y \in Path : /\ disk'[x] = disk[y]
                                                             /\ y = (IF x = t THEN src ELSE x)
      BY <1>2, <1>3, <2>5
    <3>2. \A x \in Path : disk'[x] # NONE => x # src
      BY <2>5
    <3> QED
      BY <3>1, <3>2 DEF DistinctFiles
  <2>7. KnownIds'
    BY <1>1, <1>2, <1>3, <2>5 DEF KnownIds
  <2>8. CopiesHidden'
    <3>1. \A q \in Proc : work'[q].pc = "publish" => work'[q] = work[q]
      BY <2>1
    <3>2. \A x \in Path : disk'[x] # NONE => \E y \in Path : disk'[x] = disk[y]
      BY <1>2, <1>3, <2>5
    <3> QED
      BY <1>1, <3>1, <3>2 DEF CopiesHidden
  <2>9. HeldInPlace' /\ HeldOnce'
    <3>1. FileKept
      BY <1>1 DEF FileKept
    <3>2. \A q \in Proc :
           \/ /\ work'[q] = work[q]
              /\ work[q].pc \in Holding => disk'[ops[work[q].op].src] = disk[ops[work[q].op].src]
              /\ work[q].pc = "delete" => disk'[work[q].target] = disk[work[q].target]
           \/ /\ work'[q].pc \notin Holding
              /\ work'[q].pc \notin {"recheck", "lock"}
      BY <2>1, <2>4, <2>5 DEF Holding
    <3> QED
      BY <3>1, <3>2, HeldKept
  <2>10. RecordInv'
    <3>1. PlacedKept
      BY <2>2, <2>3 DEF PlacedKept
    <3>2. PutIn(placed', t, snap)
      <4>1. placed'[o] # NONE
        BY <1>3, <2>2, PlacedRecord
      <4> QED
        BY <1>3, <2>2, <4>1 DEF PutIn
    <3>3. \A a \in Op : journal'[a] # NONE /\ disk'[journal'[a].dst] = journal'[a].snap =>
            \/ journal[a] = journal'[a] /\ disk[journal[a].dst] = journal[a].snap
            \/ PutIn(placed', journal'[a].dst, journal'[a].snap)
      <4>1. \A a \in Op : journal[a] # NONE => journal[a].dst \in Path /\ journal[a].snap # NONE
        BY <1>1, WorkerFacts
      <4> QED
        BY <1>1, <2>5, <3>2, <4>1
    <3>4. \A q \in Proc :
            \/ work'[q] = work[q]
            \/ /\ work'[q].pc # "delete"
               /\ Succeeds(q)' => PutIn(placed', work'[q].target, work'[q].snap)
      BY <2>1, <3>2
    <3>5. /\ \A q \in Proc : rec'[q] = rec[q]
          /\ \A a \in Op : ops'[a] = ops[a]
      BY <1>1
    <3> QED
      BY <3>1, <3>3, <3>4, <3>5, RecordsKept
  <2>11. Documents \subseteq Documents'
    <3>1. ASSUME NEW x \in Path, disk[x] # NONE
          PROVE  \E y \in Path : disk'[y] # NONE /\ disk'[y].doc = disk[x].doc
      <4>1. CASE x = src
        BY <1>2, <1>3, <2>5, <4>1
      <4>2. CASE x # src
        BY <1>6, <2>5, <3>1, <4>2
      <4> QED
        BY <4>1, <4>2
    <3> QED
      BY <3>1, DocumentsKept
  <2> QED
    BY <2>6, <2>7, <2>8, <2>9, <2>10, <2>11 DEF FilesInv, DiskInv
<1> QED
  BY <1>4, <1>5, <1>6

\* What is held elsewhere is not what p holds, and not a free path.
LEMMA HeldApart ==
  ASSUME MoveInv, FilesInv, NEW p \in Proc, work[p].pc \in Holding, NEW q \in Proc \ {p},
         work[q].pc \in Holding
  PROVE  LET src == ops[work[p].op].src
             t == work[p].target
         IN /\ ops[work[q].op].src \in Path /\ ops[work[q].op].src # src
            /\ disk[ops[work[q].op].src] # NONE
            /\ work[p].pc = "delete" => ops[work[q].op].src # t
            /\ work[q].pc = "delete" => /\ work[q].target \in Path /\ work[q].target # src
                                        /\ disk[work[q].target] # NONE
                                        /\ work[p].pc = "delete" => work[q].target # t
<1> HeldInPlace /\ HeldOnce
  BY DEF FilesInv, DiskInv
<1>1. /\ work[q].pc # "idle" /\ ops[work[q].op].src \in Path /\ work[q].target \in Path
      /\ ops[work[q].op].snap # NONE /\ work[q].snap # NONE
  BY WorkerFacts DEF Holding
<1>2. /\ disk[ops[work[q].op].src] # NONE
      /\ work[q].pc = "delete" => disk[work[q].target] # NONE
  BY <1>1 DEF HeldInPlace
<1> QED
  BY <1>1, <1>2 DEF HeldOnce

\* Where a worker stands that has its file open.
LEMMA HolderFacts ==
  ASSUME MoveInv, FilesInv, NEW p \in Proc, work[p].pc \in Holding
  PROVE  LET o == work[p].op
             src == ops[o].src
             t == work[p].target
         IN /\ o \in Op /\ t \in Path /\ src \in Path /\ t # src
            /\ disk[src] # NONE /\ disk[src] \in Snap /\ disk[src] = ops[o].snap
            /\ work[p].snap \in Snap /\ work[p].snap # NONE /\ work[p].snap.id \in Nat
            /\ work[p].pc \in {"publish", "delete"} => work[p].snap.doc = disk[src].doc
            /\ work[p].pc = "delete" => disk[t] = work[p].snap
<1>1. work[p].pc # "idle"
  BY DEF Holding
<1>2. /\ work[p].op \in Op /\ work[p].target \in Path /\ work[p].snap \in Snap
      /\ ops[work[p].op].src \in Path /\ ops[work[p].op].snap \in Snap
      /\ \A x \in Snap : x # NONE /\ x.id \in Nat
  BY <1>1, WorkerFacts
<1>3. /\ work[p].target # ops[work[p].op].src
      /\ disk[ops[work[p].op].src] = ops[work[p].op].snap
      /\ work[p].pc \in {"publish", "delete"} => work[p].snap.doc = ops[work[p].op].snap.doc
      /\ work[p].pc = "delete" => disk[work[p].target] = work[p].snap
  BY DEF FilesInv, DiskInv, HeldInPlace
<1> QED
  BY <1>2, <1>3

LEMMA PublishFiles ==
  ASSUME MoveInv, FilesInv, NEW p \in Proc, PublishCopy(p)
  PROVE  FilesInv' /\ Documents \subseteq Documents'
<1> TypeInv /\ DistinctFiles /\ KnownIds /\ CopiesHidden /\ HeldInPlace /\ HeldOnce
  BY DEF MoveInv, FilesInv, DiskInv
<1> DEFINE o == work[p].op
           src == ops[o].src
           t == work[p].target
           copy == work[p].snap
<1>1. work[p].pc = "publish" /\ UNCHANGED <<serial, journal, ops, rec>>
  BY DEF PublishCopy, At, dbVars
<1>2. /\ o \in Op /\ t \in Path /\ src \in Path /\ t # src
      /\ disk[src] # NONE /\ disk[src] = ops[o].snap
      /\ copy \in Snap /\ copy # NONE /\ copy.id \in Nat /\ copy.doc = disk[src].doc
  BY <1>1, HolderFacts DEF Holding
<1>3. \/ Divert(p, "lock") /\ UNCHANGED <<disk, placed>>
      \/ /\ disk[t] = NONE /\ disk' = [disk EXCEPT ![t] = copy]
         /\ placed' = Place(p, copy, FALSE) /\ Goto(p, "delete")
  BY DEF PublishCopy
<1>4. CASE Divert(p, "lock") /\ UNCHANGED <<disk, placed>>
  <2>1. FilesInv'
    BY <1>1, <1>2, <1>4, DivertFiles
  <2>2. Documents' = Documents
    BY <1>4 DEF Documents
  <2> QED
    BY <2>1, <2>2
<1>5. CASE /\ disk[t] = NONE /\ disk' = [disk EXCEPT ![t] = copy]
           /\ placed' = Place(p, copy, FALSE) /\ Goto(p, "delete")
  <2>1. /\ work'[p].pc = "delete" /\ work'[p].op = o /\ work'[p].target = t /\ work'[p].snap = copy
        /\ \A q \in Proc \ {p} : work'[q] = work[q]
    BY <1>1, <1>5, GotoMoves DEF Step, Busy
  <2>2. /\ placed'[o] = [dst |-> t, snap |-> copy, gone |-> FALSE]
        /\ \A a \in Op \ {o} : placed'[a] = placed[a]
    BY <1>1, <1>2, <1>5, PlaceTyped
  <2>3. placed[o] = NONE
    BY <1>1 DEF MoveInv, JournalInv, NothingPlacedYet
  <2>4. \A q \in Proc \ {p} : work[q].pc \in Holding =>
          /\ ops[work[q].op].src # src /\ ops[work[q].op].src # t
          /\ ops[work[q].op].src \in Path
          /\ work[q].pc = "delete" => work[q].target \in Path /\ work[q].target # src
                                      /\ work[q].target # t
    BY <1>1, <1>5, HeldApart DEF Holding
  <2>5. /\ copy.id <= serial /\ \A x \in Path : disk[x] # NONE => disk[x].id # copy.id
        /\ \A q \in Proc \ {p} : work[q].pc = "publish" => work[q].snap.id # copy.id
    BY <1>1 DEF CopiesHidden
  <2>6. disk'[t] = copy /\ \A x \in Path : x # t => disk'[x] = disk[x]
    BY <1>2, <1>5 DEF TypeInv, TypeOK
  <2>7. DistinctFiles'
    BY <2>5, <2>6 DEF DistinctFiles
  <2>8. KnownIds'
    BY <1>1, <2>5, <2>6 DEF KnownIds
  <2>9. CopiesHidden'
    <3> SUFFICES ASSUME NEW a \in Proc, work'[a].pc = "publish"
        PROVE /\ work'[a].snap.id <= serial'
              /\ \A x \in Path : disk'[x] # NONE => disk'[x].id # work'[a].snap.id
              /\ \A q \in Proc \ {a} : work'[q].pc = "publish" => work'[q].snap.id # work'[a].snap.id
      BY DEF CopiesHidden
    <3>1. a # p /\ work'[a] = work[a]
      BY <2>1
    <3> QED
      BY <1>1, <2>1, <2>5, <2>6, <3>1 DEF CopiesHidden
  <2>10. HeldInPlace'
    <3> SUFFICES ASSUME NEW a \in Proc
        PROVE /\ work'[a].pc \in {"recheck", "lock"} \cup Holding =>
                   work'[a].target # ops'[work'[a].op].src
              /\ work'[a].pc \in Holding => disk'[ops'[work'[a].op].src] = ops'[work'[a].op].snap
              /\ work'[a].pc \in {"publish", "delete"} =>
                   work'[a].snap.doc = ops'[work'[a].op].snap.doc
              /\ work'[a].pc = "delete" => disk'[work'[a].target] = work'[a].snap
      BY DEF HeldInPlace
    <3>1. CASE a = p
      BY <1>1, <1>2, <2>1, <2>6, <3>1
    <3>2. CASE a # p
      <4>1. work'[a] = work[a] /\ ops' = ops
        BY <1>1, <2>1, <3>2
      <4>2. /\ work[a].pc \in Holding => disk'[ops[work[a].op].src] = disk[ops[work[a].op].src]
            /\ work[a].pc = "delete" => disk'[work[a].target] = disk[work[a].target]
        BY <2>4, <2>6, <3>2 DEF Holding
      <4> QED
        BY <4>1, <4>2 DEF HeldInPlace
    <3> QED
      BY <3>1, <3>2
  <2>11. HeldOnce'
    <3> SUFFICES ASSUME NEW a \in Proc, NEW b \in Proc, a # b, work'[a].pc \in Holding
        PROVE /\ work'[b].pc \in Holding => ops'[work'[b].op].src # ops'[work'[a].op].src
              /\ work'[b].pc = "delete" => work'[b].target # ops'[work'[a].op].src
              /\ work'[a].pc = "delete" /\ work'[b].pc = "delete" => work'[b].target # work'[a].target
      BY DEF HeldOnce
    <3>1. CASE a # p /\ b # p
      BY <1>1, <2>1, <3>1 DEF HeldOnce
    <3>2. CASE a = p
      BY <1>1, <2>1, <2>4, <3>2 DEF Holding
    <3>3. CASE b = p
      BY <1>1, <2>1, <2>4, <3>3 DEF Holding
    <3> QED
      BY <3>1, <3>2, <3>3
  <2>12. RecordInv'
    <3>1. PlacedKept
      BY <2>2, <2>3 DEF PlacedKept
    <3>2. placed'[o] # NONE /\ placed'[o].dst = t /\ placed'[o].snap = copy
      <4> HIDE DEF o, t, copy
      <4>1. placed'[o] # NONE
        BY <1>2, <2>2, PlacedRecord
      <4> QED
        BY <2>2, <4>1
    <3>3. \A a \in Op : journal'[a] # NONE /\ disk'[journal'[a].dst] = journal'[a].snap =>
            \/ journal[a] = journal'[a] /\ disk[journal[a].dst] = journal[a].snap
            \/ PutIn(placed', journal'[a].dst, journal'[a].snap)
      <4>1. \A a \in Op : journal[a] # NONE => journal[a].dst \in Path
        BY <1>1, WorkerFacts
      <4>2. PutIn(placed', t, copy)
        BY <1>2, <3>2 DEF PutIn
      <4> QED
        BY <1>1, <2>6, <4>1, <4>2
    <3>4. \A q \in Proc :
            \/ work'[q] = work[q]
            \/ /\ work'[q].pc = "delete" =>
                    /\ placed'[work'[q].op] # NONE
                    /\ placed'[work'[q].op].dst = work'[q].target
                    /\ placed'[work'[q].op].snap = work'[q].snap
               /\ Succeeds(q)' => PutIn(placed', work'[q].target, work'[q].snap)
      BY <2>1, <3>2 DEF Succeeds
    <3>5. /\ \A q \in Proc : rec'[q] = rec[q]
          /\ \A a \in Op : ops'[a] = ops[a]
      BY <1>1
    <3> QED
      BY <3>1, <3>3, <3>4, <3>5, RecordsKept
  <2>13. Documents \subseteq Documents'
    <3>1. \A x \in Path : disk[x] # NONE => disk'[x] = disk[x]
      BY <1>5, <2>6
    <3> QED
      BY <3>1, DocumentsKept
  <2> QED
    BY <2>7, <2>8, <2>9, <2>10, <2>11, <2>12, <2>13 DEF FilesInv, DiskInv
<1> QED
  BY <1>3, <1>4, <1>5

LEMMA DeleteFiles ==
  ASSUME MoveInv, FilesInv, NEW p \in Proc, DeleteSource(p)
  PROVE  FilesInv' /\ Documents \subseteq Documents'
<1> TypeInv /\ HeldInPlace /\ HeldOnce
  BY DEF MoveInv, FilesInv, DiskInv
<1> DEFINE o == work[p].op
           src == ops[o].src
           t == work[p].target
           copy == work[p].snap
<1>1. work[p].pc = "delete" /\ UNCHANGED <<serial, journal, ops, rec>>
  BY DEF DeleteSource, At, dbVars
<1>2. /\ o \in Op /\ t \in Path /\ src \in Path /\ t # src
      /\ disk[src] # NONE /\ disk[t] = copy
      /\ copy \in Snap /\ copy # NONE /\ copy.doc = disk[src].doc
  BY <1>1, HolderFacts DEF Holding
<1>3. placed[o] # NONE /\ placed[o].dst = t /\ placed[o].snap = copy
  BY <1>1 DEF FilesInv, RecordInv, WorkPlaced
<1>4. \A q \in Proc \ {p} : work[q].pc \in Holding =>
        /\ ops[work[q].op].src # src /\ ops[work[q].op].src # t /\ ops[work[q].op].src \in Path
        /\ work[q].pc = "delete" => work[q].target \in Path /\ work[q].target # src
                                    /\ work[q].target # t
  BY <1>1, HeldApart DEF Holding
<1>5. FileKept
  BY <1>1 DEF FileKept
<1>6. \A a \in Op : journal[a] # NONE => journal[a].dst \in Path /\ journal[a].snap # NONE
  BY <1>1, WorkerFacts
\* One of the two paths is emptied; the other one keeps the document.
<1>7. ASSUME NEW x \in {src, t}, disk' = [disk EXCEPT ![x] = NONE], PlacedKept,
             work'[p].pc \in {"exempt", "finish"}, \A q \in Proc \ {p} : work'[q] = work[q],
             Succeeds(p)' => PutIn(placed', work'[p].target, work'[p].snap)
      PROVE  FilesInv' /\ Documents \subseteq Documents'
  <2>1. x \in Path /\ disk'[x] = NONE /\ \A y \in Path : y # x => disk'[y] = disk[y]
    BY <1>2, <1>7 DEF TypeInv, TypeOK
  <2>2. DistinctFiles' /\ KnownIds' /\ CopiesHidden'
    BY <1>1, <1>7, <2>1, FilesLose
  <2>3. HeldInPlace' /\ HeldOnce'
    <3>1. \A q \in Proc :
           \/ /\ work'[q] = work[q]
              /\ work[q].pc \in Holding => disk'[ops[work[q].op].src] = disk[ops[work[q].op].src]
              /\ work[q].pc = "delete" => disk'[work[q].target] = disk[work[q].target]
           \/ /\ work'[q].pc \notin Holding
              /\ work'[q].pc \notin {"recheck", "lock"}
      BY <1>4, <1>7, <2>1 DEF Holding
    <3> QED
      BY <1>5, <3>1, HeldKept
  <2>4. RecordInv'
    <3>1. \A a \in Op : journal'[a] # NONE /\ disk'[journal'[a].dst] = journal'[a].snap =>
            journal[a] = journal'[a] /\ disk[journal[a].dst] = journal[a].snap
      BY <1>1, <1>6, <2>1
    <3>2. \A q \in Proc :
            \/ work'[q] = work[q]
            \/ /\ work'[q].pc # "delete"
               /\ Succeeds(q)' => PutIn(placed', work'[q].target, work'[q].snap)
      BY <1>7
    <3>3. /\ \A q \in Proc : rec'[q] = rec[q]
          /\ \A a \in Op : ops'[a] = ops[a]
      BY <1>1
    <3> QED
      BY <1>7, <3>1, <3>2, <3>3, RecordsKept
  <2>5. Documents \subseteq Documents'
    <3>1. ASSUME NEW y \in Path, disk[y] # NONE
          PROVE  \E z \in Path : disk'[z] # NONE /\ disk'[z].doc = disk[y].doc
      <4>1. CASE y = x
        <5> DEFINE z == IF x = t THEN src ELSE t
        <5>1. z \in Path /\ z # x /\ disk[z] # NONE /\ disk[z].doc = disk[x].doc
          BY <1>2, <1>7
        <5> HIDE DEF z
        <5> QED
          BY <2>1, <4>1, <5>1
      <4>2. CASE y # x
        BY <2>1, <3>1, <4>2
      <4> QED
        BY <4>1, <4>2
    <3> QED
      BY <3>1, DocumentsKept
  <2> QED
    BY <2>2, <2>3, <2>4, <2>5 DEF FilesInv, DiskInv
<1>8. \/ /\ disk' = [disk EXCEPT ![src] = NONE] /\ Moved(p, copy) /\ placed' = Place(p, copy, TRUE)
      \/ /\ disk' \in {disk, [disk EXCEPT ![t] = NONE]} /\ Report(p, "failed") /\ UNCHANGED placed
  BY DEF DeleteSource, Src, Cur
<1>9. CASE disk' = [disk EXCEPT ![src] = NONE] /\ Moved(p, copy) /\ placed' = Place(p, copy, TRUE)
  <2>1. /\ work'[p].pc \in {"exempt", "finish"} /\ work'[p].target = t /\ work'[p].snap = copy
        /\ \A q \in Proc \ {p} : work'[q] = work[q]
    BY Zenon, <1>1, <1>2, <1>9, MovedMoves DEF Step
  <2>2. /\ placed'[o] = [dst |-> t, snap |-> copy, gone |-> TRUE]
        /\ \A a \in Op \ {o} : placed'[a] = placed[a]
    BY <1>1, <1>2, <1>9, PlaceTyped
  <2>3. placed'[o] # NONE /\ placed'[o].dst = t /\ placed'[o].snap = copy
    <3> HIDE DEF o, t, copy
    <3>1. placed'[o] # NONE
      BY <1>2, <2>2, PlacedRecord
    <3> QED
      BY <2>2, <3>1
  <2>4. PlacedKept /\ PutIn(placed', t, copy)
    BY <1>2, <1>3, <2>2, <2>3 DEF PlacedKept, PutIn
  <2> QED
    BY <1>7, <1>9, <2>1, <2>4
<1>10. CASE disk' \in {disk, [disk EXCEPT ![t] = NONE]} /\ Report(p, "failed") /\ UNCHANGED placed
  <2>1. "failed" \in Terminal \ {"completed"} /\ "failed" \in Terminal
    BY DEF Terminal, Statuses
  <2>2. CASE disk' = disk
    <3>1. FilesInv'
      BY <1>1, <1>10, <2>1, <2>2, ReportFiles
    <3>2. Documents' = Documents
      BY <2>2 DEF Documents
    <3> QED
      BY <3>1, <3>2
  <2>3. CASE disk' = [disk EXCEPT ![t] = NONE]
    <3>1. /\ work'[p].pc = "finish" /\ work'[p].result = "failed"
          /\ \A q \in Proc \ {p} : work'[q] = work[q]
      BY <1>1, <1>10, <2>1, ReportMoves DEF Step
    <3>2. PlacedKept /\ ~Succeeds(p)'
      BY <1>10, <3>1 DEF PlacedKept, Succeeds
    <3> QED
      BY <1>7, <2>3, <3>1, <3>2
  <2> QED
    BY <1>10, <2>2, <2>3
<1> QED
  BY <1>8, <1>9, <1>10

----------------------------------------------------------------------------
(* Steps that close a row, and steps of the other actors.                  *)

\* What closing a row records of its file.
LEMMA CloseRecords ==
  ASSUME TypeInv, NEW o \in Op, NEW st \in Terminal, NEW dst, NEW snap,
         CloseRow(o, st, dst, snap), st = "completed" => PutIn(placed, dst, snap)
  PROVE  /\ FileKept
         /\ \A a \in Op : journal'[a] \in {journal[a], NONE}
         /\ \A a \in Op : ops'[a].status = "completed" =>
              \/ ops[a].status = "completed" /\ ops'[a].dst = ops[a].dst /\ ops'[a].after = ops[a].after
              \/ PutIn(placed, ops'[a].dst, ops'[a].after)
<1>1. FileKept
  BY CloseColumns DEF FileKept
<1>2. \A a \in Op : journal'[a] \in {journal[a], NONE}
  <2>1. journal' = journal \/ journal' = [journal EXCEPT ![o] = NONE]
    BY DEF CloseRow, dbVars
  <2> QED
    BY <2>1 DEF TypeInv, TypeOK
<1>3. ASSUME NEW a \in Op, ops'[a].status = "completed"
      PROVE  \/ ops[a].status = "completed" /\ ops'[a].dst = ops[a].dst /\ ops'[a].after = ops[a].after
             \/ PutIn(placed, ops'[a].dst, ops'[a].after)
  <2>1. CASE a # o
    BY <1>3, <2>1, CloseColumns
  <2>2. CASE a = o
    <3>1. \/ ops'[o] = ops[o]
          \/ /\ ops'[o].status = st
             /\ IF st = "completed" THEN ops'[o].dst = dst /\ ops'[o].after = snap
                ELSE ops'[o].dst = ops[o].dst
      BY CloseColumns
    <3> QED
      BY <1>3, <2>2, <3>1
  <2> QED
    BY <2>1, <2>2
<1> QED
  BY <1>1, <1>2, <1>3

\* A request is taken up, ends or is dropped; a reconciliation reaches no new
\* verdict.
LEMMA EndsFiles ==
  ASSUME MoveInv, FilesInv, NEW p \in Proc, UNCHANGED <<disk, serial, placed>>,
         FileKept, \A a \in Op : journal'[a] \in {journal[a], NONE},
         \A a \in Op : ops'[a].status = "completed" =>
           \/ ops[a].status = "completed" /\ ops'[a].dst = ops[a].dst /\ ops'[a].after = ops[a].after
           \/ PutIn(placed, ops'[a].dst, ops'[a].after),
         \A q \in Proc \ {p} : work'[q] = work[q],
         work'[p] = work[p] \/ work'[p].pc \in {"idle", "check", "release", "recover"},
         \A q \in Proc : rec'[q].verdict = "complete" =>
           rec[q].verdict = "complete" /\ rec'[q].dst = rec[q].dst /\ rec'[q].snap = rec[q].snap
  PROVE  FilesInv'
<1>1. \A q \in Proc :
           \/ work'[q] = work[q]
           \/ /\ work'[q].pc \notin Holding
              /\ work'[q].pc \notin {"recheck", "lock"}
              /\ ~Succeeds(q)'
  BY DEF Holding, Succeeds
<1> QED
  BY <1>1, FilesStay

LEMMA RequestFiles ==
  ASSUME MoveInv, FilesInv, NEW p \in Proc,
         TakeRequest(p) \/ Finish(p) \/ Release(p) \/ Panic(p)
  PROVE  FilesInv'
<1> TypeInv /\ TypeOK
  BY DEF MoveInv, TypeInv
<1> work \in [Proc -> Request] /\ rec \in [Proc -> Recovery]
  BY DEF TypeOK
<1>1. UNCHANGED <<disk, serial, placed>>
  BY DEF TakeRequest, Finish, Release, Panic
<1>2. /\ FileKept /\ \A a \in Op : journal'[a] \in {journal[a], NONE}
      /\ \A a \in Op : ops'[a].status = "completed" =>
           \/ ops[a].status = "completed" /\ ops'[a].dst = ops[a].dst /\ ops'[a].after = ops[a].after
           \/ PutIn(placed, ops'[a].dst, ops'[a].after)
  <2>1. CASE UNCHANGED dbVars
    BY <2>1 DEF dbVars, FileKept
  <2>2. CASE CloseRow(Cur(p), work[p].result, work[p].target, work[p].snap) /\ work[p].pc = "finish"
    <3>1. work[p].op \in Op /\ work[p].result \in Terminal
      BY <2>2, WorkerRunning
    <3>2. work[p].result = "completed" => PutIn(placed, work[p].target, work[p].snap)
      BY <2>2 DEF FilesInv, RecordInv, WorkPlaced
    <3> DEFINE t == work[p].target
               s == work[p].snap
               r == work[p].result
    <3>3. CloseRow(work[p].op, r, t, s) /\ r \in Terminal /\ (r = "completed" => PutIn(placed, t, s))
      BY <2>2, <3>1, <3>2 DEF Cur
    <3> HIDE DEF t, s, r
    <3> QED
      BY <3>1, <3>3, CloseRecords
  <2> QED
    BY <2>1, <2>2 DEF TakeRequest, Finish, Release, Panic, At
<1>3. /\ work'[p].pc \in {"idle", "check", "release", "recover"}
      /\ \A q \in Proc \ {p} : work'[q] = work[q]
  <2>1. CASE TakeRequest(p)
    <3> DEFINE w == [pc |-> "check", op |-> Head(queue[p]), target |-> ops[Head(queue[p])].dst,
                     snap |-> ops[Head(queue[p])].snap, result |-> "none"]
    <3>1. work' = [work EXCEPT ![p] = w] /\ w.pc = "check"
      BY <2>1 DEF TakeRequest
    <3> HIDE DEF w
    <3> QED
      BY <3>1
  <2>2. CASE Finish(p) \/ Release(p) \/ Panic(p)
    BY <2>2 DEF Finish, Release, Panic, Goto, Idle, Request
  <2> QED
    BY <2>1, <2>2
<1>4. \A q \in Proc : rec'[q].verdict = rec[q].verdict /\ rec'[q].dst = rec[q].dst
                      /\ rec'[q].snap = rec[q].snap
  BY DEF TakeRequest, Finish, Release, Panic, Recovery
<1> QED
  BY <1>1, <1>2, <1>3, <1>4, EndsFiles

\* A verdict to complete a row rests on the file that the journal names.
LEMMA LookFiles ==
  ASSUME MoveInv, FilesInv, NEW p \in Proc, Look(p)
  PROVE  FilesInv'
<1> TypeInv /\ TypeOK
  BY DEF MoveInv, TypeInv
<1> DEFINE o == rec[p].op
           v == Verdict(o)
           d == IF journal[o] = NONE THEN NONE ELSE journal[o].dst
           s == IF journal[o] = NONE THEN NONE ELSE journal[o].snap
<1>1. UNCHANGED <<disk, serial, placed, ops, journal, work>>
  BY DEF Look, recOnly, dbVars
<1>2. o \in Op /\ rec[p] \in Recovery /\ rec \in [Proc -> Recovery]
  BY DEF Look, TypeOK, Recovery
<1>3. rec' = [rec EXCEPT ![p].verdict = v, ![p].dst = d, ![p].snap = s]
  BY DEF Look
<1>4. v = "complete" => PutIn(placed, d, s)
  BY <1>2 DEF Verdict, FilesInv, RecordInv, JournalMatched
<1> HIDE DEF v, d, s, o
<1>5. /\ rec'[p].verdict = v /\ rec'[p].dst = d /\ rec'[p].snap = s
      /\ \A q \in Proc \ {p} : rec'[q] = rec[q]
  BY <1>2, <1>3 DEF Recovery
<1>6. FileKept
  BY <1>1 DEF FileKept
<1> QED
  BY <1>1, <1>4, <1>5, <1>6, FilesStay

\* An interrupted copy is removed only while nobody has it open.
LEMMA RemoveCopyFiles ==
  ASSUME MoveInv, FilesInv, NEW p \in Proc, RemoveCopy(p)
  PROVE  FilesInv'
<1> TypeInv /\ TypeOK /\ Filled
  BY DEF MoveInv, TypeInv
<1> DEFINE x == rec[p].dst
<1>1. UNCHANGED <<serial, placed, ops, journal>>
  BY DEF RemoveCopy, dbVars
<1>2. x \in Path /\ rec[p] \in Recovery /\ rec \in [Proc -> Recovery] /\ work \in [Proc -> Request]
  BY DEF RemoveCopy, Filled, RecFilled, TypeOK
<1>3. FileKept /\ PlacedKept
  BY <1>1 DEF FileKept, PlacedKept
<1>4. CASE rec' = [rec EXCEPT ![p].verdict = "fail"] /\ work' = work
  <2>1. \A q \in Proc : rec'[q] = rec[q] \/ rec'[q].verdict = "fail"
    BY <1>2, <1>4 DEF Recovery
  <2>2. CASE disk' = disk
    BY <1>1, <1>3, <1>4, <2>1, <2>2, EndsFiles
  <2>3. CASE ~Held(x) /\ disk' = [disk EXCEPT ![x] = NONE]
    <3>1. disk'[x] = NONE /\ \A y \in Path : y # x => disk'[y] = disk[y]
      BY <1>2, <2>3 DEF TypeOK
    <3>2. DistinctFiles' /\ KnownIds' /\ CopiesHidden'
      BY <1>1, <1>4, <3>1, FilesLose
    <3>3. HeldInPlace' /\ HeldOnce'
      <4>1. \A q \in Proc :
              /\ work[q].pc \in Holding => disk'[ops[work[q].op].src] = disk[ops[work[q].op].src]
              /\ work[q].pc = "delete" => disk'[work[q].target] = disk[work[q].target]
        <5>1. \A q \in Proc : work[q].pc # "idle" => ops[work[q].op].src \in Path /\ work[q].target \in Path
          BY WorkerRunning DEF RowFilled
        <5> QED
          BY <2>3, <3>1, <5>1 DEF Held, Holding
      <4> QED
        BY <1>3, <1>4, <4>1, HeldKept
    <3>4. RecordInv'
      <4>1. \A a \in Op : journal[a] # NONE => journal[a].dst \in Path /\ journal[a].snap # NONE
        BY MoveAssumption DEF TypeOK, Entry
      <4>2. \A a \in Op : journal'[a] # NONE /\ disk'[journal'[a].dst] = journal'[a].snap =>
              journal[a] = journal'[a] /\ disk[journal[a].dst] = journal[a].snap
        BY <1>1, <3>1, <4>1
      <4> QED
        BY <1>1, <1>3, <1>4, <2>1, <4>2, RecordsKept
    <3> QED
      BY <3>2, <3>3, <3>4 DEF FilesInv, DiskInv
  <2> QED
    BY <1>4, <2>2, <2>3 DEF RemoveCopy
<1>5. CASE EndRec(p, rec[p].todo) /\ disk' = disk
  <2> DEFINE r == [NoRec EXCEPT !.todo = rec[p].todo]
  <2>1. rec' = [rec EXCEPT ![p] = r] /\ r.verdict = "none" /\ work' = [work EXCEPT ![p] = Idle]
    BY <1>5 DEF EndRec, NoRec
  <2> HIDE DEF r
  <2>2. /\ work'[p].pc = "idle" /\ \A q \in Proc \ {p} : work'[q] = work[q] /\ rec'[q] = rec[q]
        /\ rec'[p].verdict = "none"
    BY <1>2, <2>1 DEF Idle
  <2> QED
    BY <1>1, <1>3, <1>5, <2>2, EndsFiles
<1>6. \/ rec' = [rec EXCEPT ![p].verdict = "fail"] /\ work' = work
      \/ EndRec(p, rec[p].todo) /\ disk' = disk
  BY DEF RemoveCopy
<1> QED
  BY <1>4, <1>5, <1>6

LEMMA CloseReconciledFiles ==
  ASSUME MoveInv, FilesInv, NEW p \in Proc, CloseReconciled(p)
  PROVE  FilesInv'
<1> TypeInv /\ TypeOK /\ Filled
  BY DEF MoveInv, TypeInv
<1> rec \in [Proc -> Recovery] /\ work \in [Proc -> Request]
  BY DEF TypeOK
<1>1. UNCHANGED <<disk, serial, placed>>
  BY DEF CloseReconciled
<1>2. /\ FileKept /\ \A a \in Op : journal'[a] \in {journal[a], NONE}
      /\ \A a \in Op : ops'[a].status = "completed" =>
           \/ ops[a].status = "completed" /\ ops'[a].dst = ops[a].dst /\ ops'[a].after = ops[a].after
           \/ PutIn(placed, ops'[a].dst, ops'[a].after)
  <2>1. CASE UNCHANGED dbVars
    BY <2>1 DEF dbVars, FileKept
  <2>2. {"completed", "failed"} \subseteq Terminal /\ rec[p].op \in Op
    BY DEF CloseReconciled, Terminal, Statuses, Filled, RecFilled, Recovery
  <2>3. CASE rec[p].verdict = "complete"
             /\ CloseRow(rec[p].op, "completed", rec[p].dst, rec[p].snap)
    <3>1. PutIn(placed, rec[p].dst, rec[p].snap)
      BY <2>3 DEF FilesInv, RecordInv, RecoveryPlaced
    <3> DEFINE d == rec[p].dst
               s == rec[p].snap
    <3>2. CloseRow(rec[p].op, "completed", d, s) /\ PutIn(placed, d, s)
      BY <2>3, <3>1
    <3> HIDE DEF d, s
    <3> QED
      BY <2>2, <3>2, CloseRecords
  <2>4. CASE CloseRow(rec[p].op, "failed", NONE, NONE)
    BY <2>2, <2>4, CloseRecords
  <2> QED
    BY <2>1, <2>3, <2>4 DEF CloseReconciled
<1>3. \/ /\ rec' = [rec EXCEPT ![p].verdict = "fail"] /\ work' = work
      \/ \E todo \in {{}, rec[p].todo} : EndRec(p, todo)
  BY DEF CloseReconciled
<1>4. CASE rec' = [rec EXCEPT ![p].verdict = "fail"] /\ work' = work
  <2>1. \A q \in Proc : rec'[q] = rec[q] \/ rec'[q].verdict = "fail"
    BY <1>4 DEF Recovery
  <2> QED
    BY <1>1, <1>2, <1>4, <2>1, EndsFiles
<1>5. ASSUME NEW todo, EndRec(p, todo) PROVE FilesInv'
  <2> DEFINE r == [NoRec EXCEPT !.todo = todo]
  <2>1. rec' = [rec EXCEPT ![p] = r] /\ r.verdict = "none" /\ work' = [work EXCEPT ![p] = Idle]
    BY <1>5 DEF EndRec, NoRec
  <2> HIDE DEF r
  <2>2. /\ work'[p].pc = "idle" /\ \A q \in Proc \ {p} : work'[q] = work[q] /\ rec'[q] = rec[q]
        /\ rec'[p].verdict = "none"
    BY <2>1 DEF Idle
  <2> QED
    BY <1>1, <1>2, <2>2, EndsFiles
<1> QED
  BY <1>3, <1>4, <1>5

\* Steps of a reconciliation that change its list, starts, and deaths.
LEMMA ProcessFiles ==
  ASSUME MoveInv, FilesInv, NEW p \in Proc,
         (\E o \in Op : PickInterrupted(p, o)) \/ Lifecycle(p) \/ Crash(p)
  PROVE  FilesInv'
<1> TypeInv /\ TypeOK
  BY DEF MoveInv, TypeInv
<1> rec \in [Proc -> Recovery] /\ work \in [Proc -> Request] /\ ops \in [Op -> OpRow]
  BY DEF TypeOK
<1>1. UNCHANGED <<disk, serial, placed>>
  BY DEF PickInterrupted, recOnly, Lifecycle, Start, Ready, Crash
<1>2. \A a \in Op : /\ ops'[a].status = ops[a].status /\ ops'[a].src = ops[a].src
                    /\ ops'[a].snap = ops[a].snap /\ ops'[a].dst = ops[a].dst
                    /\ ops'[a].after = ops[a].after
  <2>1. CASE ops' = ops
    BY <2>1
  <2>2. CASE Crash(p)
    <3> SUFFICES ASSUME NEW a \in Op
        PROVE /\ ops'[a].status = ops[a].status /\ ops'[a].src = ops[a].src
              /\ ops'[a].snap = ops[a].snap /\ ops'[a].dst = ops[a].dst
              /\ ops'[a].after = ops[a].after
      OBVIOUS
    <3>1. ops'[a] = ops[a] \/ ops'[a] = [ops[a] EXCEPT !.owner = NONE]
      BY <2>2 DEF Crash
    <3>2. ops[a] \in OpRow
      OBVIOUS
    <3> QED
      BY <3>1, <3>2 DEF OpRow
  <2> QED
    BY <2>1, <2>2 DEF PickInterrupted, recOnly, Lifecycle, Start, Ready, dbVars
<1>3. FileKept
  BY <1>2 DEF FileKept
<1>4. \A a \in Op : journal'[a] \in {journal[a], NONE}
  BY DEF PickInterrupted, recOnly, Lifecycle, Start, Ready, Crash, dbVars
<1>5. work' = work \/ (work'[p].pc = "idle" /\ \A q \in Proc \ {p} : work'[q] = work[q])
  <2>1. CASE Crash(p)
    BY <2>1 DEF Crash, Idle
  <2>2. CASE ~Crash(p)
    BY <2>2 DEF PickInterrupted, recOnly, Lifecycle, Start, Ready
  <2> QED
    BY <2>1, <2>2
<1>6. \A q \in Proc : rec'[q].verdict = "complete" =>
        rec[q].verdict = "complete" /\ rec'[q].dst = rec[q].dst /\ rec'[q].snap = rec[q].snap
  <2>1. CASE Crash(p)
    BY <2>1 DEF Crash, NoRec
  <2>2. CASE Start(p)
    <3> DEFINE todo == {o \in Op : ops[o].status = "started"}
    <3>1. rec' = [rec EXCEPT ![p].todo = todo]
      BY <2>2 DEF Start
    <3> HIDE DEF todo
    <3> QED
      BY <3>1 DEF Recovery
  <2>3. CASE Ready(p)
    BY <2>3 DEF Ready
  <2>4. ASSUME NEW o \in Op, PickInterrupted(p, o)
        PROVE  \A q \in Proc : rec'[q].verdict = rec[q].verdict /\ rec'[q].dst = rec[q].dst
                               /\ rec'[q].snap = rec[q].snap
    <3> DEFINE next == IF OwnerGone(o) THEN o ELSE NONE
               todo == rec[p].todo \ {o}
    <3>1. rec' = [rec EXCEPT ![p].todo = todo, ![p].op = next]
      BY <2>4 DEF PickInterrupted
    <3> HIDE DEF todo, next
    <3> QED
      BY <3>1 DEF Recovery
  <2> QED
    BY <2>1, <2>2, <2>3, <2>4 DEF Lifecycle
<1> QED
  BY <1>1, <1>2, <1>3, <1>4, <1>5, <1>6, EndsFiles

LEMMA FilesStep == MoveInv /\ FilesInv /\ [Next]_vars => FilesInv'
<1> SUFFICES ASSUME MoveInv, FilesInv, [Next]_vars PROVE FilesInv'
  OBVIOUS
<1>1. CASE Users
  BY <1>1, UserFiles
<1>2. CASE UNCHANGED vars
  <2> UNCHANGED <<disk, serial, placed, journal, work, rec, ops>>
    BY <1>2 DEF vars, dbVars
  <2> FileKept
    BY DEF FileKept
  <2> QED
    BY FilesStay
<1>3. ASSUME NEW p \in Proc, Organizer(p) \/ Worker(p) PROVE FilesInv'
  BY <1>3, OrganizerFiles, RequestFiles, CheckFiles, LockFiles, RenameFiles, CopyFiles, PublishFiles,
     DeleteFiles DEF Worker
<1>4. ASSUME NEW p \in Proc, Reconciler(p) \/ Lifecycle(p) \/ Panic(p) \/ Crash(p) PROVE FilesInv'
  BY <1>4, RequestFiles, LookFiles, RemoveCopyFiles, CloseReconciledFiles, ProcessFiles DEF Reconciler
<1> QED
  BY <1>1, <1>2, <1>3, <1>4 DEF Next

LEMMA FilesInit == Init => FilesInv
<1> SUFFICES ASSUME Init PROVE FilesInv
  OBVIOUS
<1>1. /\ \A x \in Path : disk[x] = NONE
      /\ \A o \in Op : journal[o] = NONE /\ ops[o].status = "none"
      /\ \A p \in Proc : work[p].pc = "idle" /\ rec[p].verdict = "none"
  BY DEF Init, Idle, NoRec, NoRow
<1>2. DiskInv
  BY <1>1 DEF DiskInv, DistinctFiles, KnownIds, CopiesHidden, HeldInPlace, HeldOnce, Holding
<1>3. RecordInv
  BY <1>1 DEF RecordInv, JournalMatched, WorkPlaced, RecoveryPlaced, CompletedIsReal
<1> QED
  BY <1>2, <1>3 DEF FilesInv

LEMMA FilesInvariant == Spec => [](MoveInv /\ FilesInv)
<1>1. Init => MoveInv /\ FilesInv
  BY MoveInvInit, FilesInit
<1>2. MoveInv /\ FilesInv /\ [Next]_vars => MoveInv' /\ FilesInv'
  BY MoveInvStep, FilesStep
<1> QED
  BY <1>1, <1>2, PTL DEF Spec

\* An operation is recorded as completed only if a move has put exactly this
\* file, with this identity, at the recorded path, also when the record was
\* made by a start or by a worker that had panicked.
THEOREM MoveCompletedIsReal == Spec => []CompletedIsReal
<1>1. FilesInv => CompletedIsReal
  BY DEF FilesInv, RecordInv
<1> QED
  BY <1>1, FilesInvariant, PTL

\* A file that is open for a move is where it was when it was opened, no file is
\* open twice, no two paths hold the same file, and a copy that is not yet
\* published is on no path.
THEOREM MoveFilesHeld == Spec => []DiskInv
<1>1. FilesInv => DiskInv
  BY DEF FilesInv
<1> QED
  BY <1>1, FilesInvariant, PTL

\* Only the user and the rollback of an interrupted copy take the last copy of a
\* document off the disk.
THEOREM MoveKeepsDocuments == Spec => MovesKeepDocuments
<1>1. ASSUME MoveInv, FilesInv, [Next]_vars
      PROVE  \/ Documents \subseteq Documents'
             \/ Users
             \/ \E p \in Proc : RemoveCopy(p)
  <2>1. CASE disk' = disk
    BY <2>1 DEF Documents
  <2>2. ASSUME NEW p \in Proc, RenameInVolume(p) \/ PublishCopy(p) \/ DeleteSource(p)
        PROVE  Documents \subseteq Documents'
    BY Zenon, <1>1, <2>2, RenameFiles, PublishFiles, DeleteFiles
  <2>3. ASSUME NEW p \in Proc, Organizer(p) \/ Worker(p)
        PROVE  disk' = disk \/ RenameInVolume(p) \/ PublishCopy(p) \/ DeleteSource(p)
    BY <2>3 DEF Organizer, Notice, TakeStable, Dispatch, KeepPending, RetryOperation, UndoOperation,
       Worker, TakeRequest, CheckMove, RecheckActivation, LockAndJournal, CopyAndJournal,
       ExemptRestored, Finish, Release, workOnly
  <2>4. ASSUME NEW p \in Proc, Reconciler(p) \/ Lifecycle(p) \/ Panic(p) \/ Crash(p)
        PROVE  disk' = disk \/ RemoveCopy(p)
    BY <2>4 DEF Reconciler, PickInterrupted, Look, recOnly, CloseReconciled, Lifecycle, Start, Ready,
       Panic, Crash
  <2>5. CASE UNCHANGED vars
    BY <2>1, <2>5 DEF vars
  <2> QED
    BY <1>1, <2>1, <2>2, <2>3, <2>4, <2>5 DEF Next
<1>2. MoveInv /\ FilesInv /\ [Next]_vars =>
        [\/ Documents \subseteq Documents'
         \/ Users
         \/ \E p \in Proc : RemoveCopy(p)]_vars
  BY <1>1
<1> QED
  BY <1>2, FilesInvariant, PTL DEF Spec, MovesKeepDocuments

----------------------------------------------------------------------------
(* The steps of the model, row by row and path by path.  An effect says    *)
(* what a step of one actor does to the files and to the records about     *)
(* them; the invariants that follow are proved from the effects.           *)

LEMMA UserDoes == ASSUME TypeOK, Users PROVE UserEffect
<1>1. PICK x \in Path : UserWrite(x) \/ UserDelete(x)
  BY DEF Users
<1> disk \in [Path -> Snap \cup {NONE}] /\ serial \in Nat
    /\ used \in [edits : Nat, crashes : Nat, faults : Nat]
  BY DEF TypeOK
<1>2. /\ UNCHANGED <<ops, journal, phase, queue, work, rec, placed>>
      /\ ThreadSame /\ ExemptionsSame /\ ~Held(x)
  BY <1>1 DEF UserWrite, UserDelete, dbVars, threadVars, ThreadSame, ExemptionsSame
<1>3. FaultsSame
  BY <1>1 DEF UserWrite, UserDelete, FaultsSame
<1>4. \A y \in Path : y # x => disk'[y] = disk[y]
  BY <1>1 DEF UserWrite, UserDelete
<1>5. \/ disk'[x] = NONE /\ serial' = serial
      \/ /\ serial' = serial + 1 /\ disk'[x] \in Snap
         /\ disk'[x].id = serial + 1 /\ disk'[x].doc = serial + 1
  BY <1>1 DEF UserWrite, UserDelete, Snap
<1> QED
  BY <1>2, <1>3, <1>4, <1>5 DEF UserEffect

\* A fault is counted, and nothing else counts one.
LEMMA FaultCounted ==
  ASSUME TypeOK, Fault
  PROVE  used.faults \in Nat /\ used'.faults = used.faults + 1
<1> used \in [edits : Nat, crashes : Nat, faults : Nat]
  BY DEF TypeOK
<1> QED
  BY DEF Fault

LEMMA FaultsOnlyGrow == ASSUME TypeOK, [Next]_vars PROVE FaultsGrow
<1>0. used \in [edits : Nat, crashes : Nat, faults : Nat]
  BY DEF TypeOK
<1>1. ASSUME \/ used' = used \/ Fault
             \/ used' = [used EXCEPT !.edits = @ + 1]
             \/ used' = [used EXCEPT !.crashes = @ + 1]
      PROVE  FaultsGrow
  BY <1>0, <1>1 DEF Fault, FaultsGrow
<1>2. CASE Users
  BY <1>1, <1>2 DEF Users, UserWrite, UserDelete
<1>3. CASE UNCHANGED vars
  BY <1>1, <1>3 DEF vars
<1>4. ASSUME NEW p \in Proc, Organizer(p) PROVE FaultsGrow
  BY <1>1, <1>4 DEF Organizer, Notice, TakeStable, Dispatch, KeepPending, RetryOperation, UndoOperation
<1>5. ASSUME NEW p \in Proc, Worker(p) PROVE FaultsGrow
  BY <1>1, <1>5 DEF Worker, TakeRequest, CheckMove, RecheckActivation, LockAndJournal, RenameInVolume,
     CopyAndJournal, PublishCopy, DeleteSource, ExemptRestored, Finish, Release
<1>6. ASSUME NEW p \in Proc, Reconciler(p) \/ Lifecycle(p) \/ Panic(p) PROVE FaultsGrow
  BY <1>1, <1>6 DEF Reconciler, PickInterrupted, Look, recOnly, RemoveCopy, CloseReconciled, Lifecycle,
     Start, Ready, Panic
<1>7. ASSUME NEW p \in Proc, Crash(p) PROVE FaultsGrow
  BY <1>1, <1>7 DEF Crash
<1> QED
  BY <1>2, <1>3, <1>4, <1>5, <1>6, <1>7 DEF Next

LEMMA MoveStepFrame == ASSUME TypeInv, NEW p \in Proc, MoveStep(p) PROVE MoveFrame(p)
<1>1. /\ work[p].pc # "idle" /\ work'[p].op = work[p].op
      /\ \A q \in Proc : q # p => work'[q] = work[q]
  BY MoveStepMoves DEF MoveOn, Step
<1>2. UNCHANGED <<ops, phase, rec, queue, pending, checked>>
  BY DEF MoveStep, CheckMove, RecheckActivation, LockAndJournal, RenameInVolume, CopyAndJournal,
         PublishCopy, DeleteSource, ExemptRestored, workOnly, dbVars, threadVars
<1> QED
  BY <1>1, <1>2 DEF MoveFrame, ThreadSame

\* A request whose target is occupied ends, or looks for another one.
LEMMA DivertGoes ==
  ASSUME TypeInv, NEW p \in Proc, work[p].pc \in {"check", "rename", "publish"},
         NEW next \in {"recheck", "lock"}, Divert(p, next)
  PROVE  /\ work'[p].snap = work[p].snap
         /\ \/ /\ work'[p].pc = "finish" /\ work'[p].result # "completed"
               /\ work'[p].target = work[p].target
            \/ /\ work'[p].pc \in {"recheck", "lock"} /\ work'[p].target \in Spare
               /\ ops[work[p].op].kind # "undo"
<1>0. /\ work[p].pc # "idle" /\ Spare \subseteq Path
      /\ {"failed", "skipped", "cancelled"} \subseteq Terminal
      /\ next \in Busy \ {"finish", "exempt", "release", "recover"}
  BY MoveAssumption DEF Terminal, Statuses, Busy
<1>1. \/ \E st \in {"failed", "skipped", "cancelled"} : Report(p, st)
      \/ /\ ops[work[p].op].kind # "undo"
         /\ \E t \in Spare : work' = [work EXCEPT ![p].pc = next, ![p].target = t]
  BY DEF Divert, Undoing, Cur
<1>2. CASE \E st \in {"failed", "skipped", "cancelled"} : Report(p, st)
  BY <1>0, <1>2, ReportMoves DEF Step
<1>3. CASE /\ ops[work[p].op].kind # "undo"
           /\ \E t \in Spare : work' = [work EXCEPT ![p].pc = next, ![p].target = t]
  <2>1. PICK t \in Spare : work' = [work EXCEPT ![p].pc = next, ![p].target = t]
    BY <1>3
  <2>2. t \in Path
    BY <1>0
  <2>3. Step(p, next, t, work[p].snap, work[p].result)
    BY <1>0, <2>1, <2>2, RetargetMoves
  <2> QED
    BY <1>3, <2>2, <2>3 DEF Step
<1> QED
  BY <1>1, <1>2, <1>3

LEMMA PlaceDoes ==
  ASSUME TypeInv, NEW p \in Proc, work[p].pc # "idle", NEW s \in Snap, NEW g \in BOOLEAN,
         placed' = Place(p, s, g)
  PROVE  Places(p, s, g)
<1>1. /\ placed'[work[p].op] = [dst |-> work[p].target, snap |-> s, gone |-> g]
      /\ \A a \in Op : a # work[p].op => placed'[a] = placed[a]
  BY PlaceTyped
<1>2. [dst |-> work[p].target, snap |-> s, gone |-> g] # NONE
  BY WorkerRunning, PlacedRecord
<1>3. PICK r : r = [dst |-> work[p].target, snap |-> s, gone |-> g]
  OBVIOUS
<1>4. r.dst = work[p].target /\ r.snap = s /\ r.gone = g
  BY <1>3
<1> QED
  BY <1>1, <1>2, <1>3, <1>4 DEF Places

\* A request that arrives.
LEMMA MovedArrives ==
  ASSUME TypeInv, NEW p \in Proc, work[p].pc # "idle", NEW s \in Snap, Moved(p, s)
  PROVE  Arrives(p, s)
<1>1. work \in [Proc -> Request] /\ work[p] \in Request
  BY DEF TypeInv, TypeOK
<1> DEFINE pc == IF ops[work[p].op].kind = "undo" THEN "exempt" ELSE "finish"
<1>2. work' = [work EXCEPT ![p].pc = pc, ![p].snap = s, ![p].result = "completed"]
  BY DEF Moved, Undoing, Cur
<1> HIDE DEF pc
<1>3. /\ work'[p].pc = pc /\ work'[p].target = work[p].target /\ work'[p].snap = s
      /\ work'[p].result = "completed"
  BY <1>1, <1>2 DEF Request
<1> QED
  BY <1>3 DEF Arrives, pc

\* What each step of a move does.
LEMMA BeforeMoveGoes ==
  ASSUME MoveInv, NEW p \in Proc, CheckMove(p) \/ RecheckActivation(p) \/ LockAndJournal(p)
  PROVE  GoesOn(p)
<1> TypeInv
  BY DEF MoveInv
<1>1. MoveFrame(p) /\ work[p].pc # "idle"
  BY MoveStepFrame DEF MoveStep, MoveFrame
<1>2. /\ FilesSame /\ ExemptionsSame /\ work[p].pc \in {"check", "recheck", "lock"}
  BY DEF CheckMove, RecheckActivation, LockAndJournal, At, workOnly, dbVars, FilesSame, ExemptionsSame
<1> {"failed", "cancelled"} \subseteq Terminal /\ {"recheck", "lock", "rename"} \subseteq Busy
  BY DEF Terminal, Statuses, Busy
<1>3. ASSUME NEW st \in {"failed", "cancelled"}, Report(p, st), journal' = journal PROVE GoesOn(p)
  <2>1. Step(p, "finish", work[p].target, work[p].snap, st)
    BY <1>1, <1>3, ReportMoves
  <2> QED
    BY <1>1, <1>2, <2>1, <1>3 DEF GoesOn, Step
<1>4. ASSUME NEW pc \in {"recheck", "lock"}, Goto(p, pc), journal' = journal PROVE GoesOn(p)
  <2>1. Step(p, pc, work[p].target, work[p].snap, work[p].result)
    BY <1>1, <1>4, GotoMoves
  <2> QED
    BY <1>1, <1>2, <2>1, <1>4 DEF GoesOn, Step
<1>5. CASE CheckMove(p)
  <2>1. /\ journal' = journal /\ work[p].pc = "check"
        /\ \/ Report(p, "cancelled") \/ Report(p, "failed")
           \/ Goto(p, "recheck") \/ Divert(p, "recheck")
    BY <1>5 DEF CheckMove, At, workOnly, dbVars
  <2>2. CASE Divert(p, "recheck")
    <3>1. /\ work'[p].snap = work[p].snap
          /\ \/ /\ work'[p].pc = "finish" /\ work'[p].result # "completed"
                /\ work'[p].target = work[p].target
             \/ /\ work'[p].pc \in {"recheck", "lock"} /\ work'[p].target \in Spare
                /\ ops[work[p].op].kind # "undo"
      BY <2>1, <2>2, DivertGoes
    <3> QED
      BY <1>1, <1>2, <2>1, <3>1 DEF GoesOn
  <2> QED
    BY <1>3, <1>4, <2>1, <2>2
<1>6. CASE RecheckActivation(p)
  BY <1>3, <1>4, <1>6 DEF RecheckActivation, workOnly, dbVars
<1>7. CASE LockAndJournal(p)
  <2>1. CASE Report(p, "failed") /\ journal' = journal
    BY <1>3, <2>1
  <2>2. CASE journal' = JournalRow(p, ops[work[p].op].snap) /\ Goto(p, "rename")
    <3>1. Step(p, "rename", work[p].target, work[p].snap, work[p].result)
      BY <1>1, <2>2, GotoMoves
    <3>2. ops[work[p].op].snap \in Snap
      BY Zenon, <1>1, WorkerRunning DEF RowFilled
    <3>3. /\ journal'[work[p].op] = [dst |-> work[p].target, snap |-> ops[work[p].op].snap]
          /\ \A a \in Op \ {work[p].op} : journal'[a] = journal[a]
      BY <1>1, <2>2, <3>2, JournalRowTyped
    <3> QED
      BY <1>1, <1>2, <3>1, <3>3 DEF GoesOn, Step, LockAndJournal, At
  <2> QED
    BY <1>7, <2>1, <2>2 DEF LockAndJournal, Cur
<1> QED
  BY <1>5, <1>6, <1>7

LEMMA RenameDoes ==
  ASSUME MoveInv, FilesInv, NEW p \in Proc, RenameInVolume(p)
  PROVE  GoesOn(p) \/ Renames(p)
<1> TypeInv
  BY DEF MoveInv
<1>1. MoveFrame(p) /\ work[p].pc # "idle"
  BY MoveStepFrame DEF MoveStep, MoveFrame
<1>2. /\ ExemptionsSame /\ FaultsSame /\ work[p].pc = "rename" /\ UNCHANGED <<serial, journal>>
  BY DEF RenameInVolume, At, dbVars, ExemptionsSame, FaultsSame
<1>3. CASE Divert(p, "lock") /\ UNCHANGED <<disk, placed>>
  <2>1. /\ work'[p].snap = work[p].snap
        /\ \/ /\ work'[p].pc = "finish" /\ work'[p].result # "completed"
              /\ work'[p].target = work[p].target
           \/ /\ work'[p].pc \in {"recheck", "lock"} /\ work'[p].target \in Spare
              /\ ops[work[p].op].kind # "undo"
    BY Zenon, <1>2, <1>3, DivertGoes
  <2> QED
    BY <1>1, <1>2, <1>3, <2>1 DEF GoesOn, FilesSame
<1>4. CASE /\ disk[work[p].target] = NONE
           /\ disk' = [disk EXCEPT ![Src(p)] = NONE, ![work[p].target] = ops[Cur(p)].snap]
           /\ placed' = Place(p, ops[Cur(p)].snap, TRUE)
           /\ Moved(p, ops[Cur(p)].snap)
  <2>1. /\ work[p].op \in Op /\ work[p].target \in Path /\ ops[work[p].op].src \in Path
        /\ work[p].target # ops[work[p].op].src /\ ops[work[p].op].snap \in Snap
    BY <1>1, <1>2, HolderFacts, WorkerRunning DEF Holding, RowFilled
  <2>2. Arrives(p, ops[work[p].op].snap)
    BY <1>1, <1>4, <2>1, MovedArrives DEF Cur
  <2>3. Places(p, ops[work[p].op].snap, TRUE)
    BY <1>1, <1>4, <2>1, PlaceDoes DEF Cur
  <2>4. /\ disk'[ops[work[p].op].src] = NONE /\ disk'[work[p].target] = ops[work[p].op].snap
        /\ \A x \in Path : x # ops[work[p].op].src /\ x # work[p].target => disk'[x] = disk[x]
    BY <1>4, <2>1 DEF TypeInv, TypeOK, Src, Cur
  <2> QED
    BY <1>1, <1>2, <1>4, <2>2, <2>3, <2>4 DEF Renames
<1> QED
  BY <1>3, <1>4 DEF RenameInVolume

LEMMA CopyDoes ==
  ASSUME MoveInv, NEW p \in Proc, CopyAndJournal(p)
  PROVE  GoesOn(p) \/ Copies(p)
<1> TypeInv
  BY DEF MoveInv
<1>1. MoveFrame(p) /\ work[p].pc # "idle"
  BY MoveStepFrame DEF MoveStep, MoveFrame
<1>2. /\ ExemptionsSame /\ work[p].pc = "rename" /\ UNCHANGED <<disk, placed>>
  BY DEF CopyAndJournal, At, ExemptionsSame
<1>3. CASE Report(p, "failed") /\ UNCHANGED <<serial, journal>>
  <2>1. "failed" \in Terminal
    BY DEF Terminal, Statuses
  <2>2. Step(p, "finish", work[p].target, work[p].snap, "failed")
    BY <1>1, <1>3, <2>1, ReportMoves
  <2> QED
    BY <1>1, <1>2, <1>3, <2>2 DEF GoesOn, Step, FilesSame
<1> DEFINE copy == [doc |-> ops[work[p].op].snap.doc, id |-> serial + 1]
<1>4. CASE /\ serial' = serial + 1 /\ journal' = JournalRow(p, copy) /\ used' = used
           /\ work' = [work EXCEPT ![p].pc = "publish", ![p].snap = copy]
  <2>1. copy \in Snap /\ copy.id = serial + 1 /\ copy.doc = ops[work[p].op].snap.doc
    <3>1. serial \in Nat /\ ops[work[p].op].snap \in Snap
      BY <1>1, WorkerRunning DEF RowFilled, TypeInv, TypeOK
    <3> QED
      BY <3>1 DEF Snap
  <2> HIDE DEF copy
  <2>2. work'[p].pc = "publish" /\ work'[p].snap = copy /\ work'[p].target = work[p].target
    <3> work \in [Proc -> Request]
      BY DEF TypeInv, TypeOK
    <3> QED
      BY <1>4 DEF Request
  <2>3. /\ journal'[work[p].op] = [dst |-> work[p].target, snap |-> copy]
        /\ \A a \in Op \ {work[p].op} : journal'[a] = journal[a]
    BY <1>1, <1>4, <2>1, JournalRowTyped
  <2> QED
    BY <1>1, <1>2, <1>4, <2>1, <2>2, <2>3 DEF Copies, FaultsSame
<1> QED
  BY <1>3, <1>4 DEF CopyAndJournal, Cur

LEMMA PublishDoes ==
  ASSUME MoveInv, FilesInv, NEW p \in Proc, PublishCopy(p)
  PROVE  GoesOn(p) \/ Publishes(p)
<1> TypeInv
  BY DEF MoveInv
<1>1. MoveFrame(p) /\ work[p].pc # "idle"
  BY MoveStepFrame DEF MoveStep, MoveFrame
<1>2. /\ ExemptionsSame /\ FaultsSame /\ work[p].pc = "publish" /\ UNCHANGED <<serial, journal>>
  BY DEF PublishCopy, At, dbVars, ExemptionsSame, FaultsSame
<1>3. CASE Divert(p, "lock") /\ UNCHANGED <<disk, placed>>
  <2>1. /\ work'[p].snap = work[p].snap
        /\ \/ /\ work'[p].pc = "finish" /\ work'[p].result # "completed"
              /\ work'[p].target = work[p].target
           \/ /\ work'[p].pc \in {"recheck", "lock"} /\ work'[p].target \in Spare
              /\ ops[work[p].op].kind # "undo"
    BY <1>2, <1>3, DivertGoes
  <2> QED
    BY <1>1, <1>2, <1>3, <2>1 DEF GoesOn, FilesSame
<1>4. CASE /\ disk[work[p].target] = NONE
           /\ disk' = [disk EXCEPT ![work[p].target] = work[p].snap]
           /\ placed' = Place(p, work[p].snap, FALSE)
           /\ Goto(p, "delete")
  <2>1. work[p].op \in Op /\ work[p].target \in Path /\ work[p].snap \in Snap /\ "delete" \in Busy
    BY <1>1, WorkerRunning DEF Busy
  <2>2. Step(p, "delete", work[p].target, work[p].snap, work[p].result)
    BY <1>1, <1>4, <2>1, GotoMoves
  <2>3. Places(p, work[p].snap, FALSE)
    BY <1>1, <1>4, <2>1, PlaceDoes
  <2>4. /\ disk'[work[p].target] = work[p].snap
        /\ \A x \in Path : x # work[p].target => disk'[x] = disk[x]
    BY <1>4, <2>1 DEF TypeInv, TypeOK
  <2> QED
    BY <1>1, <1>2, <1>4, <2>2, <2>3, <2>4 DEF Publishes, Step
<1> QED
  BY <1>3, <1>4 DEF PublishCopy

LEMMA DeleteDoes ==
  ASSUME MoveInv, FilesInv, NEW p \in Proc, DeleteSource(p)
  PROVE  Deletes(p) \/ KeepsSource(p)
<1> TypeInv
  BY DEF MoveInv
<1>1. MoveFrame(p) /\ work[p].pc # "idle"
  BY MoveStepFrame DEF MoveStep, MoveFrame
<1>2. /\ ExemptionsSame /\ work[p].pc = "delete" /\ UNCHANGED <<serial, journal>>
  BY DEF DeleteSource, At, dbVars, ExemptionsSame
<1>3. CASE /\ disk' = [disk EXCEPT ![Src(p)] = NONE] /\ Moved(p, work[p].snap)
           /\ placed' = Place(p, work[p].snap, TRUE) /\ used' = used
  <2>1. /\ work[p].op \in Op /\ work[p].target \in Path /\ work[p].snap \in Snap
        /\ ops[work[p].op].src \in Path
    BY <1>1, WorkerRunning DEF RowFilled
  <2>2. Arrives(p, work[p].snap)
    BY <1>1, <1>3, <2>1, MovedArrives
  <2>3. Places(p, work[p].snap, TRUE)
    BY <1>1, <1>3, <2>1, PlaceDoes
  <2>4. /\ disk'[ops[work[p].op].src] = NONE
        /\ \A x \in Path : x # ops[work[p].op].src => disk'[x] = disk[x]
    BY <1>3, <2>1 DEF TypeInv, TypeOK, Src, Cur
  <2> QED
    BY <1>1, <1>2, <1>3, <2>2, <2>3, <2>4 DEF Deletes, FaultsSame
<1>4. CASE /\ Fault /\ disk' \in {disk, [disk EXCEPT ![work[p].target] = NONE]}
           /\ Report(p, "failed") /\ placed' = placed
  <2>1. "failed" \in Terminal
    BY DEF Terminal, Statuses
  <2>2. Step(p, "finish", work[p].target, work[p].snap, "failed")
    BY <1>1, <1>4, <2>1, ReportMoves
  <2>3. used.faults \in Nat /\ used'.faults = used.faults + 1
    BY <1>4, FaultCounted DEF TypeInv
  <2>4. \A x \in Path : disk'[x] = disk[x] \/ (x = work[p].target /\ disk'[x] = NONE)
    BY <1>4 DEF TypeInv, TypeOK
  <2> QED
    BY <1>1, <1>2, <1>4, <2>2, <2>3, <2>4 DEF KeepsSource, Step
<1> QED
  BY <1>3, <1>4 DEF DeleteSource

LEMMA ExemptDoes ==
  ASSUME MoveInv, NEW p \in Proc, ExemptRestored(p)
  PROVE  Exempts(p)
<1> TypeInv
  BY DEF MoveInv
<1>1. MoveFrame(p) /\ work[p].pc # "idle"
  BY MoveStepFrame DEF MoveStep, MoveFrame
<1>2. /\ FilesSame /\ work[p].pc = "exempt" /\ journal' = journal
  BY DEF ExemptRestored, At, FilesSame
<1>3. /\ work[p].target \in Path /\ work[p].result = "completed" /\ {"finish"} \subseteq Busy
      /\ "completed" \in Terminal
  BY <1>1, <1>2, WorkerRunning DEF Busy, Terminal, Statuses
<1>4. Step(p, "finish", work[p].target, work[p].snap, work[p].result)
  BY <1>1, <1>3, GotoMoves DEF ExemptRestored
<1>5. /\ exempt'[p][work[p].target] = work[p].snap
      /\ \A x \in Path : x # work[p].target => exempt'[p][x] = exempt[p][x]
      /\ \A q \in Proc : q # p => exempt'[q] = exempt[q]
  BY <1>3 DEF ExemptRestored, TypeInv, TypeOK
<1>6. \/ /\ FaultsSame
         /\ exemptDb'[work[p].target] = work[p].snap
         /\ \A x \in Path : x # work[p].target => exemptDb'[x] = exemptDb[x]
      \/ used.faults \in Nat /\ used'.faults = used.faults + 1 /\ exemptDb' = exemptDb
  <2>1. CASE used' = used /\ exemptDb' = [exemptDb EXCEPT ![work[p].target] = work[p].snap]
    BY <1>3, <2>1 DEF TypeInv, TypeOK, FaultsSame
  <2>2. CASE Fault /\ exemptDb' = exemptDb
    BY <2>2, FaultCounted DEF TypeInv
  <2> QED
    BY <2>1, <2>2 DEF ExemptRestored
<1> QED
  BY <1>1, <1>2, <1>3, <1>4, <1>5, <1>6 DEF Exempts, Step

LEMMA TakeDoes == ASSUME MoveInv, NEW p \in Proc, TakeRequest(p) PROVE Takes(p)
<1> TypeInv /\ TypeOK /\ JournalInv
  BY DEF MoveInv, TypeInv
<1> DEFINE o == Head(queue[p])
           w == [pc |-> "check", op |-> o, target |-> ops[o].dst, snap |-> ops[o].snap,
                 result |-> "none"]
           rest == Tail(queue[p])
<1>1. /\ queue[p] \in Seq(Op) /\ queue[p] # << >> /\ work[p].pc = "idle" /\ phase[p] = "running"
      /\ queue \in [Proc -> Seq(Op)] /\ work \in [Proc -> Request]
      /\ FilesSame /\ ExemptionsSame /\ FaultsSame /\ ThreadSame /\ UNCHANGED <<ops, journal, phase, rec>>
  BY DEF TypeOK, TakeRequest, At, dbVars, Running, FilesSame, ExemptionsSame, FaultsSame, ThreadSame
<1>2. /\ Len(queue[p]) \in Nat /\ Len(queue[p]) >= 1 /\ o = queue[p][1]
      /\ Len(rest) = Len(queue[p]) - 1
      /\ \A i \in 1..Len(rest) : rest[i] = queue[p][i + 1]
  BY <1>1
<1>3. /\ work'[p] = w /\ queue'[p] = rest
      /\ \A q \in Proc : q # p => work'[q] = work[q] /\ queue'[q] = queue[q]
  <2>1. work' = [work EXCEPT ![p] = w] /\ queue' = [queue EXCEPT ![p] = rest]
    BY DEF TakeRequest
  <2> HIDE DEF w, rest
  <2> QED
    BY <1>1, <2>1
<1>4. w.pc = "check" /\ w.op = o /\ w.target = ops[o].dst /\ w.snap = ops[o].snap
  OBVIOUS
<1>5. 1 \in 1..Len(queue[p]) /\ \A i \in 1..Len(rest) : i + 1 \in 1..Len(queue[p])
  BY <1>2
<1> HIDE DEF w, rest, o
<1>6. o \in Requests(p) /\ placed[o] = NONE
  BY <1>2, <1>5 DEF Requests, JournalInv, NothingPlacedYet
<1>7. Requests(p)' \subseteq Requests(p)
  <2>1. \A r \in Requests(p)' : r = o \/ \E i \in 1..Len(rest) : r = rest[i]
    BY <1>3, <1>4 DEF Requests
  <2>2. \A i \in 1..Len(rest) : rest[i] \in Requests(p)
    BY <1>2, <1>5 DEF Requests
  <2> QED
    BY <1>6, <2>1, <2>2
<1>8. \A q \in Proc : q # p => Requests(q)' = Requests(q)
  BY <1>3 DEF Requests
<1> QED
  BY <1>1, <1>3, <1>4, <1>6, <1>7, <1>8 DEF Takes

LEMMA RowClosed ==
  ASSUME TypeInv, NEW o \in Op, NEW st \in Terminal, NEW dst, NEW snap,
         st = "completed" => dst \in Path, ops[o].status = "started",
         CloseRow(o, st, dst, snap)
  PROVE  RowCloses(o, st, dst, snap)
<1>0. /\ "started" \notin Terminal /\ ops \in [Op -> OpRow] /\ journal \in [Op -> Entry \cup {NONE}]
      /\ exemptDb \in [Path -> Snap \cup {NONE}]
  BY DEF Terminal, TypeInv, TypeOK
<1>1. /\ \A a \in Op : /\ ops'[a].kind = ops[a].kind /\ ops'[a].src = ops[a].src
                       /\ ops'[a].snap = ops[a].snap
      /\ \A a \in Op \ {o} : /\ ops'[a].dst = ops[a].dst /\ ops'[a].after = ops[a].after
                             /\ ops'[a].status = ops[a].status
      /\ ops'[o] = ops[o] \/ (ops'[o].status = st
              /\ IF st = "completed" THEN ops'[o].dst = dst /\ ops'[o].after = snap
                 ELSE ops'[o].dst = ops[o].dst)
  BY CloseColumns
<1>2. /\ \A a \in Op : ops'[a].owner = ops[a].owner
      /\ \A a \in Op \ {o} : journal'[a] = journal[a]
  BY CloseOnly DEF ClosedOnly
<1>3. journal'[o] = NONE
  BY <1>0 DEF CloseRow
<1>4. ops'[o].status = st
  <2>1. ops' = Closed(o, st, dst, snap)
    BY DEF CloseRow
  <2>2. ops'[o] = [ops[o] EXCEPT !.status = st,
                                 !.dst = IF st = "completed" THEN dst ELSE @,
                                 !.after = IF st = "completed" THEN snap ELSE @]
    BY <2>1 DEF Closed
  <2> QED
    BY <1>0, <2>2 DEF OpRow
<1>5. ops'[o] # ops[o]
  BY <1>0, <1>4
<1>6. IF st = "completed" /\ ops[o].kind = "undo"
      THEN /\ exemptDb'[dst] = snap
           /\ \A x \in Path : x # dst => exemptDb'[x] = exemptDb[x]
      ELSE exemptDb' = exemptDb
  BY <1>0 DEF CloseRow, ExemptsRestored
<1> QED
  BY <1>1, <1>2, <1>3, <1>4, <1>5, <1>6 DEF RowCloses

LEMMA FinishDoes == ASSUME MoveInv, NEW p \in Proc, Finish(p) PROVE Finishes(p)
<1> TypeInv
  BY DEF MoveInv
<1>1. /\ FilesSame /\ ThreadSame /\ exempt' = exempt /\ UNCHANGED <<phase, rec, queue>>
      /\ work[p].pc = "finish"
  BY DEF Finish, At, threadVars, FilesSame, ThreadSame
<1>2. /\ work[p].op \in Op /\ work[p].target \in Path /\ work[p].snap \in Snap
      /\ work[p].result \in Terminal /\ ops[work[p].op].status = "started" /\ "release" \in Busy
  BY <1>1, WorkerRunning DEF Busy, MoveInv, Owned, RequestsStarted
<1>3. Step(p, "release", work[p].target, work[p].snap, work[p].result)
  BY <1>1, <1>2, GotoMoves DEF Finish
<1>4. CASE CloseRow(work[p].op, work[p].result, work[p].target, work[p].snap) /\ used' = used
  BY <1>1, <1>2, <1>3, <1>4, RowClosed DEF Finishes, Step, FaultsSame
<1>5. CASE Fault /\ UNCHANGED dbVars
  BY <1>1, <1>3, <1>5, FaultCounted DEF Finishes, Step, dbVars, TypeInv
<1> QED
  BY <1>4, <1>5 DEF Finish, Cur

LEMMA ReleaseDoes == ASSUME MoveInv, NEW p \in Proc, Release(p) PROVE Releases(p)
<1> work \in [Proc -> Request]
  BY DEF MoveInv, TypeInv, TypeOK
<1> QED
  BY DEF Release, Releases, At, Idle, dbVars, threadVars, FilesSame, ThreadSame, ExemptionsSame, FaultsSame

LEMMA PanicDoes == ASSUME MoveInv, NEW p \in Proc, Panic(p) PROVE Panics(p)
<1> TypeInv /\ TypeOK
  BY DEF MoveInv, TypeInv
<1> rec \in [Proc -> Recovery] /\ work[p].pc \notin {"idle", "recover"} /\ "recover" \in Busy
  BY DEF TypeOK, Panic, Busy
<1>1. /\ FilesSame /\ ExemptionsSame /\ ThreadSame /\ UNCHANGED <<ops, journal, phase, queue>>
  BY DEF Panic, dbVars, threadVars, FilesSame, ThreadSame, ExemptionsSame
<1>2. used.faults \in Nat /\ used'.faults = used.faults + 1
  BY FaultCounted DEF Panic
<1>3. Step(p, "recover", work[p].target, work[p].snap, work[p].result)
  <2>1. work[p].pc # "idle" /\ Goto(p, "recover")
    BY DEF Panic
  <2> QED
    BY <2>1, GotoMoves
<1>4. rec[p].verdict = "none"
  <2>1. phase[p] = "running"
    BY WorkerRunning
  <2>2. rec[p].op = NONE
    BY <2>1 DEF MoveInv, Owned, RecoveryOwned
  <2> QED
    BY <2>2 DEF TypeInv, Filled, RecFilled
<1>5. /\ rec'[p].op = work[p].op /\ rec'[p].verdict = "none"
      /\ \A q \in Proc : q # p => rec'[q] = rec[q]
  BY <1>4 DEF Panic, Recovery, Cur
<1> QED
  BY <1>1, <1>2, <1>3, <1>5 DEF Panics, Step

(* The steps of a reconciliation.                                          *)

\* How a reconciliation ends, and how it goes on to fail its operation.
LEMMA EndRecOver ==
  ASSUME TypeInv, NEW p \in Proc, NEW todo, EndRec(p, todo)
  PROVE  RecOver(p, todo) /\ \A q \in Proc : q # p => work'[q] = work[q] /\ rec'[q] = rec[q]
<1> rec \in [Proc -> Recovery] /\ work \in [Proc -> Request]
  BY DEF TypeInv, TypeOK
<1> DEFINE r == [NoRec EXCEPT !.todo = todo]
<1>1. r.op = NONE /\ r.verdict = "none" /\ r.todo = todo
  BY DEF NoRec
<1>2. rec' = [rec EXCEPT ![p] = r] /\ work' = [work EXCEPT ![p] = Idle] /\ Idle.pc = "idle"
  BY DEF EndRec, Idle
<1> HIDE DEF r
<1> QED
  BY <1>1, <1>2 DEF RecOver

LEMMA FailNext ==
  ASSUME TypeInv, NEW p \in Proc, rec' = [rec EXCEPT ![p].verdict = "fail"], work' = work
  PROVE  RecFails(p) /\ \A q \in Proc : q # p => work'[q] = work[q] /\ rec'[q] = rec[q]
<1> rec \in [Proc -> Recovery]
  BY DEF TypeInv, TypeOK
<1> QED
  BY DEF RecFails, Recovery

LEMMA PickDoes == ASSUME MoveInv, NEW p \in Proc, NEW o \in Op, PickInterrupted(p, o) PROVE Picks(p)
<1> TypeInv /\ rec \in [Proc -> Recovery]
  BY DEF MoveInv, TypeInv, TypeOK
<1>1. /\ ExemptionsSame /\ FaultsSame /\ FilesSame /\ ThreadSame
      /\ UNCHANGED <<ops, journal, work, phase, queue>>
      /\ phase[p] = "starting" /\ rec[p].op = NONE /\ o \in rec[p].todo
  BY DEF PickInterrupted, recOnly, dbVars, threadVars, ExemptionsSame, FaultsSame, FilesSame, ThreadSame
<1>2. rec[p].verdict = "none"
  BY <1>1 DEF TypeInv, Filled, RecFilled
<1> DEFINE v == IF OwnerGone(o) THEN o ELSE NONE
           todo == rec[p].todo \ {o}
<1>3. rec' = [rec EXCEPT ![p].todo = todo, ![p].op = v]
  BY DEF PickInterrupted
<1>4. v = IF ops[o].owner = NONE THEN o ELSE NONE
  BY DEF OwnerGone
<1> HIDE DEF v
<1>5. todo = rec[p].todo \ {o}
  OBVIOUS
<1> HIDE DEF todo
<1>6. /\ rec'[p].todo = todo /\ rec'[p].op = v /\ rec'[p].verdict = "none"
      /\ \A q \in Proc : q # p => rec'[q] = rec[q]
  BY <1>2, <1>3 DEF Recovery
<1> QED
  BY <1>1, <1>4, <1>5, <1>6 DEF Picks, RecFrame, FilesSame, ExemptionsSame

LEMMA LookDoes == ASSUME MoveInv, NEW p \in Proc, Look(p) PROVE Looks(p)
<1> TypeInv /\ rec \in [Proc -> Recovery]
  BY DEF MoveInv, TypeInv, TypeOK
<1>1. /\ ExemptionsSame /\ FaultsSame /\ FilesSame /\ ThreadSame
      /\ UNCHANGED <<ops, journal, work, phase, queue>>
      /\ rec[p].op # NONE
  BY DEF Look, recOnly, dbVars, threadVars, ExemptionsSame, FaultsSame, FilesSame, ThreadSame
<1> DEFINE o == rec[p].op
           v == Verdict(o)
           d == IF journal[o] = NONE THEN NONE ELSE journal[o].dst
           s == IF journal[o] = NONE THEN NONE ELSE journal[o].snap
<1>2. rec' = [rec EXCEPT ![p].verdict = v, ![p].dst = d, ![p].snap = s]
  BY DEF Look
<1>3. v = Verdict(rec[p].op)
  OBVIOUS
<1> HIDE DEF v
<1>4. journal[rec[p].op] # NONE => d = journal[rec[p].op].dst /\ s = journal[rec[p].op].snap
  OBVIOUS
<1> HIDE DEF d, s, o
<1>5. /\ rec'[p].verdict = v /\ rec'[p].dst = d /\ rec'[p].snap = s /\ rec'[p].op = rec[p].op
      /\ rec'[p].todo = rec[p].todo
      /\ \A q \in Proc : q # p => rec'[q] = rec[q]
  BY <1>2 DEF Recovery
<1>6. RecFrame(p)
  BY <1>1, <1>5 DEF RecFrame, FilesSame, ExemptionsSame
<1> QED
  BY <1>1, <1>3, <1>4, <1>5, <1>6 DEF Looks

LEMMA RemoveDoes == ASSUME MoveInv, NEW p \in Proc, RemoveCopy(p) PROVE RemovesCopy(p)
<1> TypeInv /\ TypeOK
  BY DEF MoveInv, TypeInv
<1>1. /\ ExemptionsSame /\ ThreadSame
      /\ UNCHANGED <<ops, journal, serial, placed, phase, queue>> /\ rec[p].verdict = "rollback"
  BY DEF RemoveCopy, dbVars, threadVars, ExemptionsSame, ThreadSame
<1>2. rec[p].op # NONE /\ rec[p].dst \in Path
  BY <1>1 DEF TypeInv, Filled, RecFilled
<1>3. CASE /\ disk[rec[p].dst] = rec[p].snap /\ disk' = [disk EXCEPT ![rec[p].dst] = NONE]
           /\ rec' = [rec EXCEPT ![p].verdict = "fail"] /\ work' = work /\ used' = used
  <2>1. RecFails(p) /\ \A q \in Proc : q # p => work'[q] = work[q] /\ rec'[q] = rec[q]
    BY <1>3, FailNext
  <2>2. disk'[rec[p].dst] = NONE /\ \A x \in Path : x # rec[p].dst => disk'[x] = disk[x]
    BY <1>2, <1>3 DEF TypeOK
  <2> QED
    BY <1>1, <1>2, <1>3, <2>1, <2>2 DEF RemovesCopy, RecFrame, FaultsSame, ExemptionsSame
<1>4. CASE /\ disk' = disk
           /\ \/ (disk[rec[p].dst] # rec[p].snap \/ Held(rec[p].dst)) /\ used' = used
              \/ Fault
           /\ \/ phase[p] = "starting" /\ EndRec(p, rec[p].todo)
              \/ rec' = [rec EXCEPT ![p].verdict = "fail"] /\ work' = work
  <2>1. /\ \/ RecFails(p)
           \/ phase[p] = "starting" /\ RecOver(p, rec[p].todo)
        /\ \A q \in Proc : q # p => work'[q] = work[q] /\ rec'[q] = rec[q]
    BY <1>4, FailNext, EndRecOver
  <2>2. \/ FaultsSame /\ (disk[rec[p].dst] # rec[p].snap \/ Held(rec[p].dst))
        \/ used.faults \in Nat /\ used'.faults = used.faults + 1
    BY <1>4, FaultCounted DEF FaultsSame
  <2> QED
    BY <1>1, <1>2, <1>4, <2>1, <2>2 DEF RemovesCopy, RecFrame, ExemptionsSame
<1> QED
  BY <1>3, <1>4 DEF RemoveCopy

LEMMA CloseDoes == ASSUME MoveInv, NEW p \in Proc, CloseReconciled(p) PROVE Closes(p)
<1> TypeInv /\ TypeOK
  BY DEF MoveInv, TypeInv
<1>1. /\ FilesSame /\ ThreadSame /\ exempt' = exempt /\ UNCHANGED <<phase, queue, serial, placed>>
      /\ rec[p].verdict \in {"fail", "complete"}
  BY DEF CloseReconciled, threadVars, FilesSame, ThreadSame
<1>2. /\ rec[p].op # NONE /\ rec[p].op \in Op
      /\ rec[p].verdict = "complete" => rec[p].dst \in Path /\ rec[p].snap \in Snap
      /\ "completed" \in Terminal /\ "failed" \in Terminal /\ "failed" # "completed"
  BY <1>1 DEF TypeInv, Filled, RecFilled, TypeOK, Recovery, Terminal, Statuses
<1>3. CASE /\ IF rec[p].verdict = "complete"
              THEN CloseRow(rec[p].op, "completed", rec[p].dst, rec[p].snap)
              ELSE CloseRow(rec[p].op, "failed", NONE, NONE)
           /\ EndRec(p, rec[p].todo) /\ used' = used
  <2>1. RecOver(p, rec[p].todo) /\ \A q \in Proc : q # p => work'[q] = work[q] /\ rec'[q] = rec[q]
    BY <1>3, EndRecOver
  <2>2. \/ ops[rec[p].op].status # "started" /\ UNCHANGED <<ops, journal, exemptDb>>
        \/ /\ rec[p].verdict = "complete"
           /\ RowCloses(rec[p].op, "completed", rec[p].dst, rec[p].snap)
        \/ rec[p].verdict = "fail" /\ RowCloses(rec[p].op, "failed", NONE, NONE)
    <3>1. CASE ops[rec[p].op].status # "started"
      BY <1>3, <3>1 DEF CloseRow, dbVars
    <3>2. CASE ops[rec[p].op].status = "started" /\ rec[p].verdict = "complete"
      BY <1>2, <1>3, <3>2, RowClosed
    <3>3. CASE ops[rec[p].op].status = "started" /\ rec[p].verdict = "fail"
      BY <1>2, <1>3, <3>3, RowClosed
    <3> QED
      BY <1>1, <3>1, <3>2, <3>3
  <2> QED
    BY <1>1, <1>2, <1>3, <2>1, <2>2 DEF Closes, RecFrame, FaultsSame
<1>4. CASE /\ Fault /\ UNCHANGED dbVars
           /\ \/ /\ phase[p] = "running" /\ rec[p].verdict = "complete"
                 /\ rec' = [rec EXCEPT ![p].verdict = "fail"] /\ work' = work
              \/ EndRec(p, {})
  <2>1. /\ \/ phase[p] = "running" /\ rec[p].verdict = "complete" /\ RecFails(p)
           \/ RecOver(p, {})
        /\ \A q \in Proc : q # p => work'[q] = work[q] /\ rec'[q] = rec[q]
    BY <1>4, FailNext, EndRecOver
  <2>2. used.faults \in Nat /\ used'.faults = used.faults + 1 /\ UNCHANGED <<ops, journal, exemptDb>>
    BY <1>4, FaultCounted DEF dbVars
  <2> QED
    BY <1>1, <1>2, <2>1, <2>2 DEF Closes, RecFrame
<1> QED
  BY <1>3, <1>4 DEF CloseReconciled

(* The steps of a process.                                                 *)

LEMMA StartDoes == ASSUME MoveInv, NEW p \in Proc, Start(p) PROVE Starts(p)
<1> TypeInv /\ rec \in [Proc -> Recovery] /\ phase \in [Proc -> {"down", "starting", "running"}]
  BY DEF MoveInv, TypeInv, TypeOK
<1>1. /\ FilesSame /\ ExemptionsSame /\ FaultsSame /\ ThreadSame
      /\ UNCHANGED <<ops, journal, queue, work>>
      /\ phase[p] = "down" /\ phase' = [phase EXCEPT ![p] = "starting"]
  BY DEF Start, dbVars, threadVars, ExemptionsSame, FaultsSame, FilesSame, ThreadSame
<1>2. rec[p].op = NONE /\ rec[p].verdict = "none"
  BY <1>1 DEF TypeInv, Filled, Quiet, NoRec
<1> DEFINE todo == {o \in Op : ops[o].status = "started"}
<1>3. rec' = [rec EXCEPT ![p].todo = todo]
  BY DEF Start
<1> HIDE DEF todo
<1>4. /\ rec'[p].op = NONE /\ rec'[p].verdict = "none" /\ rec'[p].todo = todo
      /\ \A q \in Proc : q # p => rec'[q] = rec[q]
  BY <1>2, <1>3 DEF Recovery
<1>5. rec'[p].todo = {o \in Op : ops[o].status = "started"}
  BY <1>4 DEF todo
<1> QED
  BY <1>1, <1>4, <1>5 DEF Starts

LEMMA ReadyDoes == ASSUME MoveInv, NEW p \in Proc, Ready(p) PROVE Readies(p)
<1> TypeInv /\ TypeOK
  BY DEF MoveInv, TypeInv
<1>1. /\ FilesSame /\ exemptDb' = exemptDb /\ UNCHANGED <<ops, queue, work, rec, checked>>
      /\ phase[p] = "starting" /\ phase' = [phase EXCEPT ![p] = "running"]
      /\ rec[p] = NoRec
      /\ pending' = [pending EXCEPT ![p] = [x \in Watched |-> disk[x]]]
  BY DEF Ready, FilesSame
<1>2. rec[p].op = NONE /\ rec[p].verdict = "none" /\ rec[p].todo = {}
  BY <1>1 DEF NoRec
<1>3. \A o \in Op : \/ journal'[o] = journal[o]
                    \/ ops[o].status # "started" /\ journal'[o] = NONE
  BY DEF Ready
<1>4. /\ \/ FaultsSame /\ exempt'[p] = exemptDb
         \/ used.faults \in Nat /\ used'.faults = used.faults + 1
      /\ \A q \in Proc : q # p => exempt'[q] = exempt[q]
  <2>1. CASE exempt' = [exempt EXCEPT ![p] = exemptDb] /\ used' = used
    BY <2>1 DEF TypeOK, FaultsSame
  <2>2. CASE exempt' = [exempt EXCEPT ![p] = NoExemptions] /\ Fault
    BY <2>2, FaultCounted DEF TypeOK
  <2> QED
    BY <2>1, <2>2 DEF Ready, LoadedExemptions
<1>5. /\ phase'[p] = "running" /\ \A q \in Proc : q # p => phase'[q] = phase[q]
  BY <1>1 DEF TypeOK
<1>6. /\ \A x \in Watched : pending'[p][x] = disk[x]
      /\ \A q \in Proc : q # p => pending'[q] = pending[q]
  BY <1>1 DEF TypeOK
<1> QED
  BY <1>1, <1>2, <1>3, <1>4, <1>5, <1>6 DEF Readies

LEMMA CrashDoes == ASSUME MoveInv, NEW p \in Proc, Crash(p) PROVE Crashes(p)
<1> TypeInv /\ TypeOK
  BY DEF MoveInv, TypeInv
<1>1. FilesSame /\ exemptDb' = exemptDb /\ journal' = journal /\ FaultsSame
  <2> used \in [edits : Nat, crashes : Nat, faults : Nat]
    BY DEF TypeOK
  <2> QED
    BY DEF Crash, FilesSame, FaultsSame
<1>2. \A o \in Op : /\ ops'[o].status = ops[o].status /\ ops'[o].kind = ops[o].kind
                    /\ ops'[o].src = ops[o].src /\ ops'[o].dst = ops[o].dst
                    /\ ops'[o].snap = ops[o].snap /\ ops'[o].after = ops[o].after
                    /\ ops'[o].owner = IF ops[o].owner = p THEN NONE ELSE ops[o].owner
  <2> SUFFICES ASSUME NEW o \in Op
      PROVE /\ ops'[o].status = ops[o].status /\ ops'[o].kind = ops[o].kind
            /\ ops'[o].src = ops[o].src /\ ops'[o].dst = ops[o].dst
            /\ ops'[o].snap = ops[o].snap /\ ops'[o].after = ops[o].after
            /\ ops'[o].owner = IF ops[o].owner = p THEN NONE ELSE ops[o].owner
    OBVIOUS
  <2>1. ops'[o] = IF ops[o].owner = p THEN [ops[o] EXCEPT !.owner = NONE] ELSE ops[o]
    BY DEF Crash
  <2>2. ops[o] \in OpRow
    BY DEF TypeOK
  <2> QED
    BY <2>1, <2>2 DEF OpRow
<1>3. /\ work'[p] = Idle /\ rec'[p] = NoRec /\ queue'[p] = << >> /\ phase'[p] = "down"
      /\ checked'[p] = NONE
      /\ \A q \in Proc : q # p => /\ phase'[q] = phase[q] /\ checked'[q] = checked[q]
                                  /\ queue'[q] = queue[q] /\ work'[q] = work[q] /\ rec'[q] = rec[q]
  BY DEF Crash, TypeOK
<1>4. /\ pending'[p] = [x \in Watched |-> NONE]
      /\ \A q \in Proc : q # p => exempt'[q] = exempt[q] /\ pending'[q] = pending[q]
  BY DEF Crash, TypeOK
<1>5. work'[p].pc = "idle" /\ rec'[p].op = NONE /\ rec'[p].verdict = "none"
  BY <1>3 DEF Idle, NoRec
<1>6. 1..Len(queue'[p]) = {}
  BY <1>3
<1>7. Requests(p)' = {} /\ \A q \in Proc : q # p => Requests(q)' = Requests(q)
  BY <1>3, <1>5, <1>6 DEF Requests
<1> QED
  BY <1>1, <1>2, <1>3, <1>4, <1>5, <1>6, <1>7 DEF Crashes

(* The steps of the organizer thread.                                      *)

LEMMA NoticeDoes ==
  ASSUME MoveInv, NEW p \in Proc, NEW x \in Watched, Notice(p, x)
  PROVE  Notices(p)
<1> TypeOK
  BY DEF MoveInv, TypeInv
<1>1. /\ ThreadFrame(p) /\ ExemptionsSame /\ FaultsSame /\ UNCHANGED <<ops, queue, checked>>
      /\ phase[p] = "running" /\ checked[p] = NONE
  BY DEF Notice, ThreadFree, Running, dbVars, ThreadFrame, FilesSame, ExemptionsSame, FaultsSame, TypeOK
<1>2. \A y \in Watched : pending'[p][y] \in {pending[p][y], disk[y], NONE}
  BY DEF Notice, TypeOK
<1> QED
  BY <1>1, <1>2 DEF Notices

LEMMA TakeStableDoes ==
  ASSUME MoveInv, NEW p \in Proc, NEW x \in Watched, TakeStable(p, x)
  PROVE  Notices(p) \/ Passes(p)
<1> TypeOK
  BY DEF MoveInv, TypeInv
<1>0. x \in Path
  BY MoveAssumption
<1>1. /\ UNCHANGED <<disk, serial, ops, journal, phase, queue, work, rec, placed>>
      /\ phase[p] = "running" /\ checked[p] = NONE /\ pending[p][x] # NONE /\ Settled(x)
  BY DEF TakeStable, ThreadFree, Running
<1>2. CASE /\ UNCHANGED <<exempt, exemptDb, checked, used>>
           /\ \/ pending' = [pending EXCEPT ![p][x] = disk[x]]
              \/ pending' = [pending EXCEPT ![p][x] = NONE]
  <2>1. /\ \A y \in Watched : pending'[p][y] \in {pending[p][y], disk[y], NONE}
        /\ \A q \in Proc : q # p => pending'[q] = pending[q]
    BY <1>2 DEF TypeOK
  <2> QED
    BY <1>1, <1>2, <2>1 DEF Notices, ThreadFrame, FilesSame, ExemptionsSame, FaultsSame
<1>3. CASE /\ disk[x] = pending[p][x] /\ exempt[p][x] # disk[x]
           /\ exempt' = [exempt EXCEPT ![p][x] = NONE]
           /\ \/ /\ exemptDb' = [exemptDb EXCEPT ![x] = IF exempt[p][x] = NONE THEN @ ELSE NONE]
                 /\ UNCHANGED used
              \/ Fault /\ UNCHANGED exemptDb
           /\ checked' = [checked EXCEPT ![p] = x]
           /\ UNCHANGED pending
  <2>1. /\ checked'[p] = x /\ \A q \in Proc : q # p => checked'[q] = checked[q]
    BY <1>3 DEF TypeOK
  <2>2. /\ exempt'[p][x] = NONE
        /\ \A y \in Path : y # x => exempt'[p][y] = exempt[p][y]
        /\ \A q \in Proc : q # p => exempt'[q] = exempt[q]
    BY <1>0, <1>3 DEF TypeOK
  <2>3. \/ /\ FaultsSame
           /\ exemptDb'[x] = IF exempt[p][x] = NONE THEN exemptDb[x] ELSE NONE
           /\ \A y \in Path : y # x => exemptDb'[y] = exemptDb[y]
        \/ used.faults \in Nat /\ used'.faults = used.faults + 1 /\ exemptDb' = exemptDb
    <3>1. CASE /\ exemptDb' = [exemptDb EXCEPT ![x] = IF exempt[p][x] = NONE THEN @ ELSE NONE]
               /\ UNCHANGED used
      BY <1>0, <3>1 DEF TypeOK, FaultsSame
    <3>2. CASE Fault /\ UNCHANGED exemptDb
      BY <3>2, FaultCounted
    <3> QED
      BY <1>3, <3>1, <3>2
  <2>4. ThreadFrame(p)
    BY <1>1, <1>3, <2>1, <2>2 DEF ThreadFrame, FilesSame
  <2> QED
    BY <1>1, <1>3, <2>1, <2>2, <2>3, <2>4 DEF Passes
<1> QED
  BY <1>2, <1>3 DEF TakeStable

\* What a new row and its submission do to the requests.
LEMMA SubmitDoes ==
  ASSUME MoveInv, NEW p \in Proc, NEW o \in Op, NewRow(p, o), work' = work,
         \/ ops'[o].status = "started" /\ Submit(p, o)
         \/ ops'[o].status = "skipped" /\ queue' = queue
  PROVE  /\ IF ops'[o].status = "started" THEN Requests(p)' = Requests(p) \cup {o}
            ELSE Requests(p)' = Requests(p) /\ queue' = queue
         /\ \A q \in Proc : q # p => Requests(q)' = Requests(q) /\ queue'[q] = queue[q]
         /\ o \notin Requests(p)
<1> TypeInv /\ TypeOK
  BY DEF MoveInv, TypeInv
<1>1. o \notin Requests(p)
  BY NewRowTouch
<1>2. CASE ops'[o].status = "skipped" /\ queue' = queue
  <2>1. \A q \in Proc : Requests(q)' = Requests(q)
    BY <1>2 DEF Requests
  <2> QED
    BY <1>1, <1>2, <2>1
<1>3. CASE ops'[o].status = "started" /\ Submit(p, o)
  <2>1. queue' = [queue EXCEPT ![p] = Append(@, o)] /\ queue \in [Proc -> Seq(Op)]
    BY <1>3 DEF Submit, TypeOK
  <2>2. \A q \in Proc : q # p => queue'[q] = queue[q]
    BY <2>1
  <2>3. Requests(p)' = Requests(p) \cup {o} /\ \A q \in Proc : q # p => Requests(q)' = Requests(q)
    BY <1>3, SubmitRequests
  <2> QED
    BY <1>1, <1>3, <2>2, <2>3
<1> QED
  BY <1>2, <1>3

LEMMA DispatchDoes ==
  ASSUME MoveInv, NEW p \in Proc, Dispatch(p)
  PROVE  Drops(p) \/ \E o \in Op : Inserts(p, o)
<1> TypeInv /\ TypeOK /\ Filled
  BY DEF MoveInv, TypeInv
<1> DEFINE x == checked[p]
           snap == pending[p][x]
<1>1. x \in Watched /\ snap \in Snap /\ x \in Path /\ Home[x] \in Path /\ x # NONE
  BY MoveAssumption DEF Dispatch, Filled, CheckedFilled, TypeOK
<1>2. /\ UNCHANGED <<disk, serial, placed, journal, phase, work, rec, exempt, exemptDb>>
      /\ checked' = [checked EXCEPT ![p] = NONE] /\ phase[p] = "running"
      /\ pending' = pending \/ pending' = [pending EXCEPT ![p][x] = NONE]
  BY DEF Dispatch, KeepPending, DropChecked, Running, dbVars
<1>3. /\ checked'[p] = NONE /\ \A q \in Proc : q # p => checked'[q] = checked[q] /\ pending'[q] = pending[q]
      /\ \A y \in Watched : pending'[p][y] \in {pending[p][y], NONE}
  BY <1>2 DEF TypeOK
<1>4. \/ UNCHANGED <<ops, queue>>
      \/ \E o \in Op : InsertRow(o, p, "move", NONE, "skipped", x, Home[x], snap)
                       /\ UNCHANGED <<queue, used>>
      \/ \E o \in Op : InsertRow(o, p, "move", NONE, "started", x, Home[x], snap)
                       /\ Submit(p, o) /\ UNCHANGED used
  BY DEF Dispatch, KeepPending, dbVars
<1>5. CASE UNCHANGED <<ops, queue>>
  BY <1>2, <1>3, <1>5 DEF Drops, ThreadFrame, FilesSame, ExemptionsSame
<1>6. ASSUME NEW o \in Op, NEW st \in {"started", "skipped"},
             InsertRow(o, p, "move", NONE, st, x, Home[x], snap), UNCHANGED used,
             \/ st = "started" /\ Submit(p, o)
             \/ st = "skipped" /\ queue' = queue
      PROVE  Inserts(p, o)
  <2>1. /\ ops[o].status = "none" /\ \A a \in Op \ {o} : ops'[a] = ops[a]
        /\ ops'[o].status = st /\ ops'[o].kind = "move" /\ ops'[o].owner = p
        /\ ops'[o].src = x /\ ops'[o].dst = Home[x] /\ ops'[o].snap = snap
    BY <1>1, <1>6, InsertTyped
  <2>2. NewRow(p, o)
    BY <2>1 DEF NewRow
  <2>3. /\ IF ops'[o].status = "started" THEN Requests(p)' = Requests(p) \cup {o}
           ELSE Requests(p)' = Requests(p) /\ queue' = queue
        /\ \A q \in Proc : q # p => Requests(q)' = Requests(q) /\ queue'[q] = queue[q]
        /\ o \notin Requests(p)
    BY <1>2, <1>6, <2>1, <2>2, SubmitDoes
  <2>4. ThreadFrame(p) /\ ExemptionsSame /\ FaultsSame
    BY <1>2, <1>3, <1>6, <2>3 DEF ThreadFrame, FilesSame, ExemptionsSame, FaultsSame
  <2> QED
    BY <1>1, <1>2, <1>3, <2>1, <2>2, <2>3, <2>4 DEF Inserts
<1> QED
  BY <1>4, <1>5, <1>6

LEMMA RetryDoes ==
  ASSUME MoveInv, NEW p \in Proc, NEW q \in Op, RetryOperation(p, q)
  PROVE  \E o \in Op : Inserts(p, o)
<1> TypeInv /\ TypeOK /\ Filled
  BY DEF MoveInv, TypeInv
<1>1. /\ ops[q].src \in Watched /\ ops[q].src \in Path /\ Home[ops[q].src] \in Path
      /\ ops[q].snap \in Snap /\ ops[q].status # "none"
  BY MoveAssumption DEF RetryOperation, Filled, RowsFilled, RowFilled
<1>2. PICK o \in Op :
        /\ InsertRow(o, p, "retry", q, "started", ops[q].src, Home[ops[q].src], ops[q].snap)
        /\ Submit(p, o)
  BY DEF RetryOperation
<1>3. /\ UNCHANGED <<disk, serial, placed, journal, exemptDb, phase, exempt, pending, checked, work, rec, used>>
      /\ phase[p] = "running"
  BY DEF RetryOperation, ThreadFree, Running
<1>4. /\ ops[o].status = "none" /\ \A a \in Op \ {o} : ops'[a] = ops[a]
      /\ ops'[o].status = "started" /\ ops'[o].kind = "retry" /\ ops'[o].owner = p
      /\ ops'[o].src = ops[q].src /\ ops'[o].dst = Home[ops[q].src] /\ ops'[o].snap = ops[q].snap
  BY <1>1, <1>2, InsertTyped
<1>5. NewRow(p, o)
  BY <1>4 DEF NewRow
<1>6. /\ Requests(p)' = Requests(p) \cup {o}
      /\ \A r \in Proc : r # p => Requests(r)' = Requests(r) /\ queue'[r] = queue[r]
      /\ o \notin Requests(p)
  BY <1>2, <1>3, <1>4, <1>5, SubmitDoes
<1>7. ThreadFrame(p) /\ ExemptionsSame /\ FaultsSame /\ ThreadSame
  BY <1>3, <1>6 DEF ThreadFrame, FilesSame, ExemptionsSame, FaultsSame, ThreadSame
<1> QED
  BY <1>1, <1>3, <1>4, <1>5, <1>6, <1>7 DEF Inserts

LEMMA UndoDoes ==
  ASSUME MoveInv, NEW p \in Proc, NEW q \in Op, UndoOperation(p, q)
  PROVE  \E o \in Op : Inserts(p, o)
<1> TypeInv /\ TypeOK /\ Filled
  BY DEF MoveInv, TypeInv
<1>1. /\ ops[q].src \in Watched /\ ops[q].src \in Path /\ ops[q].dst \in Path
      /\ ops[q].after \in Snap /\ ops[q].status = "completed" /\ disk[ops[q].dst] = ops[q].after
      /\ disk[ops[q].src] = NONE
  BY DEF UndoOperation, Filled, RowsFilled, RowFilled
<1>2. PICK o \in Op :
        /\ InsertRow(o, p, "undo", q, "started", ops[q].dst, ops[q].src, ops[q].after)
        /\ Submit(p, o)
  BY DEF UndoOperation
<1>3. /\ UNCHANGED <<disk, serial, placed, journal, exemptDb, phase, exempt, pending, checked, work, rec, used>>
      /\ phase[p] = "running" /\ checked[p] = NONE
  BY DEF UndoOperation, ThreadFree, Running
<1>4. /\ ops[o].status = "none" /\ \A a \in Op \ {o} : ops'[a] = ops[a]
      /\ ops'[o].status = "started" /\ ops'[o].kind = "undo" /\ ops'[o].owner = p
      /\ ops'[o].src = ops[q].dst /\ ops'[o].dst = ops[q].src /\ ops'[o].snap = ops[q].after
  BY <1>1, <1>2, InsertTyped
<1>5. NewRow(p, o)
  BY <1>4 DEF NewRow
<1>6. /\ Requests(p)' = Requests(p) \cup {o}
      /\ \A r \in Proc : r # p => Requests(r)' = Requests(r) /\ queue'[r] = queue[r]
      /\ o \notin Requests(p)
  BY <1>2, <1>3, <1>4, <1>5, SubmitDoes
<1>7. ThreadFrame(p) /\ ExemptionsSame /\ FaultsSame /\ ThreadSame
  BY <1>3, <1>6 DEF ThreadFrame, FilesSame, ExemptionsSame, FaultsSame, ThreadSame
<1> QED
  BY <1>1, <1>3, <1>4, <1>5, <1>6, <1>7 DEF Inserts

LEMMA StepEffect ==
  ASSUME MoveInv, FilesInv, [Next]_vars
  PROVE  FaultsGrow /\ (UNCHANGED vars \/ UserEffect \/ \E p \in Proc : Effect(p))
<1> TypeInv /\ TypeOK
  BY DEF MoveInv, TypeInv
<1>1. FaultsGrow
  BY FaultsOnlyGrow
<1>2. CASE Users
  BY <1>1, <1>2, UserDoes
<1>3. ASSUME NEW p \in Proc, Organizer(p) PROVE Effect(p)
  BY <1>3, NoticeDoes, TakeStableDoes, DispatchDoes, RetryDoes, UndoDoes DEF Organizer, Effect
<1>4. ASSUME NEW p \in Proc, Worker(p) PROVE Effect(p)
  BY <1>4, TakeDoes, BeforeMoveGoes, RenameDoes, CopyDoes, PublishDoes, DeleteDoes, ExemptDoes,
     FinishDoes, ReleaseDoes DEF Worker, Effect
<1>5. ASSUME NEW p \in Proc, Reconciler(p) \/ Panic(p) PROVE Effect(p)
  BY <1>5, PickDoes, LookDoes, RemoveDoes, CloseDoes, PanicDoes DEF Reconciler, Effect
<1>6. ASSUME NEW p \in Proc, Lifecycle(p) \/ Crash(p) PROVE Effect(p)
  BY <1>6, StartDoes, ReadyDoes, CrashDoes DEF Lifecycle, Effect
<1> QED
  BY <1>1, <1>2, <1>3, <1>4, <1>5, <1>6 DEF Next

----------------------------------------------------------------------------
(* MovedIsNotFailed, for every instance of OrganizerMove.                  *)

\* What a step needs to know of the records it reads.
LEMMA RecordFacts ==
  ASSUME MoveInv
  PROVE  /\ serial \in Nat
         /\ \A x \in Watched : x \in Path
         /\ \A x \in Spare : x \in Path
         /\ \A s \in Snap : s # NONE /\ s.id \in Nat /\ s.doc \in Nat
         /\ \A p \in Proc : work[p].pc # "idle" =>
              /\ phase[p] = "running"
              /\ work[p].op \in Op /\ work[p].op # NONE /\ ops[work[p].op].status # "none"
              /\ ops[work[p].op].owner = p
              /\ work[p].target \in Path /\ work[p].snap \in Snap
              /\ ops[work[p].op].src \in Path /\ ops[work[p].op].dst \in Path
              /\ ops[work[p].op].snap \in Snap
         /\ \A p \in Proc : /\ rec[p].op # NONE => rec[p].op \in Op /\ ops[rec[p].op].status # "none"
                            /\ rec[p].verdict # "none" => rec[p].op # NONE
                            /\ rec[p].verdict \in {"rollback", "complete"} =>
                                 rec[p].dst \in Path /\ rec[p].snap \in Snap
         /\ \A o \in Op : /\ placed[o] # NONE => /\ placed[o].dst \in Path /\ placed[o].snap \in Snap
                                                 /\ ops[o].status # "none"
                          /\ journal[o] # NONE => journal[o].dst \in Path /\ journal[o].snap \in Snap
                          /\ ops[o].status # "none" =>
                               /\ ops[o].src \in Path /\ ops[o].dst \in Path /\ ops[o].snap \in Snap
                               /\ ops[o].kind # "undo" => ops[o].src \in Watched
                               /\ ops[o].status = "completed" => ops[o].after \in Snap
         /\ \A x \in Path : disk[x] # NONE => disk[x] \in Snap
         /\ \A p \in Proc, x \in Watched : pending[p][x] # NONE => pending[p][x] \in Snap
<1> TypeInv /\ TypeOK
  BY DEF MoveInv, TypeInv
<1>1. /\ serial \in Nat /\ \A x \in Watched : x \in Path
      /\ \A x \in Spare : x \in Path
      /\ \A s \in Snap : s # NONE /\ s.id \in Nat /\ s.doc \in Nat
  BY MoveAssumption DEF TypeOK, Snap
<1>2. \A p \in Proc : work[p].pc # "idle" =>
              /\ phase[p] = "running"
              /\ work[p].op \in Op /\ work[p].op # NONE /\ ops[work[p].op].status # "none"
              /\ ops[work[p].op].owner = p
              /\ work[p].target \in Path /\ work[p].snap \in Snap
              /\ ops[work[p].op].src \in Path /\ ops[work[p].op].dst \in Path
              /\ ops[work[p].op].snap \in Snap
  BY MoveAssumption, WorkerRunning DEF RowFilled, MoveInv, Owned, RequestsOwned
<1>3. \A p \in Proc : /\ rec[p].op # NONE => rec[p].op \in Op /\ ops[rec[p].op].status # "none"
                      /\ rec[p].verdict # "none" => rec[p].op # NONE
                      /\ rec[p].verdict \in {"rollback", "complete"} =>
                           rec[p].dst \in Path /\ rec[p].snap \in Snap
  BY DEF TypeInv, Filled, RecFilled, TypeOK, Recovery
<1>4. \A o \in Op : /\ placed[o] # NONE => /\ placed[o].dst \in Path /\ placed[o].snap \in Snap
                                           /\ ops[o].status # "none"
                    /\ journal[o] # NONE => journal[o].dst \in Path /\ journal[o].snap \in Snap
  BY DEF TypeOK, Placement, Entry, MoveInv, JournalInv, NothingPlacedYet
<1>5. \A o \in Op : ops[o].status # "none" =>
                      /\ ops[o].src \in Path /\ ops[o].dst \in Path /\ ops[o].snap \in Snap
                      /\ ops[o].kind # "undo" => ops[o].src \in Watched
                      /\ ops[o].status = "completed" => ops[o].after \in Snap
  BY DEF TypeInv, Filled, RowsFilled, RowFilled
<1>6. /\ \A x \in Path : disk[x] # NONE => disk[x] \in Snap
      /\ \A p \in Proc, x \in Watched : pending[p][x] # NONE => pending[p][x] \in Snap
  BY DEF TypeOK
<1> QED
  BY <1>1, <1>2, <1>3, <1>4, <1>5, <1>6

LEMMA SnapsKnownStep ==
  ASSUME MoveInv, FilesInv, SnapsKnown, [Next]_vars
  PROVE  SnapsKnown'
<1>0. serial \in Nat /\ 0..serial \subseteq 0..(serial + 1)
  BY RecordFacts
<1>1. CASE UNCHANGED vars
  <2> UNCHANGED <<disk, serial, ops, journal, pending, work, rec, placed>>
    BY <1>1 DEF vars, dbVars, threadVars
  <2> QED
    BY DEF SnapsKnown
<1>2. CASE UserEffect
  BY <1>0, <1>2 DEF UserEffect, ThreadSame, SnapsKnown
<1>3. ASSUME NEW p \in Proc, GoesOn(p) \/ Exempts(p) \/ KeepsSource(p) PROVE SnapsKnown'
  <2>1. /\ UNCHANGED <<serial, ops, rec, placed, pending>>
        /\ \A x \in Path : disk'[x] \in {disk[x], NONE}
        /\ \A q \in Proc : work'[q].pc # "idle" => work[q].pc # "idle" /\ work'[q].snap = work[q].snap
    BY <1>3 DEF GoesOn, Exempts, KeepsSource, MoveFrame, FilesSame, ThreadSame
  <2>2. \A o \in Op : journal'[o] # NONE => \/ journal'[o] = journal[o]
                                            \/ journal'[o].snap = ops[o].snap /\ ops[o].status # "none"
    <3>1. CASE GoesOn(p)
      <4>1. ops[work[p].op].status # "none"
        BY <3>1, RecordFacts DEF GoesOn, MoveFrame
      <4>2. \A a \in Op : \/ journal'[a] = journal[a]
                          \/ /\ a = work[p].op
                             /\ journal'[a].dst = work'[p].target /\ journal'[a].snap = ops[a].snap
        BY <3>1 DEF GoesOn
      <4> QED
        BY <4>1, <4>2
    <3>2. CASE Exempts(p) \/ KeepsSource(p)
      BY <3>2 DEF Exempts, KeepsSource
    <3> QED
      BY <1>3, <3>1, <3>2
  <2> QED
    BY <2>1, <2>2 DEF SnapsKnown
<1>4. ASSUME NEW p \in Proc, Renames(p) \/ Publishes(p) \/ Deletes(p) PROVE SnapsKnown'
  <2> DEFINE o == work[p].op
  <2>1. /\ work[p].pc \in Holding /\ work[p].pc # "idle" /\ UNCHANGED <<serial, ops, rec, journal, pending>>
        /\ \A q \in Proc : q # p => work'[q] = work[q]
    BY <1>4 DEF Renames, Publishes, Deletes, MoveFrame, ThreadSame, Holding
  <2>2. /\ o \in Op /\ ops[o].status # "none" /\ disk[ops[o].src] = ops[o].snap /\ ops[o].src \in Path
        /\ disk[ops[o].src] # NONE /\ work[p].target \in Path
        /\ work[p].pc \in {"publish", "delete"} => work[p].snap.doc = ops[o].snap.doc
    BY <2>1, HolderFacts, RecordFacts
  <2>3. PICK s : /\ s = ops[o].snap \/ (s = work[p].snap /\ work[p].pc \in {"publish", "delete"})
                 /\ \E g : Places(p, s, g)
                 /\ work'[p].snap = s
                 /\ \A x \in Path : disk'[x] \in {disk[x], NONE, s}
    BY <1>4 DEF Renames, Publishes, Deletes, Arrives
  <2>4. s.id \in 0..serial /\ s.doc \in 0..serial
    BY <2>1, <2>2, <2>3 DEF SnapsKnown
  <2>5. \A a \in Op : placed'[a] = placed[a] \/ placed'[a].snap = s
    BY <2>3 DEF Places
  <2> QED
    BY <2>1, <2>3, <2>4, <2>5 DEF SnapsKnown
<1>5. ASSUME NEW p \in Proc, Copies(p) PROVE SnapsKnown'
  <2>1. /\ UNCHANGED <<disk, ops, rec, placed, pending>> /\ serial' = serial + 1
        /\ \A q \in Proc : q # p => work'[q] = work[q]
        /\ work'[p].snap.id \in 0..serial'
        /\ \A a \in Op : journal'[a] = journal[a] \/ journal'[a].snap = work'[p].snap
    BY <1>0, <1>5 DEF Copies, MoveFrame, ThreadSame
  <2> QED
    BY <1>0, <2>1 DEF SnapsKnown
<1>6. ASSUME NEW p \in Proc, Takes(p) \/ Releases(p) \/ Panics(p) PROVE SnapsKnown'
  <2>1. /\ UNCHANGED <<disk, serial, ops, placed, pending, journal>>
        /\ \A q \in Proc : q # p => work'[q] = work[q]
        /\ \A q \in Proc : rec'[q] = rec[q] \/ rec'[q].verdict = "none"
        /\ \/ work'[p].pc = "idle"
           \/ work'[p].snap = work[p].snap /\ work[p].pc # "idle"
           \/ work'[p].op \in Requests(p) /\ work'[p].snap = ops[work'[p].op].snap
    BY <1>6 DEF Takes, Releases, Panics, FilesSame, ThreadSame
  <2>2. \A r \in Requests(p) : r \in Op /\ ops[r].status # "none"
    BY RequestFacts
  <2> QED
    BY <2>1, <2>2 DEF SnapsKnown
<1>7. ASSUME NEW p \in Proc, Finishes(p) \/ Closes(p) PROVE SnapsKnown'
  <2>1. /\ UNCHANGED <<disk, serial, placed, pending>>
        /\ \A q \in Proc : work'[q].pc # "idle" => work[q].pc # "idle" /\ work'[q].snap = work[q].snap
        /\ \A q \in Proc : \/ rec'[q] = rec[q]
                           \/ rec'[q].verdict \notin {"rollback", "complete"}
    BY <1>7 DEF Finishes, Closes, RecFrame, RecOver, RecFails, FilesSame, ThreadSame
  <2>2. \/ UNCHANGED <<ops, journal>>
        \/ \E o \in Op : \E st, dst, snap :
             /\ RowCloses(o, st, dst, snap)
             /\ st = "completed" => snap.id \in 0..serial
    <3>1. CASE Finishes(p)
      <4>1. \/ UNCHANGED <<ops, journal>>
            \/ RowCloses(work[p].op, work[p].result, work[p].target, work[p].snap)
        BY <3>1 DEF Finishes
      <4>2. work[p].op \in Op /\ work[p].snap.id \in 0..serial
        BY <3>1, RecordFacts DEF Finishes, SnapsKnown
      <4> QED
        BY <4>1, <4>2
    <3>2. CASE Closes(p)
      <4>1. \/ UNCHANGED <<ops, journal>>
            \/ rec[p].verdict = "complete" /\ RowCloses(rec[p].op, "completed", rec[p].dst, rec[p].snap)
            \/ RowCloses(rec[p].op, "failed", NONE, NONE)
        BY <3>2 DEF Closes
      <4>2. rec[p].verdict = "complete" => rec[p].snap.id \in 0..serial
        BY DEF SnapsKnown
      <4>3. ASSUME NEW st, NEW dst, NEW snap, RowCloses(rec[p].op, st, dst, snap) PROVE rec[p].op \in Op
        BY <4>3 DEF RowCloses
      <4> QED
        BY <4>1, <4>2, <4>3
    <3> QED
      BY <1>7, <3>1, <3>2
  <2>3. \A o \in Op : /\ ops'[o].status # "none" => ops[o].status # "none" /\ ops'[o].snap = ops[o].snap
                      /\ ops'[o].status = "completed" => \/ ops[o].status = "completed" /\ ops'[o].after = ops[o].after
                                                         \/ ops'[o].after.id \in 0..serial
                      /\ journal'[o] \in {journal[o], NONE}
    BY <2>2 DEF RowCloses
  <2> QED
    BY <2>1, <2>3 DEF SnapsKnown
<1>8. ASSUME NEW p \in Proc, Picks(p) \/ RemovesCopy(p) \/ Starts(p) PROVE SnapsKnown'
  <2>1. /\ UNCHANGED <<serial, ops, journal, placed, pending>>
        /\ \A x \in Path : disk'[x] \in {disk[x], NONE}
        /\ \A q \in Proc : work'[q].pc # "idle" => work'[q] = work[q]
        /\ \A q \in Proc : \/ rec'[q] = rec[q]
                           \/ rec'[q].verdict \notin {"rollback", "complete"}
    BY <1>8 DEF Picks, RemovesCopy, Starts, RecFrame, RecOver, RecFails, FilesSame, ThreadSame
  <2> QED
    BY <2>1 DEF SnapsKnown
<1>9. ASSUME NEW p \in Proc, Looks(p) PROVE SnapsKnown'
  <2>1. /\ UNCHANGED <<disk, serial, ops, journal, placed, pending, work>>
        /\ \A q \in Proc : q # p => rec'[q] = rec[q]
        /\ rec[p].op \in Op
        /\ rec'[p].verdict \in {"rollback", "complete"} =>
             journal[rec[p].op] # NONE /\ rec'[p].snap = journal[rec[p].op].snap
    BY <1>9, RecordFacts DEF Looks, RecFrame, FilesSame, ThreadSame, Verdict
  <2> QED
    BY Zenon, <2>1 DEF SnapsKnown
<1>10. ASSUME NEW p \in Proc, Readies(p) \/ Crashes(p) PROVE SnapsKnown'
  <2>1. /\ UNCHANGED <<disk, serial, placed>>
        /\ \A q \in Proc : work'[q].pc # "idle" => work'[q] = work[q]
        /\ \A q \in Proc : rec'[q] = rec[q] \/ rec'[q].verdict = "none"
        /\ \A q \in Proc, x \in Watched : pending'[q][x] \in {pending[q][x], disk[x], NONE}
        /\ \A o \in Op : /\ journal'[o] \in {journal[o], NONE}
                         /\ ops'[o].status = ops[o].status /\ ops'[o].snap = ops[o].snap
                         /\ ops'[o].after = ops[o].after
    BY <1>10 DEF Readies, Crashes, FilesSame
  <2> QED
    BY <2>1, RecordFacts DEF SnapsKnown
<1>11. ASSUME NEW p \in Proc, Notices(p) \/ Passes(p) \/ Drops(p) PROVE SnapsKnown'
  <2>1. /\ UNCHANGED <<disk, serial, placed, journal, ops, work, rec>>
        /\ \A q \in Proc, x \in Watched : pending'[q][x] \in {pending[q][x], disk[x], NONE}
    BY <1>11 DEF Notices, Passes, Drops, ThreadFrame, FilesSame
  <2> QED
    BY <2>1, RecordFacts DEF SnapsKnown
<1>12. ASSUME NEW p \in Proc, NEW o \in Op, Inserts(p, o) PROVE SnapsKnown'
  <2>1. /\ UNCHANGED <<disk, serial, placed, journal, work, rec>>
        /\ \A q \in Proc, x \in Watched : pending'[q][x] \in {pending[q][x], NONE}
        /\ ops'[o].status \in {"started", "skipped"} /\ \A a \in Op : a # o => ops'[a] = ops[a]
    BY <1>12 DEF Inserts, ThreadFrame, FilesSame, NewRow, ThreadSame
  <2>2. ops'[o].snap.id \in 0..serial
    <3>1. \/ \E x \in Watched : ops'[o].snap = pending[p][x] /\ pending[p][x] # NONE
          \/ \E q \in Op : ops[q].status # "none" /\ ops'[o].snap = ops[q].snap
          \/ \E q \in Op : ops[q].status = "completed" /\ ops'[o].snap = ops[q].after
      BY <1>12, RecordFacts DEF Inserts
    <3> QED
      BY <3>1 DEF SnapsKnown
  <2> QED
    BY <2>1, <2>2 DEF SnapsKnown
<1> QED
  BY <1>1, <1>2, <1>3, <1>4, <1>5, <1>6, <1>7, <1>8, <1>9, <1>10, <1>11, <1>12, StepEffect DEF Effect

LEMMA ClosesColumns ==
  ASSUME NEW o, NEW st, NEW dst, NEW snap, RowCloses(o, st, dst, snap)
  PROVE  ColumnsSame
<1>1. "none" \notin Terminal /\ "started" \notin Terminal
  BY DEF Terminal
<1> QED
  BY <1>1 DEF RowCloses, ColumnsSame

LEMMA ColumnsStep ==
  ASSUME MoveInv, FilesInv, [Next]_vars
  PROVE  ColumnsSame \/ \E p \in Proc, o \in Op : Inserts(p, o)
<1>1. ASSUME ops' = ops PROVE ColumnsSame
  BY <1>1 DEF ColumnsSame
<1>2. CASE UNCHANGED vars \/ UserEffect
  BY <1>1, <1>2 DEF vars, dbVars, UserEffect
<1>3. ASSUME NEW p \in Proc, Effect(p) PROVE ColumnsSame \/ \E o \in Op : Inserts(p, o)
  <2>1. CASE Finishes(p)
    BY <1>1, <2>1, ClosesColumns DEF Finishes
  <2>2. CASE Closes(p)
    BY <1>1, <2>2, ClosesColumns DEF Closes
  <2>3. CASE Crashes(p)
    BY <2>3 DEF Crashes, ColumnsSame
  <2>4. CASE \/ GoesOn(p) \/ Renames(p) \/ Copies(p) \/ Publishes(p) \/ Deletes(p) \/ KeepsSource(p)
             \/ Exempts(p)
    <3> MoveFrame(p)
      BY <2>4 DEF GoesOn, Renames, Copies, Publishes, Deletes, KeepsSource, Exempts
    <3> QED
      BY <1>1 DEF MoveFrame
  <2>5. CASE \/ Takes(p) \/ Releases(p) \/ Panics(p) \/ Picks(p) \/ Looks(p) \/ RemovesCopy(p)
             \/ Starts(p) \/ Readies(p) \/ Notices(p) \/ Passes(p) \/ Drops(p)
    BY <1>1, <2>5 DEF Takes, Releases, Panics, Picks, Looks, RemovesCopy, Starts, Readies, Notices,
       Passes, Drops
  <2> QED
    BY <1>3, <2>1, <2>2, <2>3, <2>4, <2>5 DEF Effect
<1> QED
  BY <1>2, <1>3, StepEffect

\* A placement is made by the worker that holds the source, once; only what is
\* said of the source changes.
LEMMA PlacedStep ==
  ASSUME MoveInv, FilesInv, [Next]_vars
  PROVE  /\ PlacedKept
         /\ \/ placed' = placed
            \/ \E p \in Proc : Renames(p) \/ Publishes(p) \/ Deletes(p)
<1>1. CASE placed' = placed
  BY <1>1 DEF PlacedKept
<1>2. CASE UNCHANGED vars \/ UserEffect
  BY <1>1, <1>2 DEF vars, UserEffect
<1>3. ASSUME NEW p \in Proc, Effect(p), placed' # placed PROVE PlacedKept /\ (Renames(p) \/ Publishes(p) \/ Deletes(p))
  <2>1. Renames(p) \/ Publishes(p) \/ Deletes(p)
    BY Zenon, <1>3 DEF Effect, GoesOn, Copies, KeepsSource, Exempts, Takes, Finishes, Releases, Panics, Picks, Looks,
       RemovesCopy, Closes, Starts, Readies, Crashes, Notices, Passes, Drops, Inserts, RecFrame, FilesSame,
       ThreadFrame
  <2>2. CASE Renames(p) \/ Publishes(p)
    <3>1. placed[work[p].op] = NONE
      BY <2>2 DEF Renames, Publishes, MoveInv, JournalInv, NothingPlacedYet
    <3>2. \A a \in Op : a # work[p].op => placed'[a] = placed[a]
      BY <2>2 DEF Renames, Publishes, Places
    <3> QED
      BY <2>1, <3>1, <3>2 DEF PlacedKept
  <2>3. CASE Deletes(p)
    <3>1. placed[work[p].op].dst = work[p].target /\ placed[work[p].op].snap = work[p].snap
      BY <2>3 DEF Deletes, FilesInv, RecordInv, WorkPlaced
    <3>2. /\ \A a \in Op : a # work[p].op => placed'[a] = placed[a]
          /\ placed'[work[p].op] # NONE
          /\ placed'[work[p].op].dst = work[p].target /\ placed'[work[p].op].snap = work[p].snap
      BY <2>3 DEF Deletes, Places
    <3> QED
      BY <2>1, <3>1, <3>2 DEF PlacedKept
  <2> QED
    BY Zenon, <2>1, <2>2, <2>3
<1> QED
  BY <1>1, <1>2, <1>3, StepEffect

\* What is on the disk afterwards was there, or arrives.
LEMMA DiskStep ==
  ASSUME MoveInv, FilesInv, [Next]_vars
  PROVE  \/ \A x \in Path : disk'[x] \in {disk[x], NONE}
         \/ UserEffect
         \/ \E p \in Proc : Renames(p) \/ Publishes(p)
<1>1. CASE disk' = disk
  BY <1>1
<1>2. CASE UNCHANGED vars
  BY <1>1, <1>2 DEF vars
<1>3. ASSUME NEW p \in Proc, Effect(p), disk' # disk
      PROVE  Renames(p) \/ Publishes(p) \/ \A x \in Path : disk'[x] \in {disk[x], NONE}
  <2>1. Renames(p) \/ Publishes(p) \/ Deletes(p) \/ KeepsSource(p) \/ RemovesCopy(p)
    BY Zenon, <1>3 DEF Effect, GoesOn, Copies, Exempts, Takes, Finishes, Releases, Panics, Picks, Looks,
       Closes, Starts, Readies, Crashes, Notices, Passes, Drops, Inserts, RecFrame, FilesSame,
       ThreadFrame
  <2> QED
    BY Zenon, <2>1 DEF Deletes, KeepsSource, RemovesCopy
<1> QED
  BY <1>1, <1>2, <1>3, StepEffect

\* A file waits as it was, as it is on the disk, or no longer.
LEMMA PendingStep ==
  ASSUME MoveInv, FilesInv, [Next]_vars
  PROVE  \A q \in Proc, x \in Watched : pending'[q][x] \in {pending[q][x], disk[x], NONE}
<1>1. ASSUME pending' = pending
      PROVE  \A q \in Proc, x \in Watched : pending'[q][x] \in {pending[q][x], disk[x], NONE}
  BY <1>1
<1>2. CASE UNCHANGED vars \/ UserEffect
  BY <1>1, <1>2 DEF vars, threadVars, UserEffect, ThreadSame
<1>3. ASSUME NEW p \in Proc, Effect(p)
      PROVE  \A q \in Proc, x \in Watched : pending'[q][x] \in {pending[q][x], disk[x], NONE}
  <2>1. CASE \/ GoesOn(p) \/ Renames(p) \/ Copies(p) \/ Publishes(p) \/ Deletes(p) \/ KeepsSource(p)
             \/ Exempts(p)
    <3> MoveFrame(p)
      BY <2>1 DEF GoesOn, Renames, Copies, Publishes, Deletes, KeepsSource, Exempts
    <3> QED
      BY <1>1 DEF MoveFrame, ThreadSame
  <2>2. CASE \/ Takes(p) \/ Releases(p) \/ Panics(p) \/ Finishes(p) \/ Picks(p) \/ Looks(p)
             \/ RemovesCopy(p) \/ Closes(p) \/ Starts(p)
    BY <1>1, <2>2 DEF Takes, Releases, Panics, Finishes, Picks, Looks, RemovesCopy, Closes, Starts,
       RecFrame, ThreadSame
  <2>3. CASE Readies(p) \/ Crashes(p)
    BY <2>3 DEF Readies, Crashes
  <2>4. CASE Notices(p) \/ Passes(p) \/ Drops(p)
    BY <2>4 DEF Notices, Passes, Drops, ThreadFrame
  <2>5. ASSUME NEW o \in Op, Inserts(p, o)
        PROVE  \A q \in Proc, x \in Watched : pending'[q][x] \in {pending[q][x], disk[x], NONE}
    BY <1>1, <2>5 DEF Inserts, ThreadFrame, ThreadSame
  <2> QED
    BY <1>3, <2>1, <2>2, <2>3, <2>4, <2>5 DEF Effect
<1> QED
  BY <1>2, <1>3, StepEffect

\* Where the file of a row comes from.
LEMMA RowSnaps ==
  ASSUME MoveInv, FilesInv, [Next]_vars, NEW o \in Op, ops'[o].status # "none"
  PROVE  \/ \E a \in Op : ops[a].status # "none" /\ ops'[o].snap = ops[a].snap
         \/ \E q \in Proc, x \in Watched : pending[q][x] # NONE /\ ops'[o].snap = pending[q][x]
         \/ \E x \in Path : disk[x] # NONE /\ ops'[o].snap = disk[x]
<1>1. CASE ColumnsSame
  BY <1>1 DEF ColumnsSame
<1>2. ASSUME NEW p \in Proc, NEW a \in Op, Inserts(p, a)
      PROVE  \/ \E b \in Op : ops[b].status # "none" /\ ops'[o].snap = ops[b].snap
             \/ \E q \in Proc, x \in Watched : pending[q][x] # NONE /\ ops'[o].snap = pending[q][x]
             \/ \E x \in Path : disk[x] # NONE /\ ops'[o].snap = disk[x]
  <2>1. CASE o # a
    BY <1>2, <2>1 DEF Inserts, NewRow
  <2>2. CASE o = a
    <3>1. /\ ops'[o].snap \in Snap /\ ops'[o].src \in Path
          /\ \/ checked[p] # NONE /\ ops'[o].src = checked[p] /\ ops'[o].src \in Watched
                /\ ops'[o].snap = pending[p][checked[p]]
             \/ \E q \in Op : ops[q].status # "none" /\ ops'[o].snap = ops[q].snap
             \/ disk[ops'[o].src] = ops'[o].snap
      BY <1>2, <2>2 DEF Inserts
    <3>2. ops'[o].snap # NONE
      BY <3>1, RecordFacts
    <3> QED
      BY <3>1, <3>2
  <2> QED
    BY <2>1, <2>2
<1> QED
  BY <1>1, <1>2, ColumnsStep

\* What the placement of an operation is, and what it was.
LEMMA PlacedSnaps ==
  ASSUME MoveInv, FilesInv, [Next]_vars, NEW o \in Op, placed'[o] # NONE
  PROVE  \/ placed[o] # NONE /\ placed'[o].snap = placed[o].snap
         \/ \E p \in Proc : Renames(p) /\ o = work[p].op /\ placed'[o].snap = ops[o].snap
         \/ \E p \in Proc : Publishes(p) /\ o = work[p].op /\ placed'[o].snap = work[p].snap
<1>1. CASE placed[o] # NONE
  BY <1>1, PlacedStep DEF PlacedKept
<1>2. CASE placed[o] = NONE
  <2>1. PICK p \in Proc : Renames(p) \/ Publishes(p) \/ Deletes(p)
    BY Zenon, <1>2, PlacedStep
  <2>2. o = work[p].op /\ placed'[o].snap = IF Renames(p) THEN ops[o].snap ELSE work[p].snap
    BY <1>2, <2>1 DEF Renames, Publishes, Deletes, Places
  <2>3. ~Deletes(p)
    BY <1>2, <2>2 DEF Deletes, FilesInv, RecordInv, WorkPlaced
  <2> QED
    BY <2>1, <2>2, <2>3
<1> QED
  BY <1>1, <1>2

LEMMA CopiesUnknownStep ==
  ASSUME MoveInv, FilesInv, SnapsKnown, CopiesUnknown, [Next]_vars
  PROVE  CopiesUnknown'
<1> SUFFICES ASSUME NEW p \in Proc, work'[p].pc = "publish"
    PROVE  /\ \A o \in Op : /\ ops'[o].status # "none" => ops'[o].snap.id # work'[p].snap.id
                            /\ placed'[o] # NONE => placed'[o].snap.id # work'[p].snap.id
           /\ \A q \in Proc, x \in Watched :
                pending'[q][x] # NONE => pending'[q][x].id # work'[p].snap.id
  BY DEF CopiesUnknown
<1>0. serial \in Nat
  BY RecordFacts
<1>1. CASE Copies(p)
  <2>1. UNCHANGED <<ops, placed, pending>> /\ work'[p].snap.id = serial + 1
    BY <1>1 DEF Copies, MoveFrame, ThreadSame
  <2> QED
    BY <1>0, <2>1 DEF SnapsKnown
<1>2. ASSUME ~Copies(p) PROVE work[p].pc = "publish" /\ work'[p].snap = work[p].snap
  <2>1. ASSUME work'[p] = work[p] PROVE work[p].pc = "publish" /\ work'[p].snap = work[p].snap
    BY <2>1
  <2>2. CASE UNCHANGED vars \/ UserEffect
    BY <2>1, <2>2 DEF vars, UserEffect
  <2>3. ASSUME NEW q \in Proc, Effect(q) PROVE work'[p] = work[p]
    <3>1. CASE q = p
      BY Zenon, <1>2, <2>3, <3>1 DEF Effect, GoesOn, Renames, Copies, Publishes, Deletes, KeepsSource, Exempts,
         Takes, Finishes, Releases, Panics, Picks, Looks, RemovesCopy, Closes, Starts, Readies, Crashes,
         Notices, Passes, Drops, Inserts, Arrives, RecOver, RecFails, ThreadFrame
    <3>2. CASE q # p
      BY Zenon, <2>3, <3>2 DEF Effect, GoesOn, Renames, Copies, Publishes, Deletes, KeepsSource, Exempts,
         Takes, Finishes, Releases, Panics, Picks, Looks, RemovesCopy, Closes, Starts, Readies, Crashes,
         Notices, Passes, Drops, Inserts, MoveFrame, RecFrame, ThreadFrame
    <3> QED
      BY Zenon, <3>1, <3>2
  <2> QED
    BY <2>1, <2>2, <2>3, StepEffect
<1>3. CASE ~Copies(p)
  <2> DEFINE id == work[p].snap.id
  <2>1. work[p].pc = "publish" /\ work'[p].snap.id = id
    BY <1>2, <1>3
  <2>2. /\ \A o \in Op : /\ ops[o].status # "none" => ops[o].snap.id # id
                         /\ placed[o] # NONE => placed[o].snap.id # id
        /\ \A q \in Proc, x \in Watched : pending[q][x] # NONE => pending[q][x].id # id
        /\ \A x \in Path : disk[x] # NONE => disk[x].id # id
        /\ \A q \in Proc \ {p} : work[q].pc = "publish" => work[q].snap.id # id
    BY <2>1 DEF CopiesUnknown, FilesInv, DiskInv, CopiesHidden
  <2> HIDE DEF id
  <2>3. \A o \in Op : ops'[o].status # "none" => ops'[o].snap.id # id
    BY <2>2, RowSnaps
  <2>4. ASSUME NEW o \in Op, placed'[o] # NONE PROVE placed'[o].snap.id # id
    <3>1. CASE placed[o] # NONE /\ placed'[o].snap = placed[o].snap
      BY Zenon, <2>2, <3>1
    <3>2. ASSUME NEW q \in Proc, Renames(q), o = work[q].op, placed'[o].snap = ops[o].snap
          PROVE  placed'[o].snap.id # id
      BY <2>2, <3>2, RecordFacts DEF Renames
    <3>3. ASSUME NEW q \in Proc, Publishes(q), placed'[o].snap = work[q].snap
          PROVE  placed'[o].snap.id # id
      <4>1. work[q].pc = "publish" /\ work'[q].pc = "delete"
        BY <3>3 DEF Publishes
      <4> QED
        BY <2>2, <3>3, <4>1
    <3> QED
      BY <2>4, <3>1, <3>2, <3>3, PlacedSnaps
  <2>5. \A q \in Proc, x \in Watched : pending'[q][x] # NONE => pending'[q][x].id # id
    BY <2>2, PendingStep, RecordFacts
  <2> QED
    BY <2>1, <2>3, <2>4, <2>5
<1> QED
  BY <1>1, <1>3

\* A row in use keeps the file it is about.
LEMMA RowFileKept ==
  ASSUME MoveInv, FilesInv, [Next]_vars, NEW o \in Op, ops[o].status # "none"
  PROVE  /\ ops'[o].src = ops[o].src /\ ops'[o].snap = ops[o].snap /\ ops'[o].kind = ops[o].kind
         /\ ops'[o].status # "none"
         /\ ops'[o].status = "started" => ops[o].status = "started"
<1>1. CASE ColumnsSame
  BY <1>1 DEF ColumnsSame
<1>2. ASSUME NEW p \in Proc, NEW a \in Op, Inserts(p, a) PROVE ops'[o] = ops[o]
  BY <1>2 DEF Inserts, NewRow
<1> QED
  BY <1>1, <1>2, ColumnsStep

LEMMA SourceGoneStep ==
  ASSUME MoveInv, FilesInv, SnapsKnown, CopiesUnknown, SourceGone, [Next]_vars
  PROVE  SourceGone'
<1> SUFFICES ASSUME NEW o \in Op, placed'[o] # NONE
    PROVE  /\ placed'[o].dst # ops'[o].src
           /\ placed'[o].gone /\ placed'[o].snap # ops'[o].snap => \A x \in Path : disk'[x] # ops'[o].snap
  BY DEF SourceGone
<1> DistinctFiles
  BY DEF FilesInv, DiskInv
<1>1. ASSUME NEW p \in Proc, Renames(p) \/ Publishes(p) \/ Deletes(p), o = work[p].op
      PROVE  /\ placed'[o].dst # ops'[o].src
             /\ placed'[o].gone /\ placed'[o].snap # ops'[o].snap =>
                  \A x \in Path : disk'[x] # ops'[o].snap
  <2>1. work[p].pc \in Holding /\ ops' = ops
    BY <1>1 DEF Renames, Publishes, Deletes, MoveFrame, Holding
  <2>2. /\ work[p].target # ops[o].src /\ ops[o].src \in Path /\ disk[ops[o].src] = ops[o].snap
        /\ disk[ops[o].src] # NONE
    BY <1>1, <2>1, HolderFacts
  <2>3. /\ placed'[o].dst = work[p].target
        /\ \/ placed'[o].snap = ops[o].snap
           \/ placed'[o].gone = FALSE
           \/ Deletes(p)
    BY <1>1 DEF Renames, Publishes, Deletes, Places
  <2>4. ASSUME Deletes(p) PROVE \A x \in Path : disk'[x] # ops'[o].snap
    BY <1>1, <2>1, <2>2, <2>4 DEF Deletes, DistinctFiles
  <2> QED
    BY <2>1, <2>2, <2>3, <2>4
<1>2. CASE placed'[o] = placed[o]
  <2>1. /\ ops[o].status # "none" /\ ops[o].snap # NONE
    BY <1>2, RecordFacts
  <2>2. ops'[o].src = ops[o].src /\ ops'[o].snap = ops[o].snap
    BY <2>1, RowFileKept
  <2>3. placed[o].dst # ops[o].src
    BY <1>2 DEF SourceGone
  <2>4. ASSUME \A x \in Path : disk[x] # ops[o].snap, NEW x \in Path PROVE disk'[x] # ops[o].snap
    <3>1. CASE disk'[x] \in {disk[x], NONE}
      BY <2>1, <2>4, <3>1
    <3>2. CASE UserEffect
      <4>1. \/ disk'[x] \in {disk[x], NONE}
            \/ disk'[x].id = serial + 1
        BY <3>2 DEF UserEffect
      <4>2. ops[o].snap.id \in 0..serial /\ serial \in Nat
        BY <2>1, RecordFacts DEF SnapsKnown
      <4> QED
        BY <3>1, <4>1, <4>2
    <3>3. ASSUME NEW q \in Proc, Renames(q) PROVE disk'[x] # ops[o].snap
      <4>1. disk'[x] \in {disk[x], NONE, ops[work[q].op].snap}
        BY Zenon, <3>3 DEF Renames
      <4>2. ops[work[q].op].snap = disk[ops[work[q].op].src] /\ ops[work[q].op].src \in Path
        BY <3>3, HolderFacts DEF Renames, Holding
      <4> QED
        BY <2>1, <2>4, <4>1, <4>2
    <3>4. ASSUME NEW q \in Proc, Publishes(q) PROVE disk'[x] # ops[o].snap
      <4>1. disk'[x] \in {disk[x], NONE, work[q].snap} /\ work[q].pc = "publish"
        BY <3>4 DEF Publishes
      <4>2. ops[o].snap # work[q].snap
        BY <2>1, <4>1 DEF CopiesUnknown
      <4> QED
        BY <2>1, <2>4, <4>1, <4>2
    <3> QED
      BY <3>1, <3>2, <3>3, <3>4, DiskStep
  <2> QED
    BY <1>2, <2>2, <2>3, <2>4 DEF SourceGone
<1>3. placed'[o] = placed[o] \/ \E p \in Proc : (Renames(p) \/ Publishes(p) \/ Deletes(p)) /\ o = work[p].op
  BY PlacedStep DEF Renames, Publishes, Deletes, Places
<1> QED
  BY <1>1, <1>2, <1>3

LEMMA WorkStep ==
  ASSUME MoveInv, FilesInv, [Next]_vars, NEW p \in Proc
  PROVE  work'[p] = work[p] \/ WorkEffect(p) \/ work'[p].pc = "idle"
<1>1. CASE UNCHANGED vars \/ UserEffect
  BY <1>1 DEF vars, UserEffect
<1>2. ASSUME NEW q \in Proc, Effect(q) PROVE work'[p] = work[p] \/ WorkEffect(p) \/ work'[p].pc = "idle"
  <2>1. CASE q = p
    BY Zenon, <1>2, <2>1 DEF Effect, WorkEffect, Releases, Picks, Looks, RemovesCopy, Closes, Starts, Readies,
       Crashes, Notices, Passes, Drops, Inserts, RecOver, RecFails, ThreadFrame
  <2>2. CASE q # p
    BY Zenon, <1>2, <2>2 DEF Effect, GoesOn, Renames, Copies, Publishes, Deletes, KeepsSource, Exempts,
       Takes, Finishes, Releases, Panics, Picks, Looks, RemovesCopy, Closes, Starts, Readies, Crashes,
       Notices, Passes, Drops, Inserts, MoveFrame, RecFrame, ThreadFrame
  <2> QED
    BY Zenon, <2>1, <2>2
<1> QED
  BY <1>1, <1>2, StepEffect

\* The placement of a request is made by its worker.
LEMMA PlacedByHolder ==
  ASSUME MoveInv, FilesInv, [Next]_vars, NEW p \in Proc, work[p].pc # "idle"
  PROVE  placed'[work[p].op] = placed[work[p].op] \/ Renames(p) \/ Publishes(p) \/ Deletes(p)
<1>1. work[p].op \in Op /\ \A q \in Proc \ {p} : work[q].pc # "idle" => work[q].op # work[p].op
  BY HeldAlone, RecordFacts
<1>2. CASE placed' = placed
  BY <1>2
<1>3. ASSUME NEW q \in Proc, q # p, Renames(q) \/ Publishes(q) \/ Deletes(q)
      PROVE  placed'[work[p].op] = placed[work[p].op]
  BY <1>1, <1>3 DEF Renames, Publishes, Deletes, MoveFrame, Places
<1> QED
  BY <1>2, <1>3, PlacedStep

LEMMA WorkGoneStep ==
  ASSUME MoveInv, FilesInv, WorkGone, [Next]_vars
  PROVE  WorkGone'
<1> SUFFICES ASSUME NEW p \in Proc, work'[p].pc # "idle"
    PROVE  /\ work'[p].pc = "delete" => ~placed'[work'[p].op].gone
           /\ \/ work'[p].pc = "exempt"
              \/ work'[p].pc = "finish" /\ work'[p].result = "completed"
              => /\ placed'[work'[p].op] # NONE /\ placed'[work'[p].op].gone
                 /\ placed'[work'[p].op].dst = work'[p].target /\ placed'[work'[p].op].snap = work'[p].snap
           /\ work'[p].pc = "finish" /\ work'[p].result # "completed" =>
                placed'[work'[p].op] = NONE \/ (~placed'[work'[p].op].gone /\ used'.faults >= 1)
           /\ work'[p].pc = "recover" => used'.faults >= 1
  BY DEF WorkGone
<1>0. used.faults \in Nat /\ used'.faults \in Nat /\ used.faults <= used'.faults
  BY StepEffect DEF FaultsGrow
<1>1. CASE work'[p] = work[p]
  <2>1. placed'[work[p].op] = placed[work[p].op]
    <3>1. ~(Renames(p) \/ Publishes(p) \/ Deletes(p))
      BY <1>1 DEF Renames, Publishes, Deletes, Arrives
    <3> QED
      BY <1>1, <3>1, PlacedByHolder
  <2> QED
    BY <1>0, <1>1, <2>1 DEF WorkGone
<1>2. CASE GoesOn(p)
  <2>1. placed[work[p].op] = NONE /\ placed' = placed /\ work'[p].op = work[p].op
    BY <1>2 DEF GoesOn, FilesSame, MoveFrame, MoveInv, JournalInv, NothingPlacedYet
  <2> QED
    BY <1>2, <2>1 DEF GoesOn
<1>3. CASE Renames(p) \/ Deletes(p)
  <2>1. /\ work'[p].op = work[p].op
        /\ work'[p].pc \in {"exempt", "finish"} /\ work'[p].result = "completed"
        /\ placed'[work[p].op] # NONE /\ placed'[work[p].op].gone
        /\ placed'[work[p].op].dst = work'[p].target /\ placed'[work[p].op].snap = work'[p].snap
    BY <1>3 DEF Renames, Deletes, MoveFrame, Arrives, Places
  <2> QED
    BY <2>1
<1>4. CASE Publishes(p)
  <2>1. work'[p].op = work[p].op /\ work'[p].pc = "delete" /\ placed'[work[p].op].gone = FALSE
    BY <1>4 DEF Publishes, MoveFrame, Places
  <2> QED
    BY <2>1
<1>5. CASE KeepsSource(p)
  <2>1. /\ work'[p].op = work[p].op /\ work'[p].pc = "finish" /\ work'[p].result # "completed"
        /\ placed' = placed /\ used'.faults = used.faults + 1 /\ ~placed[work[p].op].gone
    BY <1>5 DEF KeepsSource, MoveFrame, WorkGone
  <2> QED
    BY <1>0, <2>1
<1>6. CASE Exempts(p)
  <2>1. /\ work'[p].op = work[p].op /\ work'[p].pc = "finish" /\ work'[p].result = "completed"
        /\ placed' = placed /\ work[p].pc = "exempt"
        /\ work'[p].target = work[p].target /\ work'[p].snap = work[p].snap
    BY <1>6 DEF Exempts, MoveFrame, FilesSame
  <2> QED
    BY <2>1 DEF WorkGone
<1>7. CASE Copies(p) \/ Takes(p) \/ Finishes(p)
  BY <1>7 DEF Copies, Takes, Finishes
<1>8. CASE Panics(p)
  BY <1>0, <1>8 DEF Panics
<1> QED
  BY <1>1, <1>2, <1>3, <1>4, <1>5, <1>6, <1>7, <1>8, WorkStep DEF WorkEffect

LEMMA RecStep ==
  ASSUME MoveInv, FilesInv, [Next]_vars, NEW p \in Proc
  PROVE  rec'[p] = rec[p] \/ RecEffect(p) \/ rec'[p].op = NONE
<1>1. CASE UNCHANGED vars \/ UserEffect
  BY <1>1 DEF vars, UserEffect
<1>2. ASSUME NEW q \in Proc, Effect(q) PROVE rec'[p] = rec[p] \/ RecEffect(p) \/ rec'[p].op = NONE
  <2>1. CASE \/ GoesOn(q) \/ Renames(q) \/ Copies(q) \/ Publishes(q) \/ Deletes(q) \/ KeepsSource(q)
             \/ Exempts(q) \/ Takes(q) \/ Finishes(q) \/ Releases(q) \/ Readies(q) \/ Notices(q)
             \/ Passes(q) \/ Drops(q) \/ \E o \in Op : Inserts(q, o)
    BY Zenon, <2>1 DEF GoesOn, Renames, Copies, Publishes, Deletes, KeepsSource, Exempts, MoveFrame,
       Takes, Finishes, Releases, Readies, Notices, Passes, Drops, Inserts, ThreadFrame
  <2>2. CASE \/ Panics(q) \/ Picks(q) \/ Looks(q) \/ RemovesCopy(q) \/ Closes(q) \/ Starts(q) \/ Crashes(q)
    <3>1. CASE q = p
      BY <2>2, <3>1 DEF RecEffect, Starts, Crashes
    <3>2. CASE q # p
      BY <2>2, <3>2 DEF Panics, Picks, Looks, RemovesCopy, Closes, Starts, Crashes, RecFrame
    <3> QED
      BY <3>1, <3>2
  <2> QED
    BY Zenon, <1>2, <2>1, <2>2 DEF Effect
<1> QED
  BY <1>1, <1>2, StepEffect

\* Nobody moves the file of an operation that is being reconciled.
LEMMA RecoveredStays ==
  ASSUME MoveInv, FilesInv, [Next]_vars, NEW p \in Proc, rec[p].op # NONE
  PROVE  placed'[rec[p].op] = placed[rec[p].op]
<1>1. rec[p].op \in Op /\ \A q \in Proc \ {p} : work[q].pc # "idle" => work[q].op # rec[p].op
  BY RecoveredAlone
<1>2. ASSUME NEW q \in Proc, Renames(q) \/ Publishes(q) \/ Deletes(q) PROVE work[q].op # rec[p].op
  <2>1. work[q].pc \in Holding /\ work[q].pc \notin {"idle", "recover"}
    BY <1>2 DEF Renames, Publishes, Deletes, Holding
  <2>2. CASE q = p
    <3>1. phase[p] = "running"
      BY <2>1, <2>2, RecordFacts
    <3> QED
      BY <2>1, <2>2, <3>1 DEF MoveInv, Owned, RecoveryOwned
  <2> QED
    BY <1>1, <2>1, <2>2
<1>3. ASSUME NEW q \in Proc, Renames(q) \/ Publishes(q) \/ Deletes(q)
      PROVE  placed'[rec[p].op] = placed[rec[p].op]
  BY Zenon, <1>1, <1>2, <1>3 DEF Renames, Publishes, Deletes, Places
<1> QED
  BY <1>3, PlacedStep

\* A move that does not stand does not come to stand.
LEMMA StandsNoMore ==
  ASSUME MoveInv, FilesInv, SnapsKnown, [Next]_vars, NEW o \in Op, placed[o] # NONE,
         placed'[o] = placed[o], ~Standing(o)
  PROVE  ~Standing(o)'
<1> DEFINE d == placed[o].dst
           s == placed[o].snap
<1>0. d \in Path /\ s # NONE /\ s.id \in 0..serial /\ serial \in Nat
  BY RecordFacts DEF SnapsKnown
<1>1. CASE MovedAgain(o)
  <2>1. PICK q \in Op \ {o} : placed[q] # NONE /\ placed[q].dst = d /\ placed[q].snap = s
    BY <1>1 DEF MovedAgain
  <2>2. placed'[q] # NONE /\ placed'[q].dst = d /\ placed'[q].snap = s
    BY <2>1, PlacedStep DEF PlacedKept
  <2>3. MovedAgain(o)'
    BY <2>2 DEF MovedAgain
  <2> QED
    BY <2>3 DEF Standing
<1>2. CASE ~placed[o].gone
  BY <1>2 DEF Standing
<1>3. CASE disk[d] # s
  <2>1. CASE disk'[d] # s
    BY <2>1 DEF Standing
  <2>2. ASSUME disk'[d] = s PROVE MovedAgain(o)'
    <3>1. ~UserEffect /\ ~(disk'[d] \in {disk[d], NONE})
      BY <1>0, <1>3, <2>2 DEF UserEffect
    <3>2. PICK q \in Proc : Renames(q) \/ Publishes(q)
      BY <1>0, <3>1, DiskStep
    <3>3. /\ d = work[q].target
          /\ disk'[d] = IF Renames(q) THEN ops[work[q].op].snap ELSE work[q].snap
      BY <1>0, <3>1, <3>2 DEF Renames, Publishes
    <3>4. /\ work[q].op \in Op /\ placed[work[q].op] = NONE
      BY Zenon, <3>2, RecordFacts DEF Renames, Publishes, MoveInv, JournalInv, NothingPlacedYet
    <3>5. /\ placed'[work[q].op] # NONE /\ placed'[work[q].op].dst = d /\ placed'[work[q].op].snap = disk'[d]
      BY Zenon, <3>2, <3>3 DEF Renames, Publishes, Places
    <3> QED
      BY <2>2, <3>4, <3>5 DEF MovedAgain
  <2> QED
    BY <2>1, <2>2 DEF Standing
<1> QED
  BY <1>1, <1>2, <1>3 DEF Standing

LEMMA LookVerdict ==
  ASSUME MoveInv, FilesInv, SourceGone, NEW o \in Op, ops[o].status = "started", placed[o] # NONE
  PROVE  /\ Verdict(o) = "rollback" => ~placed[o].gone
         /\ Verdict(o) = "fail" => ~Standing(o)
<1>1. journal[o] = [dst |-> placed[o].dst, snap |-> placed[o].snap]
  BY DEF MoveInv, JournalInv, JournalAheadOfMove
<1>2. PICK r : r = [dst |-> placed[o].dst, snap |-> placed[o].snap]
  OBVIOUS
<1>3. journal[o] # NONE /\ journal[o].dst = placed[o].dst /\ journal[o].snap = placed[o].snap
  <2>1. placed[o].dst \in Path /\ placed[o].snap \in Snap
    BY RecordFacts
  <2>2. [dst |-> placed[o].dst, snap |-> placed[o].snap] \in [dst : Path, snap : Snap]
    BY <2>1
  <2>3. r # NONE
    BY <1>2, <2>2, MoveAssumption
  <2>4. r.dst = placed[o].dst /\ r.snap = placed[o].snap
    BY <1>2
  <2> QED
    BY <1>1, <1>2, <2>3, <2>4
<1>4. /\ placed[o].dst \in Path /\ ops[o].src \in Path /\ ops[o].snap # NONE
      /\ placed[o].dst # ops[o].src
  BY RecordFacts DEF SourceGone
<1>5. ASSUME Verdict(o) = "rollback" PROVE ~placed[o].gone
  <2>1. disk[placed[o].dst] = placed[o].snap /\ disk[ops[o].src] = ops[o].snap
    BY <1>3, <1>5 DEF Verdict
  <2>2. placed[o].snap # ops[o].snap
    BY <1>4, <2>1 DEF FilesInv, DiskInv, DistinctFiles
  <2> QED
    BY <1>4, <2>1, <2>2 DEF SourceGone
<1>6. ASSUME Verdict(o) = "fail" PROVE ~Standing(o)
  BY <1>3, <1>6 DEF Verdict, Standing
<1> QED
  BY <1>5, <1>6

LEMMA VerdictsStep ==
  ASSUME MoveInv, FilesInv, OutcomeInv, [Next]_vars
  PROVE  Verdicts'
<1> SnapsKnown /\ SourceGone /\ WorkGone /\ Verdicts
  BY DEF OutcomeInv
<1>0. /\ used.faults \in Nat /\ used'.faults \in Nat /\ used.faults <= used'.faults
      /\ rec' \in [Proc -> Recovery]
  BY StepEffect, MoveInvStep DEF FaultsGrow, MoveInv, TypeInv, TypeOK
<1>1. ASSUME NEW p \in Proc, NEW o \in Op, rec'[p].op = o, ops'[o].status = "started", placed'[o] # NONE
      PROVE  /\ rec'[p].verdict = "rollback" => ~placed'[o].gone
             /\ rec'[p].verdict = "fail" /\ used'.faults <= 1 => ~Standing(o)'
  <2> o # NONE
    BY MoveAssumption
  <2>1. CASE Panics(p) \/ Picks(p)
    BY <2>1 DEF Panics, Picks
  <2>2. ASSUME rec[p].op = o
        PROVE  /\ ops[o].status = "started" /\ placed'[o] = placed[o] /\ placed[o] # NONE
               /\ ~Standing(o) => ~Standing(o)'
    <3>1. ops[o].status # "none"
      BY <2>2, RecordFacts
    <3>2. ops[o].status = "started"
      BY <1>1, <3>1, RowFileKept
    <3>3. placed'[o] = placed[o]
      BY <2>2, RecoveredStays
    <3> QED
      BY <1>1, <3>2, <3>3, StandsNoMore
  <2>3. CASE rec'[p] = rec[p]
    BY <1>0, <1>1, <2>2, <2>3 DEF Verdicts
  <2>4. CASE Looks(p)
    <3>1. rec[p].op = o /\ rec'[p].verdict = Verdict(o)
      BY <1>1, <2>4 DEF Looks
    <3>2. /\ Verdict(o) = "rollback" => ~placed[o].gone
          /\ Verdict(o) = "fail" => ~Standing(o)
      BY <2>2, <3>1, LookVerdict
    <3> QED
      BY <2>2, <3>1, <3>2
  <2>5. CASE RemovesCopy(p)
    <3>1. rec[p].op = o /\ rec[p].verdict = "rollback" /\ rec'[p].verdict = "fail"
      BY <1>1, <2>5 DEF RemovesCopy, RecFails, RecOver
    <3>2. ~placed[o].gone
      BY <2>2, <3>1 DEF Verdicts
    <3> QED
      BY <2>2, <3>1, <3>2 DEF Standing
  <2>6. CASE Closes(p)
    <3>1. /\ rec[p].op = o /\ phase[p] = "running" /\ used'.faults = used.faults + 1
          /\ rec'[p].verdict = "fail"
      BY <1>1, <2>6 DEF Closes, RecFails, RecOver
    <3>2. work[p].pc = "recover"
      BY <3>1 DEF MoveInv, Owned, RecoveryOwned
    <3>3. used.faults >= 1
      BY <3>2 DEF WorkGone
    <3> QED
      BY <1>0, <3>1, <3>3
  <2> QED
    BY <1>1, <2>1, <2>3, <2>4, <2>5, <2>6, RecStep DEF RecEffect
<1>2. ASSUME NEW p \in Proc, rec'[p].op # NONE PROVE rec'[p].op \in Op
  BY <1>0, <1>2 DEF Recovery
<1> QED
  BY <1>1, <1>2 DEF Verdicts, Standing, MovedAgain

LEMMA OutcomeInit == Init => OutcomeInv
<1> SUFFICES ASSUME Init PROVE OutcomeInv
  OBVIOUS
<1>1. /\ \A x \in Path : disk[x] = NONE
      /\ \A o \in Op : journal[o] = NONE /\ placed[o] = NONE /\ ops[o].status = "none"
      /\ \A p \in Proc : /\ work[p].pc = "idle" /\ rec[p].verdict = "none" /\ rec[p].op = NONE
                         /\ \A x \in Watched : pending[p][x] = NONE
  BY DEF Init, Idle, NoRec, NoRow
<1> QED
  BY <1>1 DEF OutcomeInv, SnapsKnown, CopiesUnknown, SourceGone, WorkGone, Verdicts

LEMMA OutcomeStep == MoveInv /\ FilesInv /\ OutcomeInv /\ [Next]_vars => OutcomeInv'
<1> SUFFICES ASSUME MoveInv, FilesInv, OutcomeInv, [Next]_vars PROVE OutcomeInv'
  OBVIOUS
<1>1. SnapsKnown /\ CopiesUnknown /\ SourceGone /\ WorkGone
  BY DEF OutcomeInv
<1> QED
  BY <1>1, SnapsKnownStep, CopiesUnknownStep, SourceGoneStep, WorkGoneStep, VerdictsStep DEF OutcomeInv

LEMMA OutcomeInvariant == Spec => [](MoveInv /\ FilesInv /\ OutcomeInv)
<1>1. Init => MoveInv /\ FilesInv /\ OutcomeInv
  BY MoveInvInit, FilesInit, OutcomeInit
<1>2. MoveInv /\ FilesInv /\ OutcomeInv /\ [Next]_vars => MoveInv' /\ FilesInv' /\ OutcomeInv'
  BY MoveInvStep, FilesStep, OutcomeStep
<1> QED
  BY <1>1, <1>2, PTL DEF Spec

\* A row is closed by the worker of its request or by a reconciliation.
LEMMA RowsClosed ==
  ASSUME MoveInv, FilesInv, [Next]_vars, NEW o \in Op, ops[o].status = "started",
         ops'[o].status # "started"
  PROVE  \E p \in Proc :
           \/ /\ Finishes(p) /\ o = work[p].op
              /\ RowCloses(o, work[p].result, work[p].target, work[p].snap)
           \/ /\ Closes(p) /\ o = rec[p].op /\ rec[p].verdict = "complete"
              /\ RowCloses(o, "completed", rec[p].dst, rec[p].snap)
           \/ /\ Closes(p) /\ o = rec[p].op /\ rec[p].verdict = "fail"
              /\ RowCloses(o, "failed", NONE, NONE)
<1>1. ops' # ops
  OBVIOUS
<1>2. ~UNCHANGED vars /\ ~UserEffect
  BY <1>1 DEF vars, dbVars, UserEffect
<1>3. PICK p \in Proc : Effect(p)
  BY <1>2, StepEffect
<1>4. ~(\/ GoesOn(p) \/ Renames(p) \/ Copies(p) \/ Publishes(p) \/ Deletes(p) \/ KeepsSource(p)
        \/ Exempts(p) \/ Takes(p) \/ Releases(p) \/ Panics(p) \/ Picks(p) \/ Looks(p)
        \/ RemovesCopy(p) \/ Starts(p) \/ Readies(p) \/ Notices(p) \/ Passes(p) \/ Drops(p))
  BY <1>1 DEF GoesOn, Renames, Copies, Publishes, Deletes, KeepsSource, Exempts, MoveFrame,
     Takes, Releases, Panics, Picks, Looks, RemovesCopy, Starts, Readies, Notices, Passes, Drops
<1>5. ~Crashes(p) /\ \A a \in Op : ~Inserts(p, a)
  BY DEF Crashes, Inserts, NewRow
<1>6. Finishes(p) \/ Closes(p)
  BY <1>3, <1>4, <1>5 DEF Effect
<1>7. ASSUME NEW a, NEW st, NEW dst, NEW snap, RowCloses(a, st, dst, snap) PROVE a = o
  BY <1>7 DEF RowCloses
<1>8. CASE Finishes(p)
  <2>1. RowCloses(work[p].op, work[p].result, work[p].target, work[p].snap)
    BY <1>1, <1>8 DEF Finishes
  <2> QED
    BY <1>7, <1>8, <2>1
<1>9. CASE Closes(p)
  <2>1. \/ /\ rec[p].verdict = "complete"
           /\ RowCloses(rec[p].op, "completed", rec[p].dst, rec[p].snap)
        \/ rec[p].verdict = "fail" /\ RowCloses(rec[p].op, "failed", NONE, NONE)
    BY <1>1, <1>9 DEF Closes
  <2> QED
    BY <1>7, <1>9, <2>1
<1> QED
  BY <1>6, <1>8, <1>9

\* With at most one fault, however the processes interleave and wherever they
\* die, a move whose source is gone is closed as completed while the moved
\* file is where the move has put it: neither the worker nor a reconciliation
\* fails it (organizer_operation_actions.rs, 596-650; file_operation_worker.rs,
\* 900-960).
THEOREM MoveMovedIsNotFailed == Spec => MovedIsNotFailed
<1>1. ASSUME MoveInv, FilesInv, OutcomeInv, [Next]_vars, NEW o \in Op,
             used'.faults <= 1, ops[o].status = "started",
             ops'[o].status \notin {"started", "completed"}, placed[o] # NONE
      PROVE  ~Standing(o)
  <2>1. used.faults \in Nat /\ used'.faults \in Nat /\ used.faults <= used'.faults
    BY <1>1, StepEffect DEF FaultsGrow
  <2>2. PICK p \in Proc :
           \/ /\ Finishes(p) /\ o = work[p].op
              /\ RowCloses(o, work[p].result, work[p].target, work[p].snap)
           \/ /\ Closes(p) /\ o = rec[p].op /\ rec[p].verdict = "complete"
              /\ RowCloses(o, "completed", rec[p].dst, rec[p].snap)
           \/ /\ Closes(p) /\ o = rec[p].op /\ rec[p].verdict = "fail"
              /\ RowCloses(o, "failed", NONE, NONE)
    BY <1>1, RowsClosed
  <2>3. CASE Finishes(p) /\ o = work[p].op /\ RowCloses(o, work[p].result, work[p].target, work[p].snap)
    <3>1. work[p].pc = "finish" /\ work[p].result # "completed"
      BY <1>1, <2>3 DEF Finishes, RowCloses
    <3>2. ~placed[o].gone
      BY <1>1, <2>3, <3>1 DEF OutcomeInv, WorkGone
    <3> QED
      BY <3>2 DEF Standing
  <2>4. CASE Closes(p) /\ o = rec[p].op /\ rec[p].verdict = "fail"
    <3>1. rec[p].op # NONE /\ used.faults <= 1
      BY <1>1, <2>1, <2>4 DEF Closes
    <3> QED
      BY <1>1, <2>4, <3>1 DEF OutcomeInv, Verdicts
  <2>5. ~RowCloses(o, "completed", rec[p].dst, rec[p].snap)
    BY <1>1 DEF RowCloses
  <2> QED
    BY <2>2, <2>3, <2>4, <2>5
<1>2. MoveInv /\ FilesInv /\ OutcomeInv /\ [Next]_vars =>
       [\A o \in Op :
         /\ used'.faults <= 1
         /\ ops[o].status = "started"
         /\ ops'[o].status \notin {"started", "completed"}
         /\ placed[o] # NONE
         => \/ ~(placed[o].gone /\ disk[placed[o].dst] = placed[o].snap)
            \/ MovedAgain(o)]_vars
  BY <1>1 DEF Standing
<1> QED
  BY <1>2, OutcomeInvariant, PTL DEF Spec, MovedIsNotFailed

----------------------------------------------------------------------------
(* One instance, before any fault: what the steps of its phases are.       *)

LEMMA AloneFacts ==
  ASSUME NEW p, Proc = {p}, MoveInv, WorkGone, used.faults = 0
  PROVE  /\ p \in Proc /\ p # NONE /\ work[p].pc # "recover"
         /\ phase[p] \in {"down", "starting", "running"}
         /\ phase[p] = "running" => rec[p].op = NONE
         /\ phase[p] # "running" => /\ work[p].pc = "idle" /\ checked[p] = NONE /\ Requests(p) = {}
                                    /\ \A x \in Path : ~Held(x)
<1> p \in Proc /\ TypeInv /\ TypeOK /\ Owned
  BY DEF MoveInv, TypeInv
<1>1. work[p].pc # "recover" /\ phase[p] \in {"down", "starting", "running"} /\ p # NONE
  BY MoveAssumption DEF WorkGone, TypeOK
<1>2. phase[p] = "running" => rec[p].op = NONE
  BY <1>1 DEF Owned, RecoveryOwned
<1>3. ASSUME phase[p] # "running"
      PROVE  /\ work[p].pc = "idle" /\ checked[p] = NONE /\ Requests(p) = {}
             /\ \A x \in Path : ~Held(x)
  <2>1. work[p].pc = "idle" /\ checked[p] = NONE /\ queue[p] = << >>
    BY <1>3 DEF TypeInv, Filled, Quiet, Idle
  <2>2. Requests(p) = {}
    BY <2>1 DEF Requests
  <2>3. \A x \in Path : ~Held(x)
    BY <2>1 DEF Held
  <2> QED
    BY <2>1, <2>2, <2>3
<1> QED
  BY <1>1, <1>2, <1>3

LEMMA AloneStep ==
  ASSUME NEW p, Proc = {p}, MoveInv, FilesInv, WorkGone, [Next]_vars, used'.faults = 0
  PROVE  /\ used.faults = 0
         /\ \/ UNCHANGED vars \/ UserEffect \/ Crashes(p)
            \/ phase[p] = "down" /\ Starts(p)
            \/ phase[p] = "starting" /\ Recovers(p)
            \/ phase[p] = "running" /\ Works(p)
<1>1. /\ used.faults = 0
      /\ UNCHANGED vars \/ UserEffect \/ \E q \in Proc : Effect(q)
  BY StepEffect DEF FaultsGrow
<1>2. p \in Proc /\ (phase[p] = "running" => rec[p].op = NONE)
      /\ phase[p] \in {"down", "starting", "running"}
      /\ (phase[p] # "running" => work[p].pc = "idle")
      /\ (phase[p] = "down" => rec[p].op = NONE)
  <2>1. phase[p] = "down" => rec[p].op = NONE
    BY DEF MoveInv, TypeInv, Filled, Quiet, NoRec
  <2> QED
    BY <1>1, <2>1, AloneFacts
<1>3. CASE Effect(p)
  <2>1. CASE KeepsSource(p) \/ Panics(p)
    BY <1>1, <2>1 DEF KeepsSource, Panics
  <2>2. CASE GoesOn(p) \/ Renames(p) \/ Copies(p) \/ Publishes(p) \/ Deletes(p) \/ Exempts(p)
    <3>1. work[p].pc # "idle"
      BY <2>2 DEF GoesOn, Renames, Copies, Publishes, Deletes, Exempts, MoveFrame
    <3> QED
      BY Zenon, <1>1, <1>2, <2>2, <3>1 DEF Works
  <2>3. CASE \/ Takes(p) \/ Finishes(p) \/ Releases(p) \/ Notices(p) \/ Passes(p) \/ Drops(p)
             \/ \E o \in Op : Inserts(p, o)
    BY <1>1, <1>2, <2>3 DEF Works, Takes, Finishes, Releases, Notices, Passes, Drops, Inserts
  <2>4. CASE Picks(p) \/ Looks(p) \/ RemovesCopy(p) \/ Closes(p) \/ Readies(p)
    BY <1>1, <1>2, <2>4 DEF Recovers, Picks, Looks, RemovesCopy, Closes, Readies
  <2>5. CASE Starts(p)
    BY <1>1, <2>5 DEF Starts
  <2>6. CASE Crashes(p)
    BY <1>1, <2>6
  <2> QED
    BY <1>1, <1>3, <2>1, <2>2, <2>3, <2>4, <2>5, <2>6 DEF Effect
<1> QED
  BY <1>1, <1>3

\* What the user puts on the disk is new.
LEMMA UserFresh ==
  ASSUME MoveInv, UserEffect
  PROVE  \E z \in Path : \A x \in Path :
           \/ disk'[x] \in {disk[x], NONE}
           \/ x = z /\ disk'[x].id \notin 0..serial /\ disk'[x].doc \notin 0..serial
<1>1. serial \in Nat
  BY RecordFacts
<1>2. PICK z \in Path :
        /\ \A y \in Path : y # z => disk'[y] = disk[y]
        /\ \/ disk'[z] = NONE
           \/ disk'[z].id = serial + 1 /\ disk'[z].doc = serial + 1
  BY DEF UserEffect
<1>3. \A x \in Path : \/ disk'[x] \in {disk[x], NONE}
                      \/ x = z /\ disk'[x].id \notin 0..serial /\ disk'[x].doc \notin 0..serial
  BY <1>1, <1>2
<1> QED
  BY <1>3

\* A phase ends only with the steps that end it.
LEMMA PhaseStays ==
  ASSUME NEW p, Proc = {p}
  PROVE  /\ Works(p) => phase' = phase
         /\ Picks(p) \/ Looks(p) \/ RemovesCopy(p) \/ Closes(p) => phase' = phase
         /\ UserEffect => phase' = phase
<1>1. ASSUME Works(p) PROVE phase' = phase
  BY Zenon, <1>1 DEF Works, GoesOn, Renames, Copies, Publishes, Deletes, Exempts, MoveFrame, Takes, Finishes,
     Releases, Notices, Passes, Drops, Inserts, ThreadFrame
<1>2. ASSUME Picks(p) \/ Looks(p) \/ RemovesCopy(p) \/ Closes(p) PROVE phase' = phase
  BY <1>2 DEF Picks, Looks, RemovesCopy, Closes, RecFrame
<1> QED
  BY Zenon, <1>1, <1>2 DEF UserEffect

LEMMA OwnersGoneStep ==
  ASSUME NEW p, Proc = {p}, MoveInv, FilesInv, WorkGone, OwnersGone(p), [Next]_vars, used'.faults = 0
  PROVE  OwnersGone(p)'
<1> SUFFICES ASSUME phase'[p] # "running", NEW o \in Op, ops'[o].status # "none"
    PROVE  ops'[o].owner = NONE
  BY DEF OwnersGone
<1>1. CASE UNCHANGED vars
  BY <1>1 DEF vars, dbVars, OwnersGone
<1>2. CASE UserEffect
  BY <1>2 DEF UserEffect, OwnersGone
<1>3. CASE Crashes(p)
  <2>1. ops[o].owner \in {p, NONE}
    BY DEF MoveInv, TypeInv, TypeOK, OpRow
  <2> QED
    BY <1>3, <2>1 DEF Crashes
<1>4. CASE phase[p] = "down" /\ Starts(p)
  BY <1>4 DEF Starts, OwnersGone
<1>5. CASE phase[p] = "starting" /\ Recovers(p)
  <2>1. CASE Picks(p) \/ Looks(p) \/ RemovesCopy(p)
    BY <1>5, <2>1 DEF Picks, Looks, RemovesCopy, OwnersGone
  <2>2. CASE Closes(p)
    <3>1. ops' = ops \/ \E a, st, dst, snap : RowCloses(a, st, dst, snap)
      BY <2>2 DEF Closes
    <3>2. /\ ops'[o].owner = ops[o].owner
          /\ ops[o].status # "none"
      BY <3>1, ClosesColumns DEF ColumnsSame, RowCloses
    <3> QED
      BY <1>5, <3>2 DEF OwnersGone
  <2>3. ~Readies(p)
    BY DEF Readies
  <2> QED
    BY <1>5, <2>1, <2>2, <2>3 DEF Recovers
<1>6. ~(phase[p] = "running" /\ Works(p))
  BY PhaseStays
<1> QED
  BY <1>1, <1>2, <1>3, <1>4, <1>5, <1>6, AloneStep

LEMMA LookedAtStep ==
  ASSUME NEW p, Proc = {p}, MoveInv, FilesInv, OutcomeInv, LookedAt(p), [Next]_vars, used'.faults = 0
  PROVE  LookedAt(p)'
<1> SUFFICES ASSUME phase'[p] = "starting"
    PROVE  /\ rec'[p].op \notin rec'[p].todo
           /\ rec'[p].verdict \in {"rollback", "complete"} =>
                /\ journal'[rec'[p].op] # NONE
                /\ journal'[rec'[p].op].dst = rec'[p].dst /\ journal'[rec'[p].op].snap = rec'[p].snap
           /\ rec'[p].verdict = "complete" => disk'[ops'[rec'[p].op].src] # ops'[rec'[p].op].snap
  BY DEF LookedAt
<1>0. WorkGone /\ SnapsKnown /\ p \in Proc /\ NONE \notin Op /\ rec[p].todo \subseteq Op
  BY MoveAssumption DEF OutcomeInv, MoveInv, TypeInv, TypeOK, Recovery
<1>1. CASE UNCHANGED vars
  BY <1>1 DEF vars, dbVars, LookedAt
<1>2. CASE UserEffect
  <2>1. UNCHANGED <<ops, journal, phase, rec>>
    BY <1>2 DEF UserEffect
  <2>2. ASSUME rec[p].verdict = "complete"
        PROVE  disk'[ops[rec[p].op].src] # ops[rec[p].op].snap
    <3>1. disk[ops[rec[p].op].src] # ops[rec[p].op].snap
      BY <2>1, <2>2 DEF LookedAt
    <3>2. /\ rec[p].op \in Op /\ ops[rec[p].op].src \in Path /\ ops[rec[p].op].snap # NONE
          /\ ops[rec[p].op].snap.id \in 0..serial
      BY <1>0, <2>2, RecordFacts DEF SnapsKnown
    <3> QED
      BY <1>2, <3>1, <3>2, UserFresh
  <2> QED
    BY <2>1, <2>2 DEF LookedAt
<1>3. ~Crashes(p) /\ ~Readies(p)
  BY DEF Crashes, Readies
<1>4. CASE phase[p] = "down" /\ Starts(p)
  BY <1>0, <1>4 DEF Starts
<1>5. CASE phase[p] = "starting" /\ Recovers(p)
  <2>1. CASE Picks(p)
    BY <1>0, <2>1 DEF Picks
  <2>2. CASE Looks(p)
    <3>1. /\ rec'[p].op = rec[p].op /\ rec'[p].todo = rec[p].todo /\ UNCHANGED <<ops, journal, disk>>
          /\ rec'[p].verdict = Verdict(rec[p].op)
          /\ journal[rec[p].op] # NONE => /\ rec'[p].dst = journal[rec[p].op].dst
                                          /\ rec'[p].snap = journal[rec[p].op].snap
      BY <2>2 DEF Looks, FilesSame
    <3> QED
      BY <1>5, <3>1 DEF LookedAt, Verdict
  <2>3. CASE RemovesCopy(p)
    BY <1>0, <1>5, <2>3 DEF RemovesCopy, RecFails, RecOver, LookedAt
  <2>4. CASE Closes(p)
    BY <1>0, <1>5, <2>4 DEF Closes, RecFails, RecOver
  <2> QED
    BY <1>3, <1>5, <2>1, <2>2, <2>3, <2>4 DEF Recovers
<1>6. ~(phase[p] = "running" /\ Works(p))
  BY PhaseStays
<1> QED
  BY <1>0, <1>1, <1>2, <1>3, <1>4, <1>5, <1>6, AloneStep

\* The journal row of a started operation names the file it has put somewhere.
LEMMA PlacedJournal ==
  ASSUME MoveInv, NEW o \in Op, ops[o].status = "started", placed[o] # NONE
  PROVE  journal[o] # NONE /\ journal[o].dst = placed[o].dst /\ journal[o].snap = placed[o].snap
<1>1. journal[o] = [dst |-> placed[o].dst, snap |-> placed[o].snap]
  BY DEF MoveInv, JournalInv, JournalAheadOfMove
<1>2. PICK r : r = [dst |-> placed[o].dst, snap |-> placed[o].snap]
  OBVIOUS
<1>3. placed[o].dst \in Path /\ placed[o].snap \in Snap
  BY RecordFacts
<1>4. [dst |-> placed[o].dst, snap |-> placed[o].snap] \in [dst : Path, snap : Snap]
  BY <1>3
<1>5. r # NONE
  BY <1>2, <1>4, MoveAssumption
<1>6. r.dst = placed[o].dst /\ r.snap = placed[o].snap
  BY <1>2
<1> QED
  BY <1>1, <1>2, <1>5, <1>6

\* A file that is where its operation has put it was there, or arrives now.
LEMMA TendedFrom ==
  ASSUME NEW p, Proc = {p}, MoveInv, FilesInv, OutcomeInv, Tended(p), [Next]_vars,
         NEW o \in Op, NEW x \in Path,
         ops'[o].status = "started", placed'[o] # NONE, disk'[x] = placed'[o].snap
  PROVE  /\ ops[o].status = "started" /\ x = placed'[o].dst
         /\ \/ /\ placed[o] # NONE /\ placed[o].dst = x
               /\ placed[o].snap = placed'[o].snap /\ disk[x] = placed[o].snap
            \/ (Renames(p) \/ Publishes(p)) /\ o = work[p].op
<1> p \in Proc /\ SnapsKnown /\ CopiesUnknown /\ DistinctFiles /\ CopiesHidden
  BY DEF OutcomeInv, FilesInv, DiskInv
<1>1. ops[o].status = "started"
  <2>1. ops[o].status # "none"
    <3>1. CASE placed[o] # NONE
      BY Zenon, <3>1, RecordFacts
    <3>2. ASSUME NEW q \in Proc, Renames(q) \/ Publishes(q), o = work[q].op PROVE ops[o].status # "none"
      BY <3>2, RecordFacts DEF Renames, Publishes
    <3> QED
      BY <3>1, <3>2, PlacedSnaps
  <2> QED
    BY <2>1, RowFileKept
<1>2. CASE placed[o] # NONE
  <2>1. placed'[o].dst = placed[o].dst /\ placed'[o].snap = placed[o].snap
    BY <1>2, PlacedStep DEF PlacedKept
  <2>2. placed[o].snap # NONE /\ placed[o].snap.id \in 0..serial
    BY <1>2, RecordFacts DEF SnapsKnown
  <2>3. disk[x] = placed[o].snap
    <3>1. CASE \A y \in Path : disk'[y] \in {disk[y], NONE}
      BY <2>1, <2>2, <3>1
    <3>2. CASE UserEffect
      BY <2>1, <2>2, <3>2, UserFresh
    <3>3. CASE Renames(p)
      <4>1. work[p].pc = "rename" /\ disk'[x] \in {disk[x], NONE, ops[work[p].op].snap}
        BY <3>3 DEF Renames
      <4>2. phase[p] = "running" /\ ops[work[p].op].snap = disk[ops[work[p].op].src]
            /\ ops[work[p].op].src \in Path
        BY <4>1, HolderFacts, RecordFacts DEF Holding
      <4>3. \A y \in Path : disk[y] # placed[o].snap
        BY <1>1, <1>2, <4>1, <4>2 DEF Tended
      <4> QED
        BY <2>1, <2>2, <4>1, <4>2, <4>3
    <3>4. CASE Publishes(p)
      <4>1. work[p].pc = "publish" /\ disk'[x] \in {disk[x], NONE, work[p].snap}
        BY <3>4 DEF Publishes
      <4>2. placed[o].snap # work[p].snap
        BY <1>2, <4>1 DEF CopiesUnknown
      <4> QED
        BY <2>1, <2>2, <4>1, <4>2
    <3> QED
      BY <3>1, <3>2, <3>3, <3>4, DiskStep
  <2>4. placed[o].dst = x
    BY <1>1, <1>2, <2>3 DEF Tended
  <2> QED
    BY <1>1, <1>2, <2>1, <2>3, <2>4
<1>3. CASE placed[o] = NONE
  <2>1. /\ o = work[p].op
        /\ \/ Renames(p) /\ placed'[o].snap = ops[o].snap
           \/ Publishes(p) /\ placed'[o].snap = work[p].snap
    BY <1>3, PlacedSnaps
  <2>2. placed'[o].dst = work[p].target
    BY <2>1 DEF Renames, Publishes, Places
  <2>3. CASE Renames(p)
    <3>1. /\ placed'[o].snap = ops[o].snap
          /\ disk'[ops[o].src] = NONE
          /\ \A y \in Path : y # ops[o].src /\ y # work[p].target => disk'[y] = disk[y]
      BY Zenon, <2>1, <2>3 DEF Renames, Places
    <3>2. /\ ops[o].snap = disk[ops[o].src] /\ ops[o].src \in Path /\ ops[o].snap # NONE
      BY <2>1, <2>3, HolderFacts DEF Renames, Holding
    <3>3. x = work[p].target
      BY <3>1, <3>2 DEF DistinctFiles
    <3> QED
      BY Zenon, <1>1, <2>1, <2>2, <3>3
  <2>4. CASE Publishes(p)
    <3>1. /\ placed'[o].snap = work[p].snap /\ work[p].pc = "publish"
          /\ \A y \in Path : y # work[p].target => disk'[y] = disk[y]
      BY <2>1, <2>4 DEF Publishes, Places
    <3>2. work[p].snap # NONE
      BY <3>1, RecordFacts
    <3>3. x = work[p].target
      BY <3>1, <3>2 DEF CopiesHidden
    <3> QED
      BY <1>1, <2>1, <2>2, <3>3
  <2> QED
    BY <2>1, <2>3, <2>4
<1> QED
  BY <1>2, <1>3

LEMMA TendedStep ==
  ASSUME NEW p, Proc = {p}, MoveInv, FilesInv, OutcomeInv, Calm(p), [Next]_vars, used'.faults = 0
  PROVE  Tended(p)'
<1> p \in Proc /\ WorkGone /\ Tended(p) /\ OwnersGone(p) /\ LookedAt(p)
  BY DEF OutcomeInv, Calm
<1> SUFFICES ASSUME NEW o \in Op, NEW x \in Path,
                    ops'[o].status = "started", placed'[o] # NONE, disk'[x] = placed'[o].snap
    PROVE  /\ x = placed'[o].dst
           /\ phase'[p] = "running" => work'[p].op = o /\ work'[p].pc \in {"delete", "exempt", "finish"}
           /\ phase'[p] = "starting" => o \in rec'[p].todo \/ (rec'[p].op = o /\ rec'[p].verdict # "fail")
  BY DEF Tended
<1>0. ops[o].status = "started" /\ x = placed'[o].dst
  BY TendedFrom
<1>1. CASE (Renames(p) \/ Publishes(p)) /\ o = work[p].op
  <2>1. work[p].pc # "idle" /\ phase' = phase /\ work'[p].op = o
        /\ work'[p].pc \in {"delete", "exempt", "finish"}
    BY <1>1 DEF Renames, Publishes, MoveFrame, Arrives
  <2>2. phase[p] = "running"
    BY <2>1, RecordFacts
  <2> QED
    BY <1>0, <2>1, <2>2
<1>2. CASE /\ placed[o] # NONE /\ placed[o].dst = x
           /\ placed[o].snap = placed'[o].snap /\ disk[x] = placed[o].snap
  <2>0. /\ phase[p] = "running" => work[p].op = o /\ work[p].pc \in {"delete", "exempt", "finish"}
        /\ phase[p] = "starting" => o \in rec[p].todo \/ (rec[p].op = o /\ rec[p].verdict # "fail")
    BY <1>0, <1>2 DEF Tended
  <2>1. CASE UNCHANGED vars \/ UserEffect
    <3>1. UNCHANGED <<phase, work, rec>>
      BY <2>1 DEF vars, UserEffect
    <3> QED
      BY <1>0, <2>0, <3>1
  <2>2. CASE Crashes(p)
    BY <1>0, <2>2 DEF Crashes
  <2>3. CASE phase[p] = "down" /\ Starts(p)
    BY <1>0, <2>3 DEF Starts
  <2>4. CASE phase[p] = "running" /\ Works(p)
    <3>1. phase' = phase /\ work[p].op = o /\ work[p].pc \in {"delete", "exempt", "finish"}
      BY <2>0, <2>4, PhaseStays
    <3>2. CASE Deletes(p) \/ Exempts(p)
      BY <1>0, <2>4, <3>1, <3>2 DEF Deletes, Exempts, Arrives, MoveFrame
    <3>3. CASE Notices(p) \/ Passes(p) \/ Drops(p) \/ \E a \in Op : Inserts(p, a)
      <4>1. work' = work
        BY <3>3 DEF Notices, Passes, Drops, Inserts, ThreadFrame
      <4> QED
        BY <1>0, <2>4, <3>1, <4>1
    <3>4. CASE Finishes(p)
      <4>1. RowCloses(o, work[p].result, work[p].target, work[p].snap)
        BY <3>1, <3>4, AloneStep DEF Finishes
      <4> QED
        BY <4>1 DEF RowCloses, Terminal
    <3>5. CASE GoesOn(p) \/ Renames(p) \/ Copies(p) \/ Publishes(p) \/ Takes(p) \/ Releases(p)
      BY <3>1, <3>5 DEF GoesOn, Renames, Copies, Publishes, Takes, Releases
    <3> QED
      BY <2>4, <3>2, <3>3, <3>4, <3>5 DEF Works
  <2>5. CASE phase[p] = "starting" /\ Recovers(p)
    <3>0. /\ o \in rec[p].todo \/ (rec[p].op = o /\ rec[p].verdict # "fail")
          /\ used.faults = 0 /\ o # NONE
      BY <2>0, <2>5, AloneStep, MoveAssumption
    <3>1. CASE Picks(p)
      <4>1. /\ rec[p].op = NONE /\ rec'[p].verdict = "none" /\ phase' = phase
            /\ \E a \in rec[p].todo : /\ rec'[p].todo = rec[p].todo \ {a}
                                      /\ rec'[p].op = IF ops[a].owner = NONE THEN a ELSE NONE
        BY <3>1 DEF Picks, RecFrame
      <4>2. ops[o].owner = NONE
        BY <1>0, <2>5 DEF OwnersGone
      <4> QED
        BY <1>0, <2>5, <3>0, <4>1, <4>2
    <3>2. CASE Looks(p)
      <4>1. /\ rec'[p].op = rec[p].op /\ rec'[p].todo = rec[p].todo /\ phase' = phase
            /\ rec'[p].verdict = Verdict(rec[p].op)
        BY <3>2 DEF Looks, RecFrame
      <4>2. Verdict(o) # "fail"
        BY <1>0, <1>2, PlacedJournal DEF Verdict
      <4> QED
        BY <1>0, <2>5, <3>0, <4>1, <4>2
    <3>3. CASE RemovesCopy(p)
      <4>1. /\ phase' = phase /\ rec'[p].todo = rec[p].todo
        BY <3>3 DEF RemovesCopy, RecFrame, RecFails, RecOver
      <4>2. CASE o \in rec[p].todo
        BY <1>0, <2>5, <4>1, <4>2
      <4>3. CASE o \notin rec[p].todo
        <5>1. rec[p].op = o /\ rec[p].verdict = "rollback"
          BY <3>0, <3>3, <4>3 DEF RemovesCopy
        <5>2. rec[p].dst = x /\ rec[p].snap = placed[o].snap
          BY <1>0, <1>2, <2>5, <5>1, PlacedJournal DEF LookedAt
        <5>3. disk'[x] # NONE
          BY <1>2, RecordFacts
        <5>4. ~Held(x)
          BY <2>5, <3>0, AloneFacts
        <5> QED
          BY <1>2, <3>0, <3>3, <5>2, <5>3, <5>4 DEF RemovesCopy, FaultsSame
      <4> QED
        BY <4>2, <4>3
    <3>4. CASE Closes(p)
      <4>1. /\ phase' = phase /\ rec'[p].todo = rec[p].todo
            /\ \/ ops[rec[p].op].status # "started"
               \/ \E st, dst, snap : RowCloses(rec[p].op, st, dst, snap)
        BY <2>5, <3>0, <3>4 DEF Closes, RecFrame, RecFails, RecOver
      <4>2. rec[p].op # o
        BY <1>0, <4>1 DEF RowCloses, Terminal
      <4> QED
        BY <1>0, <2>5, <3>0, <4>1, <4>2
    <3>5. CASE Readies(p)
      BY <3>0, <3>5 DEF Readies
    <3> QED
      BY <2>5, <3>1, <3>2, <3>3, <3>4, <3>5 DEF Recovers
  <2> QED
    BY <2>1, <2>2, <2>3, <2>4, <2>5, AloneStep
<1> QED
  BY <1>1, <1>2, TendedFrom

\* A file that belongs to an unfinished copy is the business of the running worker.
LEMMA CopyTended ==
  ASSUME NEW p, Proc = {p}, MoveInv, Calm(p), used.faults = 0, phase[p] = "running",
         NEW o \in Op, NEW x, NEW y, CopyOf(o, x, y)
  PROVE  work[p].op = o /\ work[p].pc \in {"delete", "exempt", "finish"}
<1>1. placed[o].dst \in Path
  BY RecordFacts DEF CopyOf
<1> QED
  BY <1>1 DEF Calm, Tended, CopyOf

\* The row of a copy is not closed while both files are there.
LEMMA CopyStays ==
  ASSUME NEW p, Proc = {p}, MoveInv, FilesInv, OutcomeInv, Calm(p), [Next]_vars, used'.faults = 0,
         NEW o \in Op, NEW x, NEW y, CopyOf(o, x, y)
  PROVE  ops'[o].status = "started" /\ ops'[o].src = ops[o].src /\ ops'[o].snap = ops[o].snap
<1> p \in Proc /\ WorkGone /\ Tended(p) /\ LookedAt(p)
  BY DEF OutcomeInv, Calm
<1>1. /\ ops[o].status = "started" /\ placed[o] # NONE /\ ~placed[o].gone
      /\ disk[placed[o].dst] = placed[o].snap /\ disk[ops[o].src] = ops[o].snap
      /\ placed[o].dst \in Path
  BY RecordFacts DEF CopyOf
<1>2. ops'[o].src = ops[o].src /\ ops'[o].snap = ops[o].snap
  BY <1>1, RowFileKept
<1>3. ASSUME ops'[o].status # "started" PROVE FALSE
  <2>0. used.faults = 0
    BY AloneStep
  <2>1. CASE Finishes(p) /\ o = work[p].op
    <3>1. work[p].pc = "finish"
      BY <2>1 DEF Finishes
    <3>2. work[p].result # "completed"
      BY <1>1, <2>1, <3>1 DEF WorkGone
    <3>3. placed[o] = NONE \/ used.faults >= 1
      BY <2>1, <3>1, <3>2 DEF WorkGone
    <3> QED
      BY <1>1, <2>0, <3>3
  <2>2. ASSUME Closes(p), o = rec[p].op PROVE FALSE
    <3>0. rec[p].op # NONE /\ rec[p].verdict \in {"fail", "complete"}
      BY <2>2 DEF Closes
    <3>1. phase[p] = "starting"
      <4>1. phase[p] \in {"down", "starting", "running"}
        BY DEF MoveInv, TypeInv, TypeOK
      <4>2. phase[p] # "down"
        BY <3>0 DEF MoveInv, TypeInv, Filled, Quiet, NoRec
      <4>3. phase[p] # "running"
        BY <2>0, <3>0, AloneFacts
      <4> QED
        BY <4>1, <4>2, <4>3
    <3>2. o \notin rec[p].todo /\ rec[p].verdict # "complete"
      BY <1>1, <2>2, <3>0, <3>1 DEF LookedAt
    <3> QED
      BY <1>1, <2>2, <3>0, <3>1, <3>2 DEF Tended
  <2> QED
    BY <1>1, <1>3, <2>1, <2>2, RowsClosed
<1> QED
  BY <1>2, <1>3

LEMMA DuplicatesKnownStep ==
  ASSUME NEW p, Proc = {p}, MoveInv, FilesInv, OutcomeInv, Calm(p), [Next]_vars, used'.faults = 0
  PROVE  DuplicatesKnown'
<1> p \in Proc /\ SnapsKnown /\ DuplicatesKnown /\ Tended(p) /\ used.faults = 0 /\ WorkGone
  BY AloneStep DEF OutcomeInv, Calm
<1> SUFFICES ASSUME NEW x \in Path, NEW y \in Path, x # y, disk'[x] # NONE, disk'[y] # NONE,
                    disk'[x].doc = disk'[y].doc
    PROVE  \E o \in Op : CopyOf(o, x, y)'
  BY DEF DuplicatesKnown
\* Where both files were before, they were those of a copy.
<1>1. ASSUME disk[x] = disk'[x], disk[y] = disk'[y], placed' = placed
      PROVE  \E o \in Op : CopyOf(o, x, y)'
  <2>1. PICK o \in Op : CopyOf(o, x, y)
    BY <1>1 DEF DuplicatesKnown
  <2>2. ops'[o].status = "started" /\ ops'[o].src = ops[o].src /\ ops'[o].snap = ops[o].snap
    BY <2>1, CopyStays
  <2>3. placed[o].dst \in {x, y} /\ ops[o].src \in {x, y}
    BY <2>1 DEF CopyOf
  <2>4. CopyOf(o, x, y)'
    BY <1>1, <2>1, <2>2, <2>3 DEF CopyOf
  <2> QED
    BY <2>4
\* While a request is before its move there are none.
<1>2. ASSUME phase[p] = "running", work[p].pc \in {"rename", "publish"},
             NEW u \in Path, NEW v \in Path, u # v, disk[u] # NONE, disk[v] # NONE
      PROVE  disk[u].doc # disk[v].doc
  <2>1. ASSUME disk[u].doc = disk[v].doc PROVE FALSE
    <3>1. PICK o \in Op : CopyOf(o, u, v)
      BY <1>2, <2>1 DEF DuplicatesKnown
    <3> QED
      BY <1>2, <3>1, CopyTended
  <2> QED
    BY <2>1
<1>3. CASE UserEffect
  <2>1. PICK z \in Path : \A u \in Path :
           \/ disk'[u] \in {disk[u], NONE}
           \/ u = z /\ disk'[u].doc \notin 0..serial
    BY <1>3, UserFresh
  <2>2. \A u \in Path : disk[u] # NONE => disk[u].doc \in 0..serial
    BY DEF SnapsKnown
  <2>3. disk'[x] = disk[x] /\ disk'[y] = disk[y]
    BY <2>1, <2>2
  <2> QED
    BY <1>1, <1>3, <2>3 DEF UserEffect
<1>4. CASE Renames(p)
  <2> DEFINE src == ops[work[p].op].src
             t == work[p].target
  <2>1. work[p].pc = "rename" /\ phase[p] = "running"
    BY <1>4, RecordFacts DEF Renames
  <2>2. src \in Path /\ disk[src] # NONE /\ disk[src] = ops[work[p].op].snap
    BY <2>1, HolderFacts DEF Holding
  <2>3. /\ disk'[src] = NONE /\ disk'[t] = disk[src]
        /\ \A u \in Path : u # src /\ u # t => disk'[u] = disk[u]
    BY <1>4, <2>2 DEF Renames
  <2> HIDE DEF src, t
  <2> DEFINE from(u) == IF u = t THEN src ELSE u
  <2>4. /\ from(x) \in Path /\ from(y) \in Path /\ from(x) # from(y)
        /\ disk'[x] = disk[from(x)] /\ disk'[y] = disk[from(y)]
    BY <2>2, <2>3
  <2> HIDE DEF from
  <2> QED
    BY <1>2, <2>1, <2>4
<1>5. CASE Publishes(p)
  <2>0. PICK o, t : o = work[p].op /\ t = work[p].target
    OBVIOUS
  <2>1. work[p].pc = "publish" /\ phase[p] = "running" /\ ops' = ops
    BY <1>5, RecordFacts DEF Publishes, MoveFrame
  <2>2. /\ o \in Op /\ ops[o].src \in Path /\ disk[ops[o].src] # NONE /\ disk[ops[o].src] = ops[o].snap
        /\ work[p].snap.doc = disk[ops[o].src].doc /\ t # ops[o].src
    BY <2>0, <2>1, HolderFacts DEF Holding
  <2>3. /\ disk'[t] = work[p].snap /\ \A u \in Path : u # t => disk'[u] = disk[u]
        /\ placed'[o] # NONE /\ placed'[o].dst = t /\ placed'[o].snap = work[p].snap /\ ~placed'[o].gone
    BY <1>5, <2>0 DEF Publishes, Places
  <2>4. ops[o].status = "started"
    BY <2>0, <2>1 DEF MoveInv, Owned, RequestsStarted
  <2>5. {x, y} = {t, ops[o].src}
    <3>1. ASSUME x # t, y # t PROVE FALSE
      BY <1>2, <2>1, <2>3, <3>1
    <3>2. ASSUME NEW z \in Path, z # t, disk'[z] # NONE, disk'[z].doc = disk'[t].doc PROVE z = ops[o].src
      BY <1>2, <2>1, <2>2, <2>3, <3>2
    <3> QED
      BY <3>1, <3>2
  <2>6. CopyOf(o, x, y)'
    BY <2>1, <2>2, <2>3, <2>4, <2>5 DEF CopyOf
  <2> QED
    BY <2>2, <2>6
<1>6. CASE Deletes(p)
  <2> DEFINE o == work[p].op
  <2>1. work[p].pc = "delete" /\ phase[p] = "running"
    BY <1>6, RecordFacts DEF Deletes
  <2>2. o \in Op /\ ops[o].src \in Path
    BY <2>1, HolderFacts DEF Holding
  <2>3. disk'[ops[o].src] = NONE /\ \A u \in Path : u # ops[o].src => disk'[u] = disk[u]
    BY <1>6 DEF Deletes
  <2>4. x # ops[o].src /\ y # ops[o].src /\ disk'[x] = disk[x] /\ disk'[y] = disk[y]
    BY <2>3
  <2>5. PICK a \in Op : CopyOf(a, x, y)
    BY <2>4 DEF DuplicatesKnown
  <2>6. a = o
    BY <2>1, <2>5, CopyTended
  <2> QED
    BY <2>4, <2>5, <2>6 DEF CopyOf
<1>7. ASSUME ~UserEffect, ~Renames(p), ~Publishes(p), ~Deletes(p) PROVE \E o \in Op : CopyOf(o, x, y)'
  <2>1. placed' = placed
    BY <1>7, PlacedStep
  <2>2. \A u \in Path : disk'[u] \in {disk[u], NONE}
    BY <1>7, DiskStep
  <2> QED
    BY <1>1, <2>1, <2>2
<1> QED
  BY <1>3, <1>4, <1>5, <1>6, <1>7

LEMMA CalmInit == ASSUME NEW p, Proc = {p}, Init PROVE CalmInv(p)
<1>1. /\ \A x \in Path : disk[x] = NONE
      /\ \A o \in Op : placed[o] = NONE /\ ops[o].status = "none"
      /\ phase[p] = "down"
  BY DEF Init, NoRow
<1> QED
  BY <1>1 DEF CalmInv, Calm, Tended, OwnersGone, DuplicatesKnown, LookedAt

LEMMA CalmStep ==
  ASSUME NEW p, Proc = {p}, MoveInv, FilesInv, OutcomeInv, CalmInv(p), [Next]_vars
  PROVE  CalmInv(p)'
<1> SUFFICES ASSUME used'.faults = 0 PROVE Calm(p)'
  BY DEF CalmInv
<1>1. WorkGone
  BY DEF OutcomeInv
<1>2. Calm(p)
  BY <1>1, AloneStep DEF CalmInv
<1>3. OwnersGone(p) /\ LookedAt(p)
  BY <1>2 DEF Calm
<1>4. OwnersGone(p)' /\ LookedAt(p)'
  BY <1>1, <1>3, OwnersGoneStep, LookedAtStep
<1>5. Tended(p)' /\ DuplicatesKnown'
  BY <1>2, TendedStep, DuplicatesKnownStep
<1> QED
  BY <1>4, <1>5 DEF Calm

LEMMA CalmInvariant ==
  ASSUME NEW p, Proc = {p}
  PROVE  Spec => [](MoveInv /\ FilesInv /\ OutcomeInv /\ CalmInv(p))
<1>1. Init => MoveInv /\ FilesInv /\ OutcomeInv /\ CalmInv(p)
  BY MoveInvInit, FilesInit, OutcomeInit, CalmInit
<1>2. MoveInv /\ FilesInv /\ OutcomeInv /\ CalmInv(p) /\ [Next]_vars =>
        MoveInv' /\ FilesInv' /\ OutcomeInv' /\ CalmInv(p)'
  BY MoveInvStep, FilesStep, OutcomeStep, CalmStep
<1> QED
  BY <1>1, <1>2, PTL DEF Spec

\* With one instance and without faults, however often it dies and is started
\* again, a document is on two paths only while the row of the operation that
\* has copied it is still started: no reconciliation closes the row of a copy
\* whose source it has not seen gone (organizer_operation_actions.rs, 596-650).
THEOREM MoveNoLastingDuplicate ==
  ASSUME NEW p, Proc = {p}
  PROVE  Spec => []NoLastingDuplicate
<1>1. CalmInv(p) => NoLastingDuplicate
  <2> SUFFICES ASSUME used.faults = 0, DuplicatesKnown,
                      NEW x \in Path, NEW y \in Path, x # y, disk[x] # NONE, disk[y] # NONE,
                      disk[x].doc = disk[y].doc
      PROVE  \E o \in Op : /\ ops[o].status = "started"
                           /\ placed[o] # NONE
                           /\ placed[o].dst \in {x, y}
    BY DEF CalmInv, Calm, NoLastingDuplicate
  <2>1. PICK o \in Op : CopyOf(o, x, y)
    BY DEF DuplicatesKnown
  <2> QED
    BY <2>1 DEF CopyOf
<1> QED
  BY <1>1, CalmInvariant, PTL

----------------------------------------------------------------------------
(* What an undo puts back, and where.                                      *)

\* A row in use keeps its outcome, unless it is closed.
LEMMA RowsStep ==
  ASSUME MoveInv, FilesInv, [Next]_vars, NEW o \in Op, ops[o].status # "none"
  PROVE  \/ ClosedBy(o)
         \/ /\ ops'[o].status = ops[o].status /\ ops'[o].dst = ops[o].dst
            /\ ops'[o].after = ops[o].after
<1> DEFINE Keeps == /\ ops'[o].status = ops[o].status /\ ops'[o].dst = ops[o].dst
                    /\ ops'[o].after = ops[o].after
<1>1. CASE ops' = ops
  BY <1>1
<1>2. ASSUME ops' # ops PROVE ClosedBy(o) \/ Keeps
  <2>1. PICK p \in Proc : Effect(p)
    BY <1>2, StepEffect DEF vars, dbVars, UserEffect
  <2>2. ~(\/ GoesOn(p) \/ Renames(p) \/ Copies(p) \/ Publishes(p) \/ Deletes(p) \/ KeepsSource(p)
          \/ Exempts(p) \/ Takes(p) \/ Releases(p) \/ Panics(p) \/ Picks(p) \/ Looks(p)
          \/ RemovesCopy(p) \/ Starts(p) \/ Readies(p) \/ Notices(p) \/ Passes(p) \/ Drops(p))
    BY <1>2 DEF GoesOn, Renames, Copies, Publishes, Deletes, KeepsSource, Exempts, MoveFrame,
       Takes, Releases, Panics, Picks, Looks, RemovesCopy, Starts, Readies, Notices, Passes, Drops
  <2>3. CASE Crashes(p)
    BY <2>3 DEF Crashes
  <2>4. CASE \E a \in Op : Inserts(p, a)
    <3>1. ops'[o] = ops[o]
      BY <2>4 DEF Inserts, NewRow
    <3> QED
      BY <3>1
  <2>5. ASSUME NEW a, NEW st, NEW dst, NEW snap, RowCloses(a, st, dst, snap), a # o PROVE Keeps
    BY <2>5 DEF RowCloses
  <2>6. CASE Finishes(p)
    <3>1. RowCloses(work[p].op, work[p].result, work[p].target, work[p].snap)
      BY <1>2, <2>6 DEF Finishes
    <3> QED
      BY <2>5, <2>6, <3>1 DEF ClosedBy
  <2>7. CASE Closes(p)
    <3>1. \/ /\ rec[p].verdict = "complete"
             /\ RowCloses(rec[p].op, "completed", rec[p].dst, rec[p].snap)
          \/ rec[p].verdict = "fail" /\ RowCloses(rec[p].op, "failed", NONE, NONE)
      BY <1>2, <2>7 DEF Closes
    <3> QED
      BY <2>5, <2>7, <3>1 DEF ClosedBy
  <2> QED
    BY <2>1, <2>2, <2>3, <2>4, <2>6, <2>7 DEF Effect
<1> QED
  BY <1>1, <1>2

\* A journal row is written for the request that is about to move its file.
LEMMA JournalStep ==
  ASSUME MoveInv, FilesInv, [Next]_vars, NEW o \in Op
  PROVE  \/ journal'[o] \in {journal[o], NONE}
         \/ \E p \in Proc : /\ GoesOn(p) \/ Copies(p)
                            /\ o = work[p].op /\ journal'[o].dst = work'[p].target
<1>1. CASE UNCHANGED vars \/ UserEffect
  BY <1>1 DEF vars, dbVars, UserEffect
<1>2. ASSUME NEW p \in Proc, Effect(p)
      PROVE  \/ journal'[o] \in {journal[o], NONE}
             \/ \E q \in Proc : /\ GoesOn(q) \/ Copies(q)
                                /\ o = work[q].op /\ journal'[o].dst = work'[q].target
  <2>1. CASE GoesOn(p) \/ Copies(p)
    BY <2>1 DEF GoesOn, Copies
  <2>2. CASE Finishes(p) \/ Closes(p)
    <3>1. journal' = journal \/ \E a, st, dst, snap : RowCloses(a, st, dst, snap)
      BY <2>2 DEF Finishes, Closes
    <3> QED
      BY <3>1 DEF RowCloses
  <2>3. CASE Readies(p)
    BY Zenon, <2>3 DEF Readies
  <2>4. ASSUME ~(GoesOn(p) \/ Copies(p)), ~(Finishes(p) \/ Closes(p)), ~Readies(p)
        PROVE  journal' = journal
    BY Zenon, <1>2, <2>4 DEF Effect, Renames, Publishes, Deletes, KeepsSource, Exempts, Takes, Releases, Panics,
       Picks, Looks, RemovesCopy, Starts, Crashes, Notices, Passes, Drops, Inserts, ThreadFrame
  <2> QED
    BY Zenon, <2>1, <2>2, <2>3, <2>4
<1> QED
  BY <1>1, <1>2, StepEffect

\* The row of an undo keeps the path it restores.
LEMMA UndoKept ==
  ASSUME MoveInv, FilesInv, UndoTarget, UndoPaths, [Next]_vars, NEW o \in Op, ops[o].status # "none",
         ops[o].kind = "undo"
  PROVE  ops'[o].dst = ops[o].dst
<1>1. ASSUME NEW p \in Proc, Finishes(p), o = work[p].op,
             RowCloses(o, work[p].result, work[p].target, work[p].snap)
      PROVE  ops'[o].dst = ops[o].dst
  BY <1>1 DEF RowCloses, Finishes, UndoTarget
<1>2. ASSUME NEW p \in Proc, Closes(p), o = rec[p].op, rec[p].verdict = "complete",
             RowCloses(o, "completed", rec[p].dst, rec[p].snap)
      PROVE  ops'[o].dst = ops[o].dst
  BY <1>2 DEF RowCloses, UndoPaths
<1>3. ASSUME RowCloses(o, "failed", NONE, NONE) PROVE ops'[o].dst = ops[o].dst
  BY <1>3 DEF RowCloses
<1> QED
  BY <1>1, <1>2, <1>3, RowsStep DEF ClosedBy

LEMMA UndoRowsStep ==
  ASSUME MoveInv, FilesInv, UndoTarget, UndoPaths, [Next]_vars, NEW o \in Op
  PROVE  /\ ops'[o].status # "none" /\ ops'[o].kind = "undo" =>
              ops'[o].dst \in Watched /\ (journal'[o] # NONE => journal'[o].dst = ops'[o].dst)
         /\ ops'[o].status = "none" => journal'[o] = NONE
         /\ ops'[o].status = "started" /\ ops'[o].kind # "undo" => ops'[o].dst \notin Watched
<1>1. ASSUME ops[o].status = "none", ops'[o].status # "none"
      PROVE  /\ ops'[o].kind = "undo" => ops'[o].dst \in Watched /\ journal'[o] = NONE
             /\ ops'[o].kind # "undo" => ops'[o].dst \notin Watched
  <2>1. PICK p \in Proc, a \in Op : Inserts(p, a)
    BY <1>1, ColumnsStep DEF ColumnsSame
  <2>2. a = o
    BY <1>1, <2>1 DEF Inserts, NewRow
  <2>3. journal'[o] = NONE
    BY <1>1, <2>1 DEF Inserts, ThreadFrame, UndoPaths
  <2> QED
    BY <2>1, <2>2, <2>3, MoveAssumption DEF Inserts
<1>2. ASSUME NEW p \in Proc, GoesOn(p) \/ Copies(p), o = work[p].op
      PROVE  /\ ops[o].status # "none"
             /\ ops[o].kind = "undo" => work'[p].target = ops[o].dst
  <2>1. work[p].pc \notin {"idle", "recover"}
    BY <1>2 DEF GoesOn, Copies
  <2>2. ops[o].status # "none"
    BY <1>2, <2>1, RecordFacts
  <2>3. ops[o].kind = "undo" => work'[p].target = work[p].target
    BY <1>2 DEF GoesOn, Copies
  <2> QED
    BY <1>2, <2>1, <2>2, <2>3 DEF UndoTarget
<1>3. CASE ops[o].status # "none"
  <2>1. ops'[o].kind = ops[o].kind /\ ops'[o].status # "none"
        /\ (ops'[o].status = "started" => ops[o].status = "started")
    BY <1>3, RowFileKept
  <2>2. ASSUME ops[o].kind = "undo"
        PROVE  ops'[o].dst \in Watched /\ (journal'[o] # NONE => journal'[o].dst = ops'[o].dst)
    <3>1. ops'[o].dst = ops[o].dst
      BY <1>3, <2>2, UndoKept
    <3> QED
      BY <1>2, <1>3, <2>2, <3>1, JournalStep DEF UndoPaths
  <2>3. ASSUME ops[o].kind # "undo", ops'[o].status = "started" PROVE ops'[o].dst \notin Watched
    <3>1. ~ClosedBy(o)
      BY <2>3 DEF ClosedBy, RowCloses, Terminal
    <3> QED
      BY <1>3, <2>1, <2>3, <3>1, RowsStep DEF UndoPaths
  <2> QED
    BY <2>1, <2>2, <2>3
<1>4. CASE ops[o].status = "none"
  <2>1. journal'[o] = NONE
    BY <1>2, <1>4, JournalStep DEF UndoPaths
  <2> QED
    BY <1>1, <1>4, <2>1
<1> QED
  BY <1>3, <1>4

\* A request that is taken up is started, and its file is nowhere else yet.
LEMMA TakenStarted ==
  ASSUME MoveInv, NEW p \in Proc, Takes(p)
  PROVE  work'[p].op \in Op /\ ops[work'[p].op].status = "started"
<1>1. work'[p].op \in Requests(p) /\ work[p].pc = "idle"
  BY DEF Takes
<1> QED
  BY <1>1, RequestFacts DEF Requests, MoveInv, Owned, RequestsStarted

LEMMA UndoPathsStep ==
  ASSUME MoveInv, FilesInv, UndoTarget, UndoPaths, [Next]_vars
  PROVE  UndoPaths'
<1>1. ASSUME NEW p \in Proc, work'[p].pc # "idle", ops'[work'[p].op].kind # "undo"
      PROVE  work'[p].target \notin Watched
  <2>1. CASE work'[p] = work[p]
    BY <1>1, <2>1, RecordFacts, RowFileKept DEF UndoPaths
  <2>2. CASE GoesOn(p)
    <3>1. ops' = ops /\ work'[p].op = work[p].op /\ work[p].pc # "idle"
          /\ (work'[p].target = work[p].target \/ work'[p].target \in Spare)
      BY <2>2 DEF GoesOn, MoveFrame
    <3> QED
      BY <1>1, <3>1, MoveAssumption DEF UndoPaths
  <2>3. CASE \/ Renames(p) \/ Copies(p) \/ Publishes(p) \/ Deletes(p) \/ KeepsSource(p) \/ Exempts(p)
             \/ Finishes(p) \/ Panics(p)
    <3>1. work'[p].op = work[p].op /\ work[p].pc # "idle" /\ work'[p].target = work[p].target
      BY <2>3 DEF Renames, Copies, Publishes, Deletes, KeepsSource, Exempts, Finishes, Panics, MoveFrame,
         Arrives
    <3>2. ops'[work[p].op].kind = ops[work[p].op].kind
      BY <3>1, RecordFacts, RowFileKept
    <3> QED
      BY Zenon, <1>1, <3>1, <3>2 DEF UndoPaths
  <2>4. CASE Takes(p)
    <3>1. ops' = ops /\ work'[p].target = ops[work'[p].op].dst
      BY <2>4 DEF Takes
    <3> QED
      BY <1>1, <2>4, <3>1, TakenStarted DEF UndoPaths
  <2> QED
    BY <1>1, <2>1, <2>2, <2>3, <2>4, WorkStep DEF WorkEffect
<1>2. ASSUME NEW p \in Proc, rec'[p].verdict \in {"rollback", "complete"}, ops'[rec'[p].op].kind = "undo"
      PROVE  rec'[p].dst = ops'[rec'[p].op].dst
  <2>0. rec'[p].op # NONE
    <3>1. MoveInv'
      BY MoveInvStep
    <3> QED
      BY <1>2, <3>1 DEF MoveInv, TypeInv, Filled, RecFilled
  <2>1. CASE rec'[p] = rec[p]
    <3>1. rec[p].op \in Op /\ ops[rec[p].op].status # "none"
      BY <2>0, <2>1, RecordFacts
    <3>2. ops[rec[p].op].kind = "undo" /\ ops'[rec[p].op].dst = ops[rec[p].op].dst
      BY <1>2, <2>1, <3>1, RowFileKept, UndoKept
    <3> QED
      BY <1>2, <2>1, <3>2 DEF UndoPaths
  <2>2. CASE Looks(p)
    <3>1. /\ ops' = ops /\ rec'[p].op = rec[p].op /\ rec[p].op # NONE
          /\ rec'[p].verdict = Verdict(rec[p].op)
          /\ journal[rec[p].op] # NONE => rec'[p].dst = journal[rec[p].op].dst
      BY <2>2 DEF Looks
    <3>2. journal[rec[p].op] # NONE
      BY <1>2, <3>1 DEF Verdict
    <3>3. rec[p].op \in Op /\ ops[rec[p].op].status # "none"
      BY <3>1, RecordFacts
    <3> QED
      BY <1>2, <3>1, <3>2, <3>3 DEF UndoPaths
  <2>3. ~Panics(p) /\ ~Picks(p) /\ ~RemovesCopy(p) /\ ~Closes(p)
    BY <1>2 DEF Panics, Picks, RemovesCopy, Closes, RecFails, RecOver
  <2> QED
    BY <2>0, <2>1, <2>2, <2>3, RecStep DEF RecEffect
<1> QED
  BY <1>1, <1>2, UndoRowsStep DEF UndoPaths

LEMMA UndoPathsInit == Init => UndoPaths
<1> SUFFICES ASSUME Init PROVE UndoPaths
  OBVIOUS
<1>1. /\ \A o \in Op : journal[o] = NONE /\ ops[o].status = "none"
      /\ \A p \in Proc : work[p].pc = "idle" /\ rec[p].verdict = "none"
  BY DEF Init, Idle, NoRec, NoRow
<1> QED
  BY <1>1 DEF UndoPaths

\* What has been restored was so before, or the row of its undo is being closed.
LEMMA RestoredBefore ==
  ASSUME MoveInv, FilesInv, [Next]_vars, NEW x, NEW s, Restored(x, s)'
  PROVE  \/ Restored(x, s)
         \/ \E u \in Op : /\ ClosedBy(u) /\ ops[u].kind = "undo"
                          /\ ops'[u].status = "completed" /\ ops'[u].dst = x /\ ops'[u].after = s
<1>1. PICK u \in Op : /\ ops'[u].kind = "undo" /\ ops'[u].status = "completed"
                      /\ ops'[u].dst = x /\ ops'[u].after = s
  BY DEF Restored
<1>2. ops[u].status # "none"
  <2>1. \A p \in Proc, o \in Op : Inserts(p, o) =>
          o # u /\ (ops[u].status = "none" => ops'[u].status = "none")
    BY <1>1 DEF Inserts, NewRow
  <2> QED
    BY <1>1, <2>1, ColumnsStep DEF ColumnsSame
<1>3. ops[u].kind = "undo"
  BY <1>1, <1>2, RowFileKept
<1> QED
  BY <1>1, <1>2, <1>3, RowsStep DEF Restored

\* No new file is one that was restored before.
LEMMA RestoredHere ==
  ASSUME MoveInv, FilesInv, SnapsKnown, [Next]_vars, NEW x \in Path, disk'[x] # NONE,
         Restored(x, disk'[x]), \A p \in Proc : ~Renames(p) /\ ~Publishes(p)
  PROVE  disk'[x] = disk[x]
<1>1. PICK s : s = disk'[x]
  OBVIOUS
<1>2. s.id \in 0..serial
  BY <1>1 DEF Restored, SnapsKnown
<1>3. CASE UserEffect
  BY <1>1, <1>2, <1>3, UserFresh
<1> QED
  BY <1>3, DiskStep

LEMMA RestoresFileStep ==
  ASSUME NEW p, Proc = {p}, MoveInv, FilesInv, OutcomeInv, RestoresFile(p), [Next]_vars, used'.faults = 0
  PROVE  RestoresFile(p)'
<1> p \in Proc /\ SnapsKnown /\ WorkGone
  BY DEF OutcomeInv
<1>0. used.faults \in Nat /\ used.faults = 0
  BY AloneStep, StepEffect DEF FaultsGrow
<1> SUFFICES ASSUME Restoring(p)', NEW t, NEW s, NEW d, t = work'[p].target, s = work'[p].snap,
                    d = disk'[t], d # NONE, d # s, Restored(t, d)'
    PROVE  FALSE
  BY DEF RestoresFile, Replaced, Restored
<1>1. work'[p].pc \in {"exempt", "delete", "finish"}
  BY DEF Restoring
<1>2. ASSUME work[p].pc # "idle", \A u \in Op : ~ClosedBy(u), disk'[t] = disk[t],
             Restoring(p), t = work[p].target, s = work[p].snap
      PROVE  FALSE
  <2>1. Restored(t, d)
    BY <1>2, RestoredBefore
  <2> QED
    BY <1>2, <2>1 DEF RestoresFile, Replaced
<1>3. CASE work'[p] = work[p]
  <2>1. work[p].pc # "idle" /\ t \in Path /\ phase[p] = "running" /\ rec[p].op = NONE
    BY <1>0, <1>1, <1>3, RecordFacts, AloneFacts
  <2>2. ~Finishes(p) /\ ~Closes(p) /\ ~Renames(p) /\ ~Publishes(p)
    BY <1>3, <2>1 DEF Finishes, Closes, Renames, Publishes, Arrives
  <2>3. \A u \in Op : ~ClosedBy(u)
    BY <2>2 DEF ClosedBy
  <2>4. Restoring(p)
    BY <1>3, <2>1, RecordFacts, RowFileKept DEF Restoring
  <2>5. Restored(t, d)
    BY <2>3, RestoredBefore
  <2>6. disk'[t] = disk[t]
    BY <2>1, <2>2, <2>5, RestoredHere
  <2> QED
    BY <1>2, <1>3, <2>1, <2>3, <2>4, <2>6
<1>4. CASE Renames(p) \/ Publishes(p)
  BY <1>4 DEF Renames, Publishes, Arrives
<1>5. CASE Deletes(p) \/ Exempts(p)
  <2>1. /\ work[p].pc \in {"delete", "exempt"} /\ work'[p].op = work[p].op
        /\ t = work[p].target /\ s = work[p].snap /\ ops' = ops
    BY <1>5 DEF Deletes, Exempts, MoveFrame, Arrives
  <2>2. Restoring(p)
    BY <1>5, <2>1 DEF Restoring, Deletes, Exempts, Arrives
  <2>3. disk'[t] = disk[t]
    <3>1. t \in Path
      BY <2>1, RecordFacts
    <3> QED
      BY <1>5, <3>1 DEF Deletes, Exempts, FilesSame
  <2>4. \A u \in Op : ~ClosedBy(u)
    BY <2>1 DEF ClosedBy, RowCloses, Terminal
  <2> QED
    BY <1>2, <2>1, <2>2, <2>3, <2>4
<1>6. CASE GoesOn(p)
  BY <1>1, <1>6 DEF GoesOn, Restoring
<1>7. ~(Copies(p) \/ Takes(p) \/ Finishes(p) \/ KeepsSource(p) \/ Panics(p))
  BY <1>0, <1>1 DEF Copies, Takes, Finishes, KeepsSource, Panics
<1> QED
  BY <1>1, <1>3, <1>4, <1>5, <1>6, <1>7, WorkStep DEF WorkEffect

LEMMA CompletesFileStep ==
  ASSUME NEW p, Proc = {p}, MoveInv, FilesInv, OutcomeInv, CompletesFile(p), [Next]_vars, used'.faults = 0
  PROVE  CompletesFile(p)'
<1> p \in Proc /\ SnapsKnown /\ WorkGone
  BY DEF OutcomeInv
<1>0. used.faults \in Nat /\ used.faults = 0
  BY AloneStep, StepEffect DEF FaultsGrow
<1> SUFFICES ASSUME rec'[p].verdict = "complete", NEW t, NEW s, NEW d, t = rec'[p].dst, s = rec'[p].snap,
                    d = disk'[t], d # NONE, d # s, Restored(t, d)'
    PROVE  FALSE
  BY DEF CompletesFile, Replaced, Restored
<1>1. rec'[p].op # NONE
  <2>1. MoveInv'
    BY MoveInvStep
  <2> QED
    BY <2>1 DEF MoveInv, TypeInv, Filled, RecFilled
<1>2. CASE rec'[p] = rec[p]
  <2>1. rec[p].op # NONE /\ t \in Path /\ work[p].pc = "idle"
    BY <1>0, <1>1, <1>2, RecordFacts, AloneFacts
  <2>2. ~Finishes(p) /\ ~Closes(p) /\ ~Renames(p) /\ ~Publishes(p)
    BY <1>0, <1>2, <2>1 DEF Finishes, Closes, RecOver, RecFails, Renames, Publishes
  <2>3. \A u \in Op : ~ClosedBy(u)
    BY <2>2 DEF ClosedBy
  <2>4. Restored(t, d)
    BY <2>3, RestoredBefore
  <2>5. disk'[t] = disk[t]
    BY <2>1, <2>2, <2>4, RestoredHere
  <2> QED
    BY <1>2, <2>4, <2>5 DEF CompletesFile, Replaced
<1>3. CASE Looks(p)
  <2>1. /\ disk' = disk /\ Verdict(rec[p].op) = "complete"
        /\ journal[rec[p].op] # NONE => t = journal[rec[p].op].dst /\ s = journal[rec[p].op].snap
    BY <1>3 DEF Looks, FilesSame
  <2> QED
    BY <2>1 DEF Verdict
<1>4. ~(Panics(p) \/ Picks(p) \/ RemovesCopy(p) \/ Closes(p))
  BY <1>1 DEF Panics, Picks, RemovesCopy, Closes, RecOver, RecFails
<1> QED
  BY <1>1, <1>2, <1>3, <1>4, RecStep DEF RecEffect

LEMMA RegisteredStep ==
  ASSUME NEW p, Proc = {p}, MoveInv, FilesInv, OutcomeInv, Registered(p), [Next]_vars, used'.faults = 0
  PROVE  Registered(p)'
<1> p \in Proc /\ WorkGone
  BY DEF OutcomeInv
<1>0. used.faults \in Nat /\ used.faults = 0
  BY AloneStep, StepEffect DEF FaultsGrow
<1>1. CASE UNCHANGED vars \/ UserEffect
  <2>1. UNCHANGED <<ops, phase, exempt, exemptDb, work>>
    BY <1>1 DEF vars, dbVars, UserEffect, ExemptionsSame
  <2> QED
    BY <2>1 DEF Registered, Restoring
<1>2. CASE Crashes(p)
  BY <1>2 DEF Crashes, Registered
<1>3. CASE (phase[p] = "down" /\ Starts(p)) \/ (phase[p] = "starting" /\ Recovers(p))
  <2>1. work[p].pc = "idle"
    BY <1>0, <1>3, AloneFacts
  <2>2. work'[p].pc = "idle"
    BY <1>3, <2>1 DEF Starts, Recovers, Picks, Looks, RemovesCopy, Closes, RecOver, RecFails, Readies
  <2>3. Readies(p) \/ phase'[p] = "starting"
    BY <1>3, PhaseStays DEF Starts, Recovers
  <2> QED
    BY <1>0, <2>2, <2>3 DEF Readies, Registered
<1>4. CASE phase[p] = "running" /\ Works(p)
  <2>0. phase'[p] = "running" /\ \A x \in Path : exempt[p][x] = exemptDb[x] \/ (SlowMoves /\ exempt[p][x] = NONE)
    BY <1>4, PhaseStays DEF Registered
  <2>1. CASE \/ GoesOn(p) \/ Renames(p) \/ Copies(p) \/ Publishes(p) \/ Deletes(p) \/ Takes(p) \/ Releases(p)
    <3>1. ExemptionsSame
      BY <2>1 DEF GoesOn, Renames, Copies, Publishes, Deletes, Takes, Releases
    <3>2. ~(work'[p].pc = "finish" /\ Restoring(p)')
      BY <2>1 DEF GoesOn, Renames, Copies, Publishes, Deletes, Takes, Releases, Arrives, MoveFrame, Restoring
    <3> QED
      BY Zenon, <2>0, <3>1, <3>2 DEF Registered, ExemptionsSame
  <2>2. CASE Exempts(p)
    BY <1>0, <2>0, <2>2 DEF Exempts, Registered
  <2>3. CASE Finishes(p)
    <3>1. /\ work[p].pc = "finish" /\ work'[p].pc = "release" /\ exempt' = exempt
          /\ RowCloses(work[p].op, work[p].result, work[p].target, work[p].snap)
      BY <1>0, <2>3 DEF Finishes
    <3>2. \/ exemptDb' = exemptDb
          \/ /\ Restoring(p)
             /\ exemptDb'[work[p].target] = work[p].snap
             /\ \A x \in Path : x # work[p].target => exemptDb'[x] = exemptDb[x]
      BY <3>1 DEF RowCloses, Restoring
    <3> QED
      BY <2>0, <3>1, <3>2 DEF Registered
  <2>4. CASE Passes(p)
    <3>1. PICK x \in Watched :
            /\ Settled(x) /\ exempt'[p][x] = NONE
            /\ \A y \in Path : y # x => exempt'[p][y] = exempt[p][y] /\ exemptDb'[y] = exemptDb[y]
            /\ exemptDb'[x] = IF exempt[p][x] = NONE THEN exemptDb[x] ELSE NONE
      BY <1>0, <2>4 DEF Passes
    <3>2. work' = work /\ ops' = ops /\ x \in Path
      BY <2>4, RecordFacts DEF Passes, ThreadFrame
    <3>3. \A y \in Path : exempt'[p][y] = exemptDb'[y] \/ (SlowMoves /\ exempt'[p][y] = NONE)
      BY <2>0, <3>1, <3>2
    <3>4. ASSUME work[p].pc = "finish", Restoring(p)
          PROVE  \/ exempt'[p][work[p].target] = work[p].snap
                 \/ SlowMoves /\ exempt'[p][work[p].target] = NONE
      <4>1. work[p].target \in Path /\ SlowMoves \in BOOLEAN
        BY <3>4, RecordFacts, MoveAssumption
      <4>2. ~SlowMoves => work[p].target # x
        BY <3>1, <3>4 DEF Settled
      <4> QED
        BY <3>1, <3>4, <4>1, <4>2 DEF Registered
    <3> QED
      BY <3>2, <3>3, <3>4 DEF Registered, Restoring
  <2>5. CASE Notices(p) \/ Drops(p) \/ \E o \in Op : Inserts(p, o)
    <3>1. ExemptionsSame /\ work' = work
      BY <2>5 DEF Notices, Drops, Inserts, ThreadFrame
    <3>2. work[p].pc = "finish" => ops'[work[p].op].kind = ops[work[p].op].kind
      BY RecordFacts, RowFileKept
    <3> QED
      BY <2>0, <3>1, <3>2 DEF Registered, ExemptionsSame, Restoring
  <2> QED
    BY <1>4, <2>1, <2>2, <2>3, <2>4, <2>5 DEF Works
<1> QED
  BY <1>1, <1>2, <1>3, <1>4, AloneStep

\* A file that an undo has put back stays so until the row is closed.
LEMMA BeingKept ==
  ASSUME MoveInv, FilesInv, [Next]_vars, NEW x \in Path, BeingRestored(x), disk'[x] = disk[x]
  PROVE  \/ BeingRestored(x)'
         \/ \E u \in Op : /\ ClosedBy(u) /\ ops[u].kind = "undo" /\ ops[u].status = "started"
                          /\ placed[u] # NONE /\ placed[u].dst = x /\ placed[u].snap = disk[x]
<1>1. PICK u \in Op : /\ ops[u].kind = "undo" /\ ops[u].status = "started"
                      /\ placed[u] # NONE /\ placed[u].dst = x /\ placed[u].snap = disk[x]
  BY DEF BeingRestored
<1>2. placed'[u] # NONE /\ placed'[u].dst = x /\ placed'[u].snap = disk'[x]
  BY <1>1, PlacedStep DEF PlacedKept
<1>3. ops'[u].kind = "undo"
  BY <1>1, RowFileKept
<1> QED
  BY <1>1, <1>2, <1>3, RowsStep DEF BeingRestored

\* Who changes the exemptions of the database.
LEMMA ExemptDbStep ==
  ASSUME MoveInv, FilesInv, [Next]_vars
  PROVE  \/ exemptDb' = exemptDb
         \/ \E p \in Proc : Exempts(p) \/ Passes(p) \/ Finishes(p) \/ Closes(p)
<1>1. CASE UNCHANGED vars \/ UserEffect
  BY Zenon, <1>1 DEF vars, dbVars, UserEffect, ExemptionsSame
<1>2. ASSUME NEW p \in Proc, Effect(p), ~(Exempts(p) \/ Passes(p) \/ Finishes(p) \/ Closes(p))
      PROVE  exemptDb' = exemptDb
  BY Zenon, <1>2 DEF Effect, GoesOn, Renames, Copies, Publishes, Deletes, KeepsSource, Takes, Releases, Panics,
     Picks, Looks, RemovesCopy, Starts, Readies, Crashes, Notices, Drops, Inserts, ExemptionsSame
<1> QED
  BY <1>1, <1>2, StepEffect

\* A row that is closed leaves its file exempted, if it is an undo's.
LEMMA ClosedExempts ==
  ASSUME NEW p, Proc = {p}, AloneInv(p), [Next]_vars, used'.faults = 0,
         NEW o \in Op, ClosedBy(o), NEW x \in Path, NEW d, d # NONE, disk'[x] = d, Restored(x, d)'
  PROVE  exemptDb'[x] = d \/ BeingRestored(x)'
<1> p \in Proc /\ MoveInv /\ FilesInv /\ OutcomeInv /\ WorkGone /\ RestoredIsExempt /\ Exempted(p)
    /\ LookedAt(p) /\ Tended(p) /\ UndoTarget
  BY DEF AloneInv, OutcomeInv, Calm
<1>0. used.faults \in Nat /\ used.faults = 0
  BY AloneStep, StepEffect DEF FaultsGrow
\* The row is closed as completed with the file s at t, or it is not.
<1>1. \E st, t, s :
        /\ RowCloses(o, st, t, s) /\ FilesSame
        /\ st = "completed" /\ ops[o].kind = "undo" => Replaced(t, s)
        /\ placed[o] # NONE /\ disk[placed[o].dst] = placed[o].snap =>
             st = "completed" /\ t = placed[o].dst /\ s = placed[o].snap
  <2>1. CASE /\ Finishes(p) /\ o = work[p].op
             /\ RowCloses(o, work[p].result, work[p].target, work[p].snap)
    <3>1. work[p].pc = "finish" /\ FilesSame
      BY <2>1 DEF Finishes
    <3>2. work[p].result = "completed" /\ ops[o].kind = "undo" => Replaced(work[p].target, work[p].snap)
      BY <2>1, <3>1 DEF Exempted, RestoresFile, Restoring
    <3>3. placed[o] # NONE =>
            work[p].result = "completed" /\ work[p].target = placed[o].dst /\ work[p].snap = placed[o].snap
      BY <1>0, <2>1, <3>1 DEF WorkGone
    <3> QED
      BY <2>1, <3>1, <3>2, <3>3
  <2>2. CASE /\ Closes(p) /\ o = rec[p].op /\ rec[p].verdict = "complete"
             /\ RowCloses(o, "completed", rec[p].dst, rec[p].snap)
    <3>1. FilesSame /\ Replaced(rec[p].dst, rec[p].snap)
      BY <2>2 DEF Closes, Exempted, CompletesFile
    <3>2. phase[p] = "starting" /\ ops[o].status = "started"
      BY <1>0, <2>2, AloneFacts, MoveAssumption DEF RowCloses, MoveInv, TypeInv, Filled, Quiet, NoRec
    <3>3. placed[o] # NONE => rec[p].dst = placed[o].dst /\ rec[p].snap = placed[o].snap
      BY <2>2, <3>2, PlacedJournal DEF LookedAt
    <3> QED
      BY <2>2, <3>1, <3>3
  <2>3. CASE Closes(p) /\ o = rec[p].op /\ rec[p].verdict = "fail" /\ RowCloses(o, "failed", NONE, NONE)
    <3>1. FilesSame /\ "failed" # "completed"
      BY <2>3 DEF Closes
    <3>2. phase[p] = "starting" /\ ops[o].status = "started"
      BY <1>0, <2>3, AloneFacts, MoveAssumption DEF RowCloses, MoveInv, TypeInv, Filled, Quiet, NoRec
    <3>3. o \notin rec[p].todo
      BY <2>3, <3>2 DEF LookedAt
    <3>4. ~(placed[o] # NONE /\ disk[placed[o].dst] = placed[o].snap)
      BY <2>3, <3>2, <3>3, RecordFacts DEF Tended
    <3> QED
      BY <2>3, <3>1, <3>4
  <2> QED
    BY <2>1, <2>2, <2>3 DEF ClosedBy
<1>2. PICK st, t, s :
        /\ RowCloses(o, st, t, s) /\ FilesSame
        /\ st = "completed" /\ ops[o].kind = "undo" => Replaced(t, s)
        /\ placed[o] # NONE /\ disk[placed[o].dst] = placed[o].snap =>
             st = "completed" /\ t = placed[o].dst /\ s = placed[o].snap
  BY Zenon, <1>1
<1>3. disk[x] = d /\ \A u \in Op : ClosedBy(u) => u = o
  BY <1>2 DEF FilesSame, ClosedBy, RowCloses, Terminal
<1>4. CASE st = "completed" /\ ops[o].kind = "undo" /\ x = t
  <2>1. exemptDb'[x] = s
    BY <1>2, <1>4 DEF RowCloses
  <2>2. CASE s = d
    BY <2>1, <2>2
  <2>3. CASE s # d
    <3>1. ~Restored(x, d)
      BY <1>2, <1>3, <1>4, <2>3 DEF Replaced
    <3> QED
      BY <1>2, <1>3, <1>4, <2>3, <3>1, RestoredBefore DEF RowCloses
  <2> QED
    BY <2>2, <2>3
<1>5. CASE ~(st = "completed" /\ ops[o].kind = "undo" /\ x = t)
  <2>1. Restored(x, d)
    BY <1>2, <1>3, <1>5, RestoredBefore DEF RowCloses
  <2>2. exemptDb'[x] = exemptDb[x]
    BY <1>2, <1>5 DEF RowCloses
  <2>3. CASE BeingRestored(x)
    BY <1>2, <1>3, <1>5, <2>3, BeingKept
  <2> QED
    BY <1>0, <1>3, <2>1, <2>2, <2>3 DEF RestoredIsExempt
<1> QED
  BY <1>4, <1>5

LEMMA RestoredIsExemptStep ==
  ASSUME NEW p, Proc = {p}, AloneInv(p), [Next]_vars, used'.faults = 0
  PROVE  RestoredIsExempt'
<1> p \in Proc /\ MoveInv /\ FilesInv /\ OutcomeInv /\ SnapsKnown /\ WorkGone /\ RestoredIsExempt
    /\ Exempted(p) /\ UndoPaths
  BY DEF AloneInv, OutcomeInv
<1>0. used.faults \in Nat /\ used.faults = 0
  BY AloneStep, StepEffect DEF FaultsGrow
<1> SUFFICES ASSUME NEW x \in Path, NEW d, d = disk'[x], d # NONE, Restored(x, d)'
    PROVE  exemptDb'[x] = d \/ BeingRestored(x)'
  BY DEF RestoredIsExempt, Restored
<1>1. ASSUME NEW o \in Op, ClosedBy(o) PROVE exemptDb'[x] = d \/ BeingRestored(x)'
  BY <1>1, ClosedExempts
<1>2. ASSUME \A o \in Op : ~ClosedBy(o) PROVE exemptDb'[x] = d \/ BeingRestored(x)'
  <2>1. Restored(x, d)
    BY <1>2, RestoredBefore
  <2>2. CASE (Renames(p) \/ Publishes(p)) /\ x = work[p].target
    <3>1. PICK u : u = work[p].op
      OBVIOUS
    <3>2. /\ u \in Op /\ ops' = ops /\ ops[u].status = "started"
          /\ placed'[u] # NONE /\ placed'[u].dst = x /\ placed'[u].snap = d
      <4>1. work[p].pc \in {"rename", "publish"} /\ ops' = ops
            /\ placed'[u] # NONE /\ placed'[u].dst = x /\ placed'[u].snap = d
        BY <2>2, <3>1 DEF Renames, Publishes, MoveFrame, Places
      <4> QED
        BY <3>1, <4>1, RecordFacts DEF MoveInv, Owned, RequestsStarted
    <3>3. x \in Watched
      BY <2>1 DEF Restored, UndoPaths
    <3>4. ops[u].kind = "undo"
      BY <2>2, <3>1, <3>3 DEF UndoPaths, Renames, Publishes
    <3> QED
      BY <3>2, <3>4 DEF BeingRestored
  <2>3. ASSUME ~((Renames(p) \/ Publishes(p)) /\ x = work[p].target)
        PROVE  exemptDb'[x] = d \/ BeingRestored(x)'
    <3>1. disk'[x] = disk[x]
      BY Zenon, <2>1, <2>3, RestoredHere DEF Renames, Publishes
    <3>2. CASE BeingRestored(x)
      BY <1>2, <3>1, <3>2, BeingKept
    <3>3. CASE exemptDb[x] = d
      <4>1. CASE Exempts(p)
        <5>1. work[p].pc = "exempt" /\ ops' = ops
          BY <4>1 DEF Exempts, MoveFrame
        <5>2. Replaced(work[p].target, work[p].snap)
          BY <5>1 DEF Exempted, RestoresFile, Restoring
        <5>3. x = work[p].target => work[p].snap = d
          BY <2>1, <3>1, <5>2 DEF Replaced
        <5> QED
          BY <1>0, <3>3, <4>1, <5>3 DEF Exempts
      <4>2. CASE Passes(p)
        <5>1. PICK z \in Watched :
                /\ exempt[p][z] # disk[z]
                /\ \A y \in Path : y # z => exemptDb'[y] = exemptDb[y]
                /\ exemptDb'[z] = IF exempt[p][z] = NONE THEN exemptDb[z] ELSE NONE
          BY <1>0, <4>2 DEF Passes
        <5>2. exempt[p][x] = exemptDb[x] \/ exempt[p][x] = NONE
          BY <4>2 DEF Passes, Exempted, Registered
        <5> QED
          BY <3>1, <3>3, <5>1, <5>2
      <4>3. ASSUME Finishes(p) \/ Closes(p) PROVE exemptDb' = exemptDb
        <5>1. exemptDb' = exemptDb \/ \E o \in Op : ClosedBy(o)
          BY Zenon, <4>3 DEF Finishes, Closes, ClosedBy, RowCloses
        <5> QED
          BY Zenon, <1>2, <5>1
      <4> QED
        BY <3>3, <4>1, <4>2, <4>3, ExemptDbStep
    <3> QED
      BY <1>0, <2>1, <3>1, <3>2, <3>3 DEF RestoredIsExempt
  <2> QED
    BY <2>2, <2>3
<1> QED
  BY <1>1, <1>2

LEMMA ExemptStep ==
  ASSUME NEW p, Proc = {p}, AloneInv(p), [Next]_vars, used'.faults = 0
  PROVE  Exempted(p)'
<1> MoveInv /\ FilesInv /\ OutcomeInv /\ RestoresFile(p) /\ CompletesFile(p) /\ Registered(p)
  BY DEF AloneInv, Exempted
<1>1. RestoresFile(p)'
  BY RestoresFileStep
<1>2. CompletesFile(p)'
  BY CompletesFileStep
<1>3. Registered(p)'
  BY RegisteredStep
<1> QED
  BY <1>1, <1>2, <1>3 DEF Exempted

LEMMA ProtectAlone ==
  ASSUME NEW p, ProtectInv(p), used.faults = 0
  PROVE  AloneInv(p)
BY DEF ProtectInv, ClaimsInv, CalmInv, ExemptInv, AloneInv

LEMMA ProtectInit == ASSUME NEW p, Proc = {p}, Init PROVE ProtectInv(p)
<1>1. MoveInv /\ FilesInv /\ OutcomeInv /\ ClaimsInv /\ UndoPaths /\ CalmInv(p)
  BY MoveInvInit, FilesInit, OutcomeInit, ClaimsInit, UndoPathsInit, CalmInit
<1>2. /\ \A o \in Op : ops[o].status = "none"
      /\ work[p].pc = "idle" /\ rec[p].verdict = "none" /\ phase[p] = "down"
  BY DEF Init, NoRow, Idle, NoRec
<1>3. ExemptInv(p)
  BY <1>2 DEF ExemptInv, Exempted, RestoresFile, Restoring, CompletesFile, Registered, RestoredIsExempt,
     Restored
<1> QED
  BY <1>1, <1>3 DEF ProtectInv

LEMMA ProtectStep ==
  ASSUME NEW p, Proc = {p}, ProtectInv(p), [Next]_vars
  PROVE  ProtectInv(p)'
<1> MoveInv /\ FilesInv /\ OutcomeInv /\ ClaimsInv /\ UndoTarget /\ UndoPaths /\ CalmInv(p) /\ WorkGone
  BY DEF ProtectInv, ClaimsInv, OutcomeInv
<1>1. MoveInv' /\ FilesInv' /\ OutcomeInv' /\ ClaimsInv'
  BY MoveInvStep, FilesStep, OutcomeStep, ClaimsStep
<1>2. UndoPaths' /\ CalmInv(p)'
  BY UndoPathsStep, CalmStep
<1>3. ExemptInv(p)'
  <2>1. ASSUME used'.faults = 0 PROVE Exempted(p)' /\ RestoredIsExempt'
    <3>1. AloneInv(p)
      BY <2>1, AloneStep, ProtectAlone
    <3> QED
      BY <2>1, <3>1, ExemptStep, RestoredIsExemptStep
  <2> QED
    BY <2>1 DEF ExemptInv
<1> QED
  BY <1>1, <1>2, <1>3 DEF ProtectInv

LEMMA ProtectInvariant == ASSUME NEW p, Proc = {p} PROVE Spec => []ProtectInv(p)
<1>1. Init => ProtectInv(p)
  BY ProtectInit
<1>2. ProtectInv(p) /\ [Next]_vars => ProtectInv(p)'
  BY ProtectStep
<1> QED
  BY <1>1, <1>2, PTL DEF Spec

\* With one instance and without faults, however slow its moves are and however
\* often it dies and is started again, every restored file that is where its
\* undo has put it is exempted in the database, or another undo has just put it
\* there and is still to be closed: the exemption is written before the row is
\* closed, again with the row (organizer_operation_actions.rs, 184-195), and
\* the organizer clears no entry of a file that is still there
\* (watcher/queue.rs, 170-190).
THEOREM MoveRestoredIsExempt ==
  ASSUME NEW p, Proc = {p}
  PROVE  Spec => []RestoredIsExempt
<1>1. ProtectInv(p) => RestoredIsExempt
  BY DEF ProtectInv, ExemptInv, RestoredIsExempt
<1> QED
  BY <1>1, ProtectInvariant, PTL

----------------------------------------------------------------------------
(* The file that has passed the exemption check.                           *)

\* A request of an instance was one before, unless its row is new.
LEMMA RequestsFrom ==
  ASSUME MoveInv, FilesInv, [Next]_vars, NEW p \in Proc, NEW r \in Requests(p)'
  PROVE  r \in Requests(p) \/ Inserts(p, r)
<1> DEFINE Same == /\ queue'[p] = queue[p]
                   /\ \/ work'[p].pc \in {"idle", "recover"}
                      \/ work'[p].op = work[p].op /\ work[p].pc \notin {"idle", "recover"}
                      \/ work'[p] = work[p]
<1>1. ASSUME Same PROVE r \in Requests(p)
  BY <1>1 DEF Requests
<1>2. CASE UNCHANGED vars \/ UserEffect
  BY <1>1, <1>2 DEF vars, threadVars, UserEffect
<1>3. ASSUME NEW q \in Proc, Effect(q) PROVE r \in Requests(p) \/ Inserts(p, r)
  <2>1. CASE Takes(q)
    BY <2>1 DEF Takes
  <2>2. CASE Crashes(q)
    <3>1. CASE q = p
      BY <2>2, <3>1 DEF Crashes
    <3>2. CASE q # p
      BY <2>2, <3>2 DEF Crashes
    <3> QED
      BY <3>1, <3>2
  <2>3. CASE \E o \in Op : Inserts(q, o)
    <3>1. PICK o \in Op : Inserts(q, o)
      BY <2>3
    <3>2. Requests(p)' = Requests(p) \/ (q = p /\ Requests(p)' = Requests(p) \cup {o})
      BY Zenon, <3>1 DEF Inserts
    <3> QED
      BY <3>1, <3>2
  <2>4. CASE \/ GoesOn(q) \/ Renames(q) \/ Copies(q) \/ Publishes(q) \/ Deletes(q) \/ KeepsSource(q)
             \/ Exempts(q)
    BY <1>1, <2>4 DEF GoesOn, Renames, Copies, Publishes, Deletes, KeepsSource, Exempts, MoveFrame
  <2>5. CASE Finishes(q) \/ Releases(q) \/ Panics(q)
    BY <1>1, <2>5 DEF Finishes, Releases, Panics
  <2>6. CASE \/ Picks(q) \/ Looks(q) \/ RemovesCopy(q) \/ Closes(q) \/ Starts(q) \/ Readies(q)
             \/ Notices(q) \/ Passes(q) \/ Drops(q)
    BY <1>1, <2>6 DEF Picks, Looks, RemovesCopy, Closes, Starts, Readies, Notices, Passes, Drops, RecFrame,
       RecOver, RecFails, ThreadFrame
  <2> QED
    BY <1>3, <2>1, <2>2, <2>3, <2>4, <2>5, <2>6 DEF Effect
<1> QED
  BY <1>2, <1>3, StepEffect

\* The thread checks one file at a time.
LEMMA CheckedStays ==
  ASSUME NEW p, Proc = {p}, MoveInv, FilesInv, WorkGone, [Next]_vars, used'.faults = 0,
         checked'[p] # NONE, ~Passes(p)
  PROVE  /\ checked'[p] = checked[p] /\ phase[p] = "running" /\ checked[p] \in Watched
         /\ pending'[p] = pending[p] /\ pending[p][checked[p]] \in Snap
<1> p \in Proc
  OBVIOUS
<1> DEFINE Stays == checked'[p] = checked[p] /\ pending'[p] = pending[p]
<1>0. used.faults \in Nat /\ used.faults = 0
  BY AloneStep, StepEffect DEF FaultsGrow
<1>1. ASSUME UNCHANGED vars \/ UserEffect PROVE Stays
  BY <1>1 DEF vars, threadVars, UserEffect, ThreadSame
<1>2. ASSUME Crashes(p) PROVE Stays
  BY <1>2 DEF Crashes
<1>3. ASSUME (phase[p] = "down" /\ Starts(p)) \/ (phase[p] = "starting" /\ Recovers(p)) PROVE Stays
  <2>1. checked[p] = NONE
    BY <1>0, <1>3, AloneFacts
  <2>2. checked' = checked
    BY <1>3 DEF Starts, Recovers, Picks, Looks, RemovesCopy, Closes, Readies, RecFrame, ThreadSame
  <2> QED
    BY <2>1, <2>2
<1>4. ASSUME phase[p] = "running" /\ Works(p) PROVE Stays
  <2>1. CASE Notices(p)
    BY <2>1 DEF Notices
  <2>2. CASE Drops(p) \/ \E o \in Op : Inserts(p, o)
    BY Zenon, <2>2 DEF Drops, Inserts, ThreadSame
  <2>3. CASE \/ GoesOn(p) \/ Renames(p) \/ Copies(p) \/ Publishes(p) \/ Deletes(p) \/ Exempts(p)
             \/ Takes(p) \/ Finishes(p) \/ Releases(p)
    BY <2>3 DEF GoesOn, Renames, Copies, Publishes, Deletes, Exempts, Takes, Finishes, Releases, MoveFrame,
       ThreadSame
  <2> QED
    BY <1>4, <2>1, <2>2, <2>3 DEF Works
<1>5. checked'[p] = checked[p] /\ pending'[p] = pending[p]
  BY <1>1, <1>2, <1>3, <1>4, AloneStep
<1>6. phase[p] = "running" /\ checked[p] \in Watched /\ pending[p][checked[p]] \in Snap
  BY <1>0, <1>5, AloneFacts DEF MoveInv, TypeInv, TypeOK, Filled, CheckedFilled
<1> QED
  BY <1>5, <1>6

LEMMA UndoAtSourceStep ==
  ASSUME NEW p, Proc = {p}, MoveInv, FilesInv, OutcomeInv, ClaimsInv, UndoPaths, UndoAtSource(p),
         [Next]_vars, used'.faults = 0
  PROVE  UndoAtSource(p)'
<1> p \in Proc /\ SnapsKnown /\ CopiesUnknown /\ WorkGone /\ UndoTarget /\ ClaimsMatchRequests
    /\ DistinctFiles
  BY DEF OutcomeInv, ClaimsInv, FilesInv, DiskInv
<1>0. used.faults \in Nat /\ used.faults = 0
  BY AloneStep, StepEffect DEF FaultsGrow
<1> SUFFICES ASSUME NEW r \in Requests(p)', ops'[r].kind = "undo",
                    work'[p].op = r /\ work'[p].pc # "idle" => work'[p].pc \in BeforeMove
    PROVE  /\ ops'[r].src # ops'[r].dst
           /\ \A x \in Path : disk'[x] = ops'[r].snap => x = ops'[r].src
           /\ work'[p].op = r /\ work'[p].pc \in BeforeMove \ {"publish"} => work'[p].snap = ops'[r].snap
  BY DEF UndoAtSource
\* A new undo.
<1>1. CASE Inserts(p, r)
  <2>1. /\ disk' = disk /\ work' = work /\ ops[r].status = "none"
        /\ ops'[r].src \in Path /\ ops'[r].snap \in Snap /\ ops'[r].dst \in Watched
        /\ disk[ops'[r].src] = ops'[r].snap /\ disk[ops'[r].dst] = NONE
    BY <1>1 DEF Inserts, ThreadFrame, FilesSame, NewRow
  <2>2. ops'[r].snap # NONE
    BY <2>1, RecordFacts
  <2>3. \A x \in Path : disk[x] = ops'[r].snap => x = ops'[r].src
    BY <2>1, <2>2 DEF DistinctFiles
  <2>4. ~(work[p].op = r /\ work[p].pc \in BeforeMove)
    BY <2>1, RecordFacts DEF BeforeMove
  <2> QED
    BY <2>1, <2>2, <2>3, <2>4
<1>2. CASE r \in Requests(p)
  <2>0. /\ r \in Op /\ ops[r].status # "none" /\ ops[r].kind = "undo" /\ ops[r].snap \in Snap
        /\ ops[r].src \in Path /\ ops'[r].src = ops[r].src /\ ops'[r].snap = ops[r].snap
        /\ ops'[r].dst = ops[r].dst
    BY <1>2, RequestFacts, RowFileKept, UndoKept, RecordFacts
  <2>1. work[p].op = r /\ work[p].pc # "idle" => work[p].pc \in BeforeMove
    <3>1. ASSUME work[p].op = r, work[p].pc # "idle", work[p].pc \notin BeforeMove PROVE FALSE
      <4>1. work[p].pc \in {"delete", "exempt", "finish", "release"}
        BY <1>0, <3>1, AloneFacts DEF MoveInv, TypeInv, TypeOK, Request, BeforeMove
      <4>2. ~(work'[p] = work[p])
        BY <3>1
      <4>3. \A i \in 1..Len(queue[p]) : queue[p][i] # r
        BY Zenon, <3>1 DEF MoveInv, Owned, RequestsDistinct
      <4>4. work'[p].pc = "idle" => queue' = queue \/ Requests(p)' = {}
        <5>1. phase[p] = "running"
          BY <3>1, RecordFacts
        <5> QED
          BY <4>1, <5>1, AloneStep DEF Works, GoesOn, Renames, Copies, Publishes, Deletes, Exempts, Takes,
             Finishes, Releases, MoveFrame, UserEffect, vars, threadVars, Crashes, Notices, Passes, Drops,
             Inserts, ThreadFrame, Arrives
      <4>5. work'[p].pc # "idle"
        BY <4>3, <4>4 DEF Requests
      <4>6. WorkEffect(p)
        BY <4>2, <4>5, WorkStep
      <4> QED
        BY <1>0, <3>1, <4>1, <4>5, <4>6 DEF WorkEffect, GoesOn, Renames, Copies, Publishes, Deletes, KeepsSource,
           Exempts, Takes, Finishes, Panics, MoveFrame, Arrives, BeforeMove
    <3> QED
      BY <3>1
  <2>2. /\ ops[r].src # ops[r].dst
        /\ \A x \in Path : disk[x] = ops[r].snap => x = ops[r].src
        /\ work[p].op = r /\ work[p].pc \in BeforeMove \ {"publish"} => work[p].snap = ops[r].snap
    BY <1>2, <2>0, <2>1 DEF UndoAtSource
  <2>3. \A x \in Path : disk'[x] = ops[r].snap => x = ops[r].src
    <3> SUFFICES ASSUME NEW x \in Path, disk'[x] = ops[r].snap PROVE x = ops[r].src
      OBVIOUS
    <3>1. ops[r].snap # NONE /\ ops[r].snap.id \in 0..serial
      BY <2>0, RecordFacts DEF SnapsKnown
    <3>2. CASE disk'[x] \in {disk[x], NONE}
      BY <2>2, <3>1, <3>2
    <3>3. CASE UserEffect
      BY <2>2, <3>1, <3>3, UserFresh
    <3>4. CASE Renames(p) /\ x = work[p].target
      <4>1. PICK w : w = work[p].op
        OBVIOUS
      <4>2. /\ w \in Requests(p) /\ w # r /\ disk[ops[w].src] = ops[w].snap /\ ops[w].src \in Path
            /\ disk'[x] = ops[w].snap
        <5>1. work[p].pc = "rename" /\ disk'[x] = ops[w].snap
          BY <3>4, <4>1 DEF Renames
        <5>2. w \in Requests(p) /\ disk[ops[w].src] = ops[w].snap /\ ops[w].src \in Path
          BY <4>1, <5>1, HolderFacts DEF Requests, Holding
        <5>3. w # r
          BY <3>4, <4>1 DEF Renames, MoveFrame, Arrives, BeforeMove
        <5> QED
          BY <5>1, <5>2, <5>3
      <4>3. ops[w].src = ops[r].src
        BY <2>2, <4>2
      <4> QED
        BY <1>2, <4>2, <4>3 DEF ClaimsMatchRequests, Touched
    <3>5. CASE Publishes(p) /\ x = work[p].target
      <4>1. work[p].pc = "publish" /\ disk'[x] = work[p].snap
        BY <3>5 DEF Publishes
      <4> QED
        BY <2>0, <4>1 DEF CopiesUnknown
    <3>6. ASSUME x # work[p].target, Renames(p) \/ Publishes(p) PROVE disk'[x] \in {disk[x], NONE}
      BY <3>6 DEF Renames, Publishes
    <3> QED
      BY <3>2, <3>3, <3>4, <3>5, <3>6, DiskStep
  <2>4. ASSUME work'[p].op = r, work'[p].pc \in BeforeMove \ {"publish"} PROVE work'[p].snap = ops[r].snap
    <3>1. CASE work'[p] = work[p]
      BY <2>2, <2>4, <3>1
    <3>2. CASE Takes(p)
      BY <2>4, <3>2 DEF Takes
    <3>3. CASE GoesOn(p)
      BY <2>0, <2>2, <2>4, <3>3 DEF GoesOn, MoveFrame, BeforeMove
    <3>4. ~(\/ Renames(p) \/ Copies(p) \/ Publishes(p) \/ Deletes(p) \/ KeepsSource(p) \/ Exempts(p)
            \/ Finishes(p) \/ Panics(p))
      BY <2>4 DEF Renames, Copies, Publishes, Deletes, KeepsSource, Exempts, Finishes, Panics, Arrives,
         BeforeMove
    <3> QED
      BY <2>4, <3>1, <3>2, <3>3, <3>4, WorkStep DEF WorkEffect, BeforeMove
  <2> QED
    BY <2>0, <2>2, <2>3, <2>4
<1> QED
  BY <1>1, <1>2, RequestsFrom

\* The file that passes the check is not one that was restored, and none that
\* an undo is about to restore.
LEMMA PassesFresh ==
  ASSUME NEW p, Proc = {p}, ~SlowMoves, AloneInv(p), UndoAtSource(p), [Next]_vars, used'.faults = 0, Passes(p)
  PROVE  CheckedFresh(p)'
<1> p \in Proc /\ MoveInv /\ FilesInv /\ OutcomeInv /\ WorkGone /\ UndoTarget /\ UndoPaths /\ Tended(p)
    /\ RestoredIsExempt /\ Registered(p)
  BY DEF AloneInv, OutcomeInv, Calm, Exempted
<1>0. used.faults \in Nat /\ used.faults = 0
  BY AloneStep, StepEffect DEF FaultsGrow
<1>1. PICK z \in Watched :
        /\ Settled(z) /\ disk[z] = pending[p][z] /\ disk[z] # NONE /\ exempt[p][z] # disk[z]
        /\ checked'[p] = z
  BY DEF Passes
<1>2. /\ UNCHANGED <<disk, ops, work, queue, pending>> /\ phase[p] = "running" /\ z \in Path
  BY RecordFacts DEF Passes, ThreadFrame, FilesSame
<1>3. ~(work[p].pc \in {"delete", "exempt", "finish", "release"} /\ work[p].target = z)
  BY <1>1 DEF Settled
<1>4. PICK d : d = disk[z]
  OBVIOUS
<1>5. ~Restored(z, d)
  <2>1. exemptDb[z] # d
    BY <1>1, <1>2, <1>4 DEF Registered
  <2>2. ~BeingRestored(z)
    <3> SUFFICES ASSUME NEW u \in Op, ops[u].status = "started", placed[u] # NONE, placed[u].dst = z,
                        placed[u].snap = disk[z]
        PROVE FALSE
      BY DEF BeingRestored
    <3>1. work[p].op = u /\ work[p].pc \in {"delete", "exempt", "finish"}
      BY <1>2 DEF Tended
    <3>2. work[p].target = z
      BY <1>0, <3>1 DEF FilesInv, RecordInv, WorkPlaced, WorkGone
    <3> QED
      BY <1>3, <3>1, <3>2
  <2> QED
    BY <1>0, <1>1, <1>2, <1>4, <2>1, <2>2 DEF RestoredIsExempt
<1>6. ASSUME NEW r \in Requests(p), ops[r].kind = "undo", ops[r].dst = z
      PROVE  /\ ops[r].snap # d
             /\ work[p].op = r /\ work[p].pc # "idle" => work[p].snap # d
  <2>1. work[p].op = r /\ work[p].pc # "idle" => work[p].pc \in BeforeMove
    <3>1. work[p].op = r /\ work[p].pc # "idle" => work[p].target = z
      BY <1>0, <1>6, AloneFacts DEF UndoTarget
    <3> QED
      BY <1>0, <1>3, <3>1, AloneFacts DEF MoveInv, TypeInv, TypeOK, Request, BeforeMove
  <2>2. ops[r].snap # d /\ (work[p].op = r /\ work[p].pc \in BeforeMove \ {"publish"} => work[p].snap # d)
    BY <1>2, <1>4, <1>6, <2>1 DEF UndoAtSource
  <2>3. work[p].pc = "publish" => work[p].snap # d
    BY <1>1, <1>2, <1>4 DEF FilesInv, DiskInv, CopiesHidden
  <2> QED
    BY <2>1, <2>2, <2>3
<1>7. ~Restored(z, d)' /\ Requests(p)' = Requests(p)
  BY <1>2, <1>5 DEF Restored, Requests
<1>8. pending'[p][z] = d
  BY <1>1, <1>2, <1>4
<1> QED
  BY <1>1, <1>2, <1>6, <1>7, <1>8 DEF CheckedFresh

\* The thread keeps the file it has checked: nothing makes it a restored one.
LEMMA CheckedStaysFresh ==
  ASSUME NEW p, Proc = {p}, AloneInv(p), CheckedFresh(p), [Next]_vars, used'.faults = 0, ~Passes(p),
         checked'[p] # NONE
  PROVE  CheckedFresh(p)'
<1> p \in Proc /\ MoveInv /\ FilesInv /\ OutcomeInv /\ WorkGone /\ UndoTarget /\ UndoPaths /\ SnapsKnown
  BY DEF AloneInv, OutcomeInv
<1>0. used.faults \in Nat /\ used.faults = 0 /\ serial \in Nat
  BY AloneStep, StepEffect, RecordFacts DEF FaultsGrow
<1>1. PICK x : x = checked[p]
  OBVIOUS
<1>2. PICK f : f = pending[p][x]
  OBVIOUS
<1>3. /\ checked[p] = x /\ x # NONE /\ checked'[p] = x /\ x \in Watched
      /\ pending[p][x] = f /\ pending'[p][x] = f /\ f # NONE
      /\ phase[p] = "running" /\ f.id \in 0..serial
  BY <1>1, <1>2, CheckedStays, RecordFacts DEF SnapsKnown
<1>4. /\ ~Restored(x, f)
      /\ \A r \in Requests(p) : ops[r].kind = "undo" /\ ops[r].dst = x =>
           /\ ops[r].snap # f
           /\ work[p].op = r /\ work[p].pc # "idle" => work[p].snap # f
  BY <1>3 DEF CheckedFresh
<1>5. ASSUME Restored(x, f)' PROVE FALSE
  <2>1. PICK u \in Op : /\ ClosedBy(u) /\ ops[u].kind = "undo"
                        /\ ops'[u].status = "completed" /\ ops'[u].dst = x /\ ops'[u].after = f
    BY <1>4, <1>5, RestoredBefore
  <2>2. ~Closes(p)
    BY <1>0, <1>3, AloneFacts DEF Closes
  <2>3. /\ Finishes(p) /\ u = work[p].op
        /\ RowCloses(u, work[p].result, work[p].target, work[p].snap)
    BY Zenon, <2>1, <2>2 DEF ClosedBy
  <2>4. work[p].pc = "finish" /\ work[p].snap = f /\ work[p].target = x
    BY <2>1, <2>3 DEF Finishes, RowCloses
  <2>5. u \in Requests(p) /\ ops[u].dst = x
    BY <2>1, <2>3, <2>4 DEF Requests, UndoTarget
  <2> QED
    BY <1>4, <2>1, <2>3, <2>4, <2>5
<1>6. ASSUME NEW r \in Requests(p)', ops'[r].kind = "undo", ops'[r].dst = x
      PROVE  /\ ops'[r].snap # f
             /\ work'[p].op = r /\ work'[p].pc # "idle" => work'[p].snap # f
  <2>1. r \in Requests(p)
    <3>1. ~Inserts(p, r)
      BY <1>3, <1>6 DEF Inserts
    <3> QED
      BY <1>6, <3>1, RequestsFrom
  <2>2. r \in Op /\ ops[r].status # "none"
    BY <2>1, RequestFacts DEF MoveInv, Owned, RequestsStarted
  <2>3. ops[r].kind = "undo" /\ ops[r].dst = x /\ ops'[r].snap = ops[r].snap
    BY <1>6, <2>2, RowFileKept, UndoKept
  <2>4. ops[r].snap # f /\ (work[p].op = r /\ work[p].pc # "idle" => work[p].snap # f)
    BY <1>4, <2>1, <2>3
  <2>5. ASSUME work'[p].op = r, work'[p].pc # "idle" PROVE work'[p].snap # f
    <3>1. CASE work'[p] = work[p]
      BY <2>4, <2>5, <3>1
    <3>2. CASE Takes(p)
      BY <2>4, <2>5, <3>2 DEF Takes
    <3>3. CASE Renames(p)
      BY <2>4, <2>5, <3>3 DEF Renames, MoveFrame, Arrives
    <3>4. CASE Copies(p)
      BY <1>0, <1>3, <3>4 DEF Copies
    <3>5. CASE GoesOn(p) \/ Publishes(p) \/ Deletes(p) \/ Exempts(p) \/ Finishes(p)
      <4>1. work'[p].op = work[p].op /\ work[p].pc # "idle" /\ work'[p].snap = work[p].snap
        BY <3>5 DEF GoesOn, Publishes, Deletes, Exempts, Finishes, MoveFrame, Arrives
      <4> QED
        BY <2>4, <2>5, <4>1
    <3>6. ~KeepsSource(p) /\ ~Panics(p)
      BY <1>0 DEF KeepsSource, Panics
    <3> QED
      BY <2>5, <3>1, <3>2, <3>3, <3>4, <3>5, <3>6, WorkStep DEF WorkEffect
  <2> QED
    BY <2>3, <2>4, <2>5
<1>7. ~Restored(x, f)'
  BY <1>5
<1> QED
  BY <1>3, <1>6, <1>7 DEF CheckedFresh

LEMMA CheckedInit == ASSUME NEW p, Proc = {p}, Init PROVE CheckedInv(p)
<1>1. p \in Proc /\ checked[p] = NONE /\ queue[p] = << >> /\ work[p].pc = "idle"
  BY DEF Init, Idle
<1> QED
  BY <1>1 DEF CheckedInv, UndoAtSource, CheckedFresh, Requests

LEMMA CheckedStep ==
  ASSUME NEW p, Proc = {p}, ~SlowMoves, ProtectInv(p), CheckedInv(p), [Next]_vars
  PROVE  CheckedInv(p)'
<1> SUFFICES ASSUME used'.faults = 0 PROVE UndoAtSource(p)' /\ CheckedFresh(p)'
  BY DEF CheckedInv
<1> MoveInv /\ FilesInv /\ OutcomeInv /\ ClaimsInv /\ UndoPaths /\ WorkGone
  BY DEF ProtectInv, OutcomeInv
<1>1. used.faults = 0
  BY AloneStep
<1>2. AloneInv(p) /\ UndoAtSource(p) /\ CheckedFresh(p)
  BY <1>1, ProtectAlone DEF CheckedInv
<1>3. UndoAtSource(p)'
  BY <1>2, UndoAtSourceStep
<1>4. CASE checked'[p] = NONE
  BY <1>3, <1>4 DEF CheckedFresh
<1>5. CASE checked'[p] # NONE
  BY <1>2, <1>3, <1>5, PassesFresh, CheckedStaysFresh
<1> QED
  BY <1>4, <1>5

LEMMA CheckedInvariant ==
  ASSUME NEW p, Proc = {p}, ~SlowMoves
  PROVE  Spec => [](ProtectInv(p) /\ CheckedInv(p))
<1>1. Init => ProtectInv(p) /\ CheckedInv(p)
  BY ProtectInit, CheckedInit
<1>2. ProtectInv(p) /\ CheckedInv(p) /\ [Next]_vars => ProtectInv(p)' /\ CheckedInv(p)'
  BY ProtectStep, CheckedStep
<1> QED
  BY <1>1, <1>2, PTL DEF Spec

\* With one instance whose moves release what they have placed before the file
\* counts as stable, however often it dies and is started again: as long as no
\* fault has occurred, no move is started of a file that an undo has put back.
\* The exemption check of the stable files is what refuses it
\* (watcher/queue.rs, 170-190), for the file is then exempted or an undo that
\* has placed it still holds it.
THEOREM MoveUndoneFileStays ==
  ASSUME NEW p, Proc = {p}, ~SlowMoves
  PROVE  Spec => UndoneFileStays
<1>1. ASSUME ProtectInv(p), CheckedInv(p), [Next]_vars, NEW o \in Op, used.faults = 0,
             ops[o].status = "none", ops'[o].status = "started", ops'[o].kind = "move"
      PROVE  ~Restored(ops'[o].src, ops'[o].snap)
  <2>1. MoveInv /\ FilesInv /\ CheckedFresh(p)
    BY <1>1 DEF ProtectInv, CheckedInv
  <2>2. PICK a \in Op : Inserts(p, a)
    BY <1>1, <2>1, ColumnsStep DEF ColumnsSame
  <2>3. a = o
    BY <1>1, <2>2 DEF Inserts, NewRow
  <2>4. checked[p] # NONE /\ ops'[o].src = checked[p] /\ ops'[o].snap = pending[p][checked[p]]
    BY <1>1, <2>2, <2>3 DEF Inserts
  <2> QED
    BY <2>1, <2>4 DEF CheckedFresh
<1>2. ProtectInv(p) /\ CheckedInv(p) /\ [Next]_vars =>
        [used.faults = 0 => \A o \in Op : ~MovesRestored(o)]_vars
  BY <1>1 DEF MovesRestored
<1> QED
  BY <1>2, CheckedInvariant, PTL DEF Spec, UndoneFileStays
=============================================================================
