----------------------- MODULE OperationLedgerProofs -----------------------
(***************************************************************************)
(* Theorems about OperationLedger, for every set of operation ids.         *)
(***************************************************************************)
EXTENDS OperationLedger, TLAPS

\* What UndoneExactlyOnce rests on: an undo that is running or done has an
\* original that is completed and is no undo.
UndoOfCompleted ==
  \A o \in Op : kind[o] = "undo" /\ status[o] \in {"started", "completed"} =>
    /\ parent[o] \in Op
    /\ status[parent[o]] = "completed"
    /\ kind[parent[o]] # "undo"

LedgerInv == TypeOK /\ UndoneExactlyOnce /\ OneRetryAtATime /\ UndoOfCompleted

\* A row that gets its id in a step: every other row, and every status and
\* kind of it, is as before.
LEMMA InsertEffect ==
  ASSUME TypeOK, NEW o \in Op, NEW k \in Kind, NEW q \in Op \cup {NONE},
         NEW st \in Status, Insert(o, k, q, st)
  PROVE  /\ status[o] = "none"
         /\ status'[o] = st /\ kind'[o] = k /\ parent'[o] = q
         /\ \A p \in Op \ {o} : /\ status'[p] = status[p]
                                /\ kind'[p] = kind[p]
                                /\ parent'[p] = parent[p]
         /\ undone' = undone
  BY DEF TypeOK, Insert

LEMMA CloseEffect ==
  ASSUME TypeOK, NEW o \in Op, NEW st \in Terminal, Close(o, st)
  PROVE  /\ status[o] = "started" /\ status'[o] = st
         /\ \A p \in Op \ {o} : status'[p] = status[p]
         /\ kind' = kind /\ parent' = parent
         /\ undone' = IF st = "completed" /\ kind[o] = "undo"
                      THEN undone \cup {parent[o]} ELSE undone
  BY DEF TypeOK, Close

\* Every variable stays in its type.
LEMMA TypeStep == LedgerInv /\ [Next]_vars => TypeOK'
<1> SUFFICES ASSUME LedgerInv, [Next]_vars PROVE TypeOK'
  OBVIOUS
<1> USE DEF LedgerInv, TypeOK, Status, Terminal, Kind
<1>1. ASSUME NEW o \in Op, OpenMove(o) PROVE TypeOK'
  BY <1>1 DEF OpenMove, Insert
<1>2. ASSUME NEW o \in Op, NEW q \in Op, OpenRetry(o, q) \/ OpenUndo(o, q) PROVE TypeOK'
  BY <1>2 DEF OpenRetry, OpenUndo, Insert
<1>3. ASSUME NEW o \in Op, NEW st \in Terminal, Close(o, st) PROVE TypeOK'
  BY <1>3 DEF Close, UndoOfCompleted
<1>4. CASE UNCHANGED vars
  BY <1>4 DEF vars
<1> QED
  BY <1>1, <1>2, <1>3, <1>4 DEF Next

\* A new row that is opened under the guard of its kind disturbs no part.
LEMMA OpenedInv ==
  ASSUME LedgerInv, TypeOK', NEW o \in Op, NEW k \in Kind, NEW q \in Op \cup {NONE},
         NEW st \in Status \ {"none"}, Insert(o, k, q, st),
         k = "undo" => /\ st = "started" /\ q \in Op
                       /\ status[q] = "completed" /\ kind[q] # "undo"
                       /\ Children(q, "undo", {"started", "completed"}) = {},
         k = "retry" => Children(q, "retry", {"started"}) = {}
  PROVE  LedgerInv'
<1>1. /\ status[o] = "none" /\ status'[o] = st /\ kind'[o] = k /\ parent'[o] = q
      /\ \A p \in Op \ {o} : /\ status'[p] = status[p]
                             /\ kind'[p] = kind[p]
                             /\ parent'[p] = parent[p]
      /\ undone' = undone
  BY InsertEffect DEF LedgerInv
<1>2. UndoneExactlyOnce'
  <2>1. ASSUME NEW p \in undone
        PROVE  /\ status'[p] = "completed" /\ kind'[p] # "undo"
               /\ Children(p, "undo", {"completed"})' # {}
    BY <1>1 DEF LedgerInv, TypeOK, UndoneExactlyOnce, Children
  <2>2. ASSUME NEW p \in Op, NEW a \in Children(p, "undo", {"started", "completed"})',
               NEW b \in Children(p, "undo", {"started", "completed"})'
        PROVE  a = b
    BY <1>1 DEF LedgerInv, TypeOK, UndoneExactlyOnce, Children
  <2>3. ASSUME NEW p \in Op, kind'[p] = "undo", status'[p] = "completed"
        PROVE  parent'[p] \in undone'
    BY <1>1, <2>3 DEF LedgerInv, UndoneExactlyOnce
  <2> QED
    BY <1>1, <2>1, <2>2, <2>3 DEF UndoneExactlyOnce
<1>3. OneRetryAtATime'
  BY <1>1 DEF LedgerInv, OneRetryAtATime, Children
<1>4. UndoOfCompleted'
  BY <1>1 DEF LedgerInv, UndoOfCompleted
<1> QED
  BY <1>2, <1>3, <1>4 DEF LedgerInv

\* Closing a row marks its original if it is a completed undo.
LEMMA ClosedInv ==
  ASSUME LedgerInv, TypeOK', NEW o \in Op, NEW st \in Terminal, Close(o, st)
  PROVE  LedgerInv'
<1>1. /\ status[o] = "started" /\ status'[o] = st
      /\ \A p \in Op \ {o} : status'[p] = status[p]
      /\ kind' = kind /\ parent' = parent
      /\ undone' = IF st = "completed" /\ kind[o] = "undo"
                   THEN undone \cup {parent[o]} ELSE undone
  BY CloseEffect DEF LedgerInv
<1>2. UndoneExactlyOnce'
  <2>1. ASSUME NEW p \in undone'
        PROVE  /\ status'[p] = "completed" /\ kind'[p] # "undo"
               /\ Children(p, "undo", {"completed"})' # {}
    <3>1. CASE p \in undone
      BY <1>1, <3>1 DEF LedgerInv, TypeOK, UndoneExactlyOnce, Children
    <3>2. CASE p \notin undone
      <4>1. st = "completed" /\ kind[o] = "undo" /\ p = parent[o]
        BY <1>1, <3>2
      <4>2. o \in Children(p, "undo", {"completed"})'
        BY <1>1, <4>1 DEF Children
      <4> QED
        BY <1>1, <4>1, <4>2 DEF LedgerInv, UndoOfCompleted
    <3> QED
      BY <3>1, <3>2
  <2>2. ASSUME NEW p \in Op, NEW a \in Children(p, "undo", {"started", "completed"})',
               NEW b \in Children(p, "undo", {"started", "completed"})'
        PROVE  a = b
    <3>1. /\ a \in Children(p, "undo", {"started", "completed"})
          /\ b \in Children(p, "undo", {"started", "completed"})
      BY <1>1 DEF Children, Terminal
    <3> QED
      BY <3>1 DEF LedgerInv, UndoneExactlyOnce
  <2>3. ASSUME NEW p \in Op, kind'[p] = "undo", status'[p] = "completed"
        PROVE  parent'[p] \in undone'
    BY <1>1, <2>3 DEF LedgerInv, UndoneExactlyOnce
  <2> QED
    BY <2>1, <2>2, <2>3 DEF UndoneExactlyOnce, TypeOK
<1>3. OneRetryAtATime'
  BY <1>1 DEF LedgerInv, OneRetryAtATime, Children, Terminal
<1>4. UndoOfCompleted'
  BY <1>1 DEF LedgerInv, UndoOfCompleted
<1> QED
  BY <1>2, <1>3, <1>4 DEF LedgerInv

LEMMA LedgerStep == LedgerInv /\ [Next]_vars => LedgerInv'
<1> SUFFICES ASSUME LedgerInv, [Next]_vars PROVE LedgerInv'
  OBVIOUS
<1>0. TypeOK'
  BY TypeStep
<1>1. ASSUME NEW o \in Op, OpenMove(o) PROVE LedgerInv'
  <2> PICK st \in {"started", "skipped"} : Insert(o, "move", NONE, st)
    BY <1>1 DEF OpenMove
  <2> QED
    BY <1>0, OpenedInv DEF Kind, Status, Terminal
<1>2. ASSUME NEW o \in Op, NEW q \in Op, OpenRetry(o, q) PROVE LedgerInv'
  BY <1>0, <1>2, OpenedInv DEF OpenRetry, Kind, Status, Terminal
<1>3. ASSUME NEW o \in Op, NEW q \in Op, OpenUndo(o, q) PROVE LedgerInv'
  BY <1>0, <1>3, OpenedInv DEF OpenUndo, Kind, Status, Terminal
<1>4. ASSUME NEW o \in Op, NEW st \in Terminal, Close(o, st) PROVE LedgerInv'
  BY <1>0, <1>4, ClosedInv
<1>5. CASE UNCHANGED vars
  BY <1>5 DEF vars, LedgerInv, TypeOK, UndoneExactlyOnce, OneRetryAtATime, UndoOfCompleted,
              Children
<1> QED
  BY <1>1, <1>2, <1>3, <1>4, <1>5 DEF Next

LEMMA LedgerInit == Init => LedgerInv
  BY DEF Init, LedgerInv, TypeOK, UndoneExactlyOnce, OneRetryAtATime, UndoOfCompleted,
         Children, Status, Kind

\* Whatever implements the ledger keeps it well-formed, undoes an operation
\* at most once and retries it once at a time.
THEOREM LedgerCorrect == Spec => []LedgerInv
  BY LedgerInit, LedgerStep, PTL DEF Spec

\* At most one undo of an operation is running or done, and the original is
\* marked exactly by a completed one.
THEOREM LedgerUndoneExactlyOnce == Spec => []UndoneExactlyOnce
<1>1. LedgerInv => UndoneExactlyOnce
  BY DEF LedgerInv
<1> QED
  BY <1>1, LedgerCorrect, PTL
=============================================================================
