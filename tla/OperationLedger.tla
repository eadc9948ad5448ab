-------------------------- MODULE OperationLedger --------------------------
(***************************************************************************)
(* What the organizer's history promises: an operation is opened once, is  *)
(* closed once with a terminal status, and an undone operation was undone  *)
(* by exactly one completed undo.  No file, process or crash is visible.   *)
(* OrganizerMove implements this specification.                            *)
(***************************************************************************)
EXTENDS Naturals

CONSTANTS Op,    \* operation ids
          NONE   \* "no operation"

Terminal == {"completed", "skipped", "cancelled", "failed"}
Status == {"none", "started"} \cup Terminal
Kind == {"move", "retry", "undo"}

VARIABLES status,  \* [Op -> Status]; "none" is an id that has no row yet
          kind,    \* [Op -> Kind], OrganizerOperationType of the row
          parent,  \* [Op -> Op \cup {NONE}], original_operation_id
          undone   \* operations whose undone_at is set

vars == <<status, kind, parent, undone>>

Init == /\ status = [o \in Op |-> "none"]
        /\ kind = [o \in Op |-> "move"]
        /\ parent = [o \in Op |-> NONE]
        /\ undone = {}

\* The children of q of kind k whose status is in S.
Children(q, k, S) == {o \in Op : parent[o] = q /\ kind[o] = k /\ status[o] \in S}

Insert(o, k, q, st) == /\ status[o] = "none"
                       /\ status' = [status EXCEPT ![o] = st]
                       /\ kind' = [kind EXCEPT ![o] = k]
                       /\ parent' = [parent EXCEPT ![o] = q]
                       /\ UNCHANGED undone

\* A matching file is sent to the worker, or is recorded as skipped at once.
OpenMove(o) == \E st \in {"started", "skipped"} : Insert(o, "move", NONE, st)

OpenRetry(o, q) == /\ kind[q] # "undo"
                   /\ status[q] \in {"failed", "skipped", "cancelled"}
                   /\ Children(q, "retry", {"started"}) = {}
                   /\ Insert(o, "retry", q, "started")

OpenUndo(o, q) == /\ kind[q] # "undo"
                  /\ status[q] = "completed"
                  /\ q \notin undone
                  /\ Children(q, "undo", {"started", "completed"}) = {}
                  /\ Insert(o, "undo", q, "started")

\* The one terminal status of o; a completed undo marks its original.
Close(o, st) == /\ status[o] = "started"
                /\ status' = [status EXCEPT ![o] = st]
                /\ undone' = IF st = "completed" /\ kind[o] = "undo"
                             THEN undone \cup {parent[o]} ELSE undone
                /\ UNCHANGED <<kind, parent>>

Next == \E o \in Op : \/ OpenMove(o)
                      \/ \E q \in Op : OpenRetry(o, q) \/ OpenUndo(o, q)
                      \/ \E st \in Terminal : Close(o, st)

Spec == Init /\ [][Next]_vars

----------------------------------------------------------------------------
TypeOK == /\ status \in [Op -> Status]
          /\ kind \in [Op -> Kind]
          /\ parent \in [Op -> Op \cup {NONE}]
          /\ undone \subseteq Op

\* Every undone operation is a completed move or retry with exactly one
\* completed undo, and no operation has two undos that are running or done
\* (organizer_operations.undone_at and the unique index on active undos).
UndoneExactlyOnce ==
  /\ \A q \in undone : /\ status[q] = "completed"
                       /\ kind[q] # "undo"
                       /\ Children(q, "undo", {"completed"}) # {}
  /\ \A q \in Op : \A a, b \in Children(q, "undo", {"started", "completed"}) : a = b
  /\ \A o \in Op : kind[o] = "undo" /\ status[o] = "completed" => parent[o] \in undone

\* A retry is only ever attempted once at a time
\* (idx on active retries of one original operation).
OneRetryAtATime ==
  \A q \in Op : \A a, b \in Children(q, "retry", {"started"}) : a = b
=============================================================================
