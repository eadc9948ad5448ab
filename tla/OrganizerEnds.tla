---------------------------- MODULE OrganizerEnds ----------------------------
(***************************************************************************)
(* OrganizerMove with a history of the operations that were given up: how  *)
(* far the organizer gets in closing what it has started.                  *)
(***************************************************************************)
EXTENDS OrganizerMove

VARIABLE deferred  \* ghost: the rows that were left started by a failed step,
                   \* and that no start has taken up since

\* The step of p gives up closing o: every attempt to write its result has
\* failed; the copy of an interrupted move cannot be removed; or the write that
\* closes a row has, which ends the whole reconciliation.
GivesUp(p, o) ==
  \/ At(p, "finish") /\ o = Cur(p) /\ used' # used /\ Finish(p)
  \/ rec[p].verdict = "rollback" /\ o = rec[p].op /\ rec'[p].op = NONE /\ RemoveCopy(p)
  \/ /\ rec[p].op # NONE /\ rec'[p].op = NONE /\ used'.faults # used.faults
     /\ o \in rec[p].todo \cup {rec[p].op} /\ CloseReconciled(p)

\* A start lists o, and the process it belonged to is gone.
TakesUp(p, o) == phase[p] = "down" /\ o \in rec'[p].todo /\ OwnerGone(o)

EndsInit == Init /\ deferred = {}

EndsNext ==
  /\ Next
  /\ deferred' = {o \in Op : /\ ops'[o].status = "started"
                             /\ \/ o \in deferred /\ \A p \in Proc : ~TakesUp(p, o)
                                \/ \E p \in Proc : GivesUp(p, o)}

\* What the processes themselves do once they are started: a running worker and a
\* starting process go on, and the application is started again after it died.  A
\* process is in one of the three at a time.  Nothing is assumed of the organizer
\* thread.
Steps(p) == Worker(p) \/ Reconciler(p) \/ Lifecycle(p)

EndsSpec == /\ EndsInit /\ [][EndsNext]_<<vars, deferred>>
            /\ \A p \in Proc : WF_vars(Steps(p))

----------------------------------------------------------------------------
\* Every operation that was started is closed in the end, by its worker, by the
\* reconciliation after a panic, or by a start after its process has died, unless
\* a step that was to close it fails; and whenever a later start takes it up again
\* it is closed after all, unless that fails once more (operation worker,
\* persist_and_send_organizer_result; organizer_operation_actions.rs,
\* reconcile_started_organizer_operations).
OperationsEnd ==
  \A o \in Op : ops[o].status = "started" ~>
                  ops[o].status \notin {"none", "started"} \/ o \in deferred
=============================================================================
