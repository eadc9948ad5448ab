--------------------------- MODULE MCOrganizerEnds ---------------------------
(* Small instances of OrganizerEnds in one run: one process and two          *)
(* operations, so that a move is undone or tried again; or two processes and *)
(* one operation.  In both the user has two files, so that targets collide.  *)
EXTENDS OrganizerEnds

CONSTANTS s, d, e, p2

MCPath == {s, d, e}
MCWatched == {s}
MCSpare == {e}
MCHome == [x \in {s} |-> d]

VARIABLE alone  \* p2 is never started

MCInit == EndsInit /\ alone \in BOOLEAN

MCNext == /\ EndsNext /\ UNCHANGED alone
          /\ IF alone THEN phase'[p2] = "down"
                      ELSE \A o \in Op \ {1} : ops'[o].status = "none"

\* That of EndsSpec, for the processes that are started at all.
MCSpec == /\ MCInit /\ [][MCNext]_<<vars, deferred, alone>>
          /\ \A p \in Proc : WF_vars(Steps(p) /\ ~(alone /\ p = p2))
=============================================================================
