--------------------------- MODULE MCOrganizerMove ---------------------------
(* Small instances of OrganizerMove: one watched path, its destination and   *)
(* one spare name.                                                           *)
EXTENDS OrganizerMove, TLC

CONSTANTS s, d, e

MCPath == {s, d, e}
MCWatched == {s}
MCSpare == {e}
MCHome == [x \in {s} |-> d]

\* Nothing tells one instance of the application from another.
Instances == Permutations(Proc)
=============================================================================
