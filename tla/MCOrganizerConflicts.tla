------------------------ MODULE MCOrganizerConflicts ------------------------
(* OrganizerConflicts with interchangeable processes, and two files in each  *)
(* other's way.                                                              *)
EXTENDS OrganizerConflicts, TLC

CONSTANT Taken

Collision == {"source", "home"} \X {Taken}

Symmetry == Permutations(Proc)
=============================================================================
