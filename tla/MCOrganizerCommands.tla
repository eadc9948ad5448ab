------------------------ MODULE MCOrganizerCommands ------------------------
(* Values for OrganizerCommands: a rule that is switched on at the start,  *)
(* changed, switched off or replaced by a refused one later.               *)
EXTENDS OrganizerCommands

On(v) == [on |-> TRUE, version |-> v]
SwitchedOn == {On(1)}

Sends(kind, r, x) == [kind |-> kind, rule |-> r, file |-> x]
Plain(kind) == Sends(kind, NONE, NONE)
UserCommands ==
  {Sends("set", On(2), NONE), Sends("set", [on |-> FALSE, version |-> 1], NONE),
   Sends("invalid", On(2), NONE)}
    \cup {Sends("retry", NONE, x) : x \in File}
    \cup {Plain(kind) : kind \in {"pause", "resume", "folder"}}
=============================================================================
