SPECIFICATION Spec
CONSTANTS
  Id = {v1}
  Client = {c1}
  Rt = {r1, r2}
  Ticket = {g1, g2}
  Handle = {h1, h2}
  Kinds = {"remove", "lock", "dismount"}
  MaxEvents = 3
  NONE = NONE
VIEW Live
INVARIANTS GrantedIsReleased OneWriter LockSuspends
