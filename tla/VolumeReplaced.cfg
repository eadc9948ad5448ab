SPECIFICATION FairSpec
CONSTANTS
  Id = {v1, v2}
  Client = {c1}
  Rt = {r1, r2, r3}
  Ticket = {g1, g2}
  Handle = {h1, h2}
  Kinds = {}
  MaxEvents = 2
  NONE = NONE
INVARIANTS IndexOfCurrent SearchReadsItsVolume
PROPERTIES Settles
