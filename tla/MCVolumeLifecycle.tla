------------------------- MODULE MCVolumeLifecycle -------------------------
(* Small instances of VolumeLifecycle: one or two volumes at the letter.   *)
EXTENDS VolumeLifecycle

\* What is left in an object that nothing refers to is never read again.
Live == <<media, current, [r \in Rt |-> IF FreeRt(r) THEN NewRuntime(NONE) ELSE rt[r]],
          [g \in Ticket |-> IF FreeTicket(g) THEN NoTicket ELSE ticket[g]],
          index, [h \in Handle |-> IF FreeHandle(h) THEN NONE ELSE owner[h]],
          use, disc, reg, call, asked, used>>
=============================================================================
