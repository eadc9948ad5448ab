------------------------ MODULE VolumeLifecycleProofs ------------------------
(***************************************************************************)
(* Theorems about VolumeLifecycle, for any number of volumes, requests,    *)
(* runtimes, indexers and handles, every set of notifications and any      *)
(* number of events.                                                       *)
(***************************************************************************)
EXTENDS VolumeLifecycle, TLAPS

----------------------------------------------------------------------------
(* Updates of typed records.                                               *)

\* The setters of a runtime keep its type.
LEMMA RtTyped ==
  ASSUME rt \in [Rt -> RtRecord], NEW r \in Rt, NEW g \in Ticket \cup {NONE}
  PROVE  /\ SetRemoving(r) \in [Rt -> RtRecord]
         /\ SetReplacing(r) \in [Rt -> RtRecord]
         /\ CancelRemoval(r) \in [Rt -> RtRecord]
         /\ SetWorker(r, g) \in [Rt -> RtRecord]
<1>1. /\ [rt[r] EXCEPT !.removing = TRUE] \in RtRecord
      /\ [rt[r] EXCEPT !.replacing = TRUE] \in RtRecord
      /\ [rt[r] EXCEPT !.removing = FALSE] \in RtRecord
      /\ [rt[r] EXCEPT !.worker = g] \in RtRecord
  <2> rt[r] \in RtRecord
    OBVIOUS
  <2> QED
    BY DEF RtRecord
<1> QED
  BY <1>1 DEF SetRemoving, SetReplacing, CancelRemoval, SetWorker

\* A stop request changes nothing but the stop signal.
LEMMA StoppedTyped ==
  ASSUME rt \in [Rt -> RtRecord], ticket \in [Ticket -> TicketRecord], NEW r \in Rt
  PROVE  /\ Stopped(r) \in [Ticket -> TicketRecord]
         /\ \A g \in Ticket : /\ Stopped(r)[g].rt = ticket[g].rt
                              /\ Stopped(r)[g].pc = ticket[g].pc
                              /\ Stopped(r)[g].handle = ticket[g].handle
<1>1. CASE rt[r].worker = NONE
  BY <1>1 DEF Stopped
<1>2. CASE rt[r].worker # NONE
  <2> DEFINE w == rt[r].worker
  <2>1. w \in Ticket
    BY <1>2 DEF RtRecord
  <2>2. Stopped(r) = [ticket EXCEPT ![w] = [ticket[w] EXCEPT !.stop = TRUE]]
    BY <1>2 DEF Stopped
  <2>3. ticket[w] \in TicketRecord
    BY <2>1
  <2>4. /\ [ticket[w] EXCEPT !.stop = TRUE] \in TicketRecord
        /\ [ticket[w] EXCEPT !.stop = TRUE].rt = ticket[w].rt
        /\ [ticket[w] EXCEPT !.stop = TRUE].pc = ticket[w].pc
        /\ [ticket[w] EXCEPT !.stop = TRUE].handle = ticket[w].handle
    BY <2>3 DEF TicketRecord
  <2> QED
    BY <2>1, <2>2, <2>4
<1> QED
  BY <1>1, <1>2

\* An indexer that leaves drops its handle.
LEMMA LeaveTyped ==
  ASSUME ticket \in [Ticket -> TicketRecord], NEW g \in Ticket
  PROVE  /\ Leave(g) \in [Ticket -> TicketRecord]
         /\ Leave(g)[g].rt = ticket[g].rt /\ Leave(g)[g].pc = "leave"
         /\ Leave(g)[g].handle = NONE
         /\ \A x \in Ticket \ {g} : Leave(g)[x] = ticket[x]
<1> DEFINE t == [ticket[g] EXCEPT !.pc = "leave", !.handle = NONE]
<1>1. ticket[g] \in TicketRecord
  OBVIOUS
<1>2. t \in TicketRecord /\ t.rt = ticket[g].rt /\ t.pc = "leave" /\ t.handle = NONE
  BY <1>1 DEF TicketRecord
<1>3. Leave(g) = [ticket EXCEPT ![g] = t]
  BY DEF Leave
<1> QED
  BY <1>2, <1>3

\* What ensure_runtime leaves of the discovery thread.
LEMMA NotEnsuredTyped ==
  ASSUME disc \in DiscRecord, NotEnsured
  PROVE  disc' \in DiscRecord /\ disc'.pc \in {"wait", "stale"} /\ disc'.rt = NONE
BY DEF NotEnsured, DiscRecord

\* The runtime is kept for claim_worker.
LEMMA EnsuredTyped ==
  ASSUME disc \in DiscRecord, NEW r \in Rt, Ensured(r)
  PROVE  /\ disc' \in DiscRecord
         /\ disc'.pc \in {"drain", "join", "swap", "claim"} <=> disc'.rt # NONE
<1>1. CASE disc.next = "claim"
  BY <1>1, VolumeAssumption DEF Ensured, DiscRecord
<1>2. CASE disc.next = "stale"
  BY <1>2 DEF Ensured, DiscRecord
<1> QED
  BY <1>1, <1>2 DEF DiscRecord

\* disconnect_volume keeps the types.
LEMMA DetachTyped ==
  ASSUME TypeOK, NEW i \in Id \cup {NONE}, Detach(i)
  PROVE  /\ current' \in Rt \cup {NONE}
         /\ rt' \in [Rt -> RtRecord]
         /\ index' \in Handle \cup {NONE}
         /\ ticket' \in [Ticket -> TicketRecord]
         /\ \A x \in Ticket : ticket'[x].rt = NONE <=> ticket'[x].pc \in {"free", "done"}
<1>1. CASE RuntimeOf(i) = NONE
  BY <1>1 DEF Detach, TypeOK
<1>2. CASE RuntimeOf(i) # NONE
  <2>1. current \in Rt
    BY <1>2 DEF RuntimeOf, TypeOK
  <2>2. /\ current' = NONE /\ rt' = SetRemoving(current) /\ ticket' = Stopped(current)
        /\ index' = RemoveIndexIfOwned(current)
    BY <1>2 DEF Detach
  <2>3. index' \in Handle \cup {NONE}
    BY <2>2 DEF RemoveIndexIfOwned, TypeOK
  <2>4. rt \in [Rt -> RtRecord] /\ ticket \in [Ticket -> TicketRecord]
    BY DEF TypeOK
  <2>5. rt' \in [Rt -> RtRecord]
    BY <2>1, <2>2, <2>4, RtTyped
  <2>6. /\ Stopped(current) \in [Ticket -> TicketRecord]
        /\ \A g \in Ticket : /\ Stopped(current)[g].rt = ticket[g].rt
                              /\ Stopped(current)[g].pc = ticket[g].pc
    BY <2>1, <2>4, StoppedTyped
  <2>7. \A x \in Ticket : ticket'[x].rt = NONE <=> ticket'[x].pc \in {"free", "done"}
    BY <2>2, <2>6 DEF TypeOK
  <2> QED
    BY <2>2, <2>3, <2>5, <2>6, <2>7
<1> QED
  BY <1>1, <1>2

\* What Windows has asked of one volume, after an answer.
LEMMA AskedTyped ==
  ASSUME asked \in [Id -> [Kinds -> Answers]], NEW i \in Id, NEW k, NEW a \in Answers
  PROVE  /\ [asked EXCEPT ![i] = [asked[i] EXCEPT ![k] = a]] \in [Id -> [Kinds -> Answers]]
         /\ [asked EXCEPT ![i] = [Lifted(i) EXCEPT ![k] = a]] \in [Id -> [Kinds -> Answers]]
<1>1. asked[i] \in [Kinds -> Answers]
  OBVIOUS
<1>2. Lifted(i) \in [Kinds -> Answers]
  BY <1>1 DEF Lifted, Answers
<1>3. /\ [asked[i] EXCEPT ![k] = a] \in [Kinds -> Answers]
      /\ [Lifted(i) EXCEPT ![k] = a] \in [Kinds -> Answers]
  BY <1>1, <1>2
<1> QED
  BY <1>3

\* What the answer may be.
LEMMA AnswerFact ==
  ASSUME NEW i
  PROVE  Granted(i) \in {"held", "yes"} /\ {"held", "yes", "no", "running"} \subseteq Answers
BY DEF Granted, Answers

----------------------------------------------------------------------------
\* Type correctness of volume_lifecycle.rs and its callers: an actor that is
\* inside an operation holds the objects the operation is about.
THEOREM VolumeTypeOK == Spec => []TypeOK
<1>1. Init => TypeOK
  BY VolumeAssumption DEF Init, TypeOK, NewRuntime, NoTicket, NoUse, NoCall, Asleep,
     RtRecord, TicketRecord, UseRecord, DiscRecord, CallRecord, Answers
<1>2. TypeOK /\ [Next]_vars => TypeOK'
  <2> SUFFICES ASSUME TypeOK, [Next]_vars PROVE TypeOK'
    OBVIOUS
  <2> USE VolumeAssumption
  <2>1. ASSUME NEW c \in Client, FindVolume(c) PROVE TypeOK'
    <3>1. use' \in [Client -> UseRecord]
      BY <2>1 DEF TypeOK, FindVolume, clientOnly, UseRecord
    <3>2. \A x \in Client : use'[x].pc = "out" <=> use'[x].rt = NONE
      BY <2>1 DEF TypeOK, FindVolume, clientOnly, UseRecord
    <3> QED
      BY <2>1, <3>1, <3>2 DEF TypeOK, FindVolume, clientOnly
  <2>2. ASSUME NEW c \in Client, AcquireVolume(c) PROVE TypeOK'
    <3>1. use[c] \in UseRecord
      BY DEF TypeOK
    <3>2. CASE Admits(use[c].rt)
      <4> DEFINE u == [use[c] EXCEPT !.pc = "in"]
      <4>1. use' = [use EXCEPT ![c] = u]
        BY <2>2, <3>2 DEF AcquireVolume
      <4>2. u \in UseRecord /\ u.pc = "in" /\ u.rt = use[c].rt /\ use[c].rt # NONE
        BY <2>2, <3>1 DEF UseRecord, AcquireVolume, TypeOK
      <4>3. use' \in [Client -> UseRecord]
        BY <4>1, <4>2 DEF TypeOK
      <4>4. \A x \in Client : use'[x].pc = "out" <=> use'[x].rt = NONE
        BY <4>1, <4>2 DEF TypeOK
      <4> QED
        BY <2>2, <4>3, <4>4 DEF TypeOK, AcquireVolume, clientOnly
    <3>3. CASE ~Admits(use[c].rt)
      BY <2>2, <3>3 DEF AcquireVolume, TypeOK, NoUse, UseRecord, clientOnly
    <3> QED
      BY <3>2, <3>3
  <2>3. ASSUME NEW c \in Client, AcquireSearchAccess(c) PROVE TypeOK'
    <3>1. use' \in [Client -> UseRecord]
      BY <2>3 DEF TypeOK, AcquireSearchAccess, clientOnly, UseRecord
    <3>2. \A x \in Client : use'[x].pc = "out" <=> use'[x].rt = NONE
      BY <2>3 DEF TypeOK, AcquireSearchAccess, clientOnly, UseRecord
    <3> QED
      BY <2>3, <3>1, <3>2 DEF TypeOK, AcquireSearchAccess, clientOnly
  <2>4. ASSUME NEW c \in Client, ReleaseUse(c) PROVE TypeOK'
    <3>1. use' \in [Client -> UseRecord]
      BY <2>4 DEF TypeOK, ReleaseUse, clientOnly, NoUse, UseRecord
    <3>2. \A x \in Client : use'[x].pc = "out" <=> use'[x].rt = NONE
      BY <2>4 DEF TypeOK, ReleaseUse, clientOnly, NoUse, UseRecord
    <3> QED
      BY <2>4, <3>1, <3>2 DEF TypeOK, ReleaseUse, clientOnly
  <2>5. ASSUME NEW g \in Ticket, Publish(g) PROVE TypeOK'
    <3>1. ticket[g] \in TicketRecord /\ ticket[g].rt \in Rt
      BY <2>5 DEF TypeOK, Publish, TicketRecord
    <3>2. CASE MayPublish(g)
      <4> DEFINE h == IF index = NONE THEN CHOOSE x \in Handle : FreeHandle(x) ELSE index
                 t == [ticket[g] EXCEPT !.handle = h]
      <4>1. h \in Handle
        BY <2>5, <3>2 DEF Publish, TypeOK
      <4>2. t \in TicketRecord /\ t.rt = ticket[g].rt /\ t.pc = ticket[g].pc
        BY <3>1, <4>1 DEF TicketRecord
      <4>3. rt[ticket[g].rt].id \in Id \cup {NONE}
        BY <3>1 DEF TypeOK, RtRecord
      <4>4. index' = h /\ owner' = [owner EXCEPT ![h] = rt[ticket[g].rt].id]
            /\ ticket' = [ticket EXCEPT ![g] = t]
        BY <2>5, <3>2 DEF Publish
      <4> HIDE DEF h, t
      <4>5. /\ ticket' \in [Ticket -> TicketRecord]
            /\ \A x \in Ticket : ticket'[x].rt = ticket[x].rt /\ ticket'[x].pc = ticket[x].pc
        BY <4>2, <4>4 DEF TypeOK
      <4>6. index' \in Handle \cup {NONE} /\ owner' \in [Handle -> Id \cup {NONE}]
        BY <4>1, <4>3, <4>4 DEF TypeOK
      <4>7. UNCHANGED <<media, current, rt, use, disc, reg, call, asked, used>>
        BY <2>5 DEF Publish
      <4>8. \A x \in Ticket : ticket'[x].rt = NONE <=> ticket'[x].pc \in {"free", "done"}
        BY <4>5 DEF TypeOK
      <4> QED
        BY <4>5, <4>6, <4>7, <4>8 DEF TypeOK
    <3>3. CASE ~MayPublish(g)
      <4>1. ticket' = Leave(g) /\ UNCHANGED <<index, owner>>
        BY <2>5, <3>3 DEF Publish, Leave
      <4>2. ticket \in [Ticket -> TicketRecord]
        BY DEF TypeOK
      <4>3. /\ ticket' \in [Ticket -> TicketRecord]
            /\ ticket'[g].rt \in Rt /\ ticket'[g].pc = "leave"
            /\ \A x \in Ticket \ {g} : ticket'[x] = ticket[x]
        BY <3>1, <4>1, <4>2, LeaveTyped
      <4>4. UNCHANGED <<media, current, rt, index, owner, use, disc, reg, call, asked, used>>
        BY <2>5, <4>1 DEF Publish
      <4>5. \A x \in Ticket : ticket'[x].rt = NONE <=> ticket'[x].pc \in {"free", "done"}
        BY <4>3, VolumeAssumption DEF TypeOK
      <4> QED
        BY <4>3, <4>4, <4>5 DEF TypeOK
    <3> QED
      BY <3>2, <3>3
  <2>6. ASSUME NEW g \in Ticket, WorkerEnds(g) PROVE TypeOK'
    <3>1. used' \in 0..MaxEvents
      BY <2>6 DEF WorkerEnds, Event, TypeOK
    <3>2. ticket[g].rt # NONE
      BY <2>6 DEF WorkerEnds, TypeOK
    <3> QED
      BY <2>6, <3>1, <3>2, LeaveTyped DEF TypeOK, WorkerEnds
  <2>7. ASSUME NEW g \in Ticket, DropTicket(g) PROVE TypeOK'
    <3>1. ticket[g] \in TicketRecord /\ ticket[g].rt \in Rt
      BY <2>7 DEF TypeOK, DropTicket, TicketRecord
    <3>2. rt' \in [Rt -> RtRecord]
      BY <2>7, <3>1, RtTyped DEF TypeOK, DropTicket
    <3> DEFINE t == [ticket[g] EXCEPT !.pc = "finish"]
    <3>3. t \in TicketRecord /\ t.pc = "finish" /\ t.rt = ticket[g].rt
      BY <3>1 DEF TicketRecord
    <3>4. ticket' = [ticket EXCEPT ![g] = t]
      BY <2>7 DEF DropTicket
    <3> QED
      BY <2>7, <3>1, <3>2, <3>3, <3>4 DEF TypeOK, DropTicket
  <2>8. ASSUME NEW g \in Ticket, FinishTicket(g) PROVE TypeOK'
    <3>1. ticket' \in [Ticket -> TicketRecord]
      BY <2>8 DEF TypeOK, FinishTicket, NoTicket, TicketRecord
    <3>2. \A x \in Ticket : ticket'[x].rt = NONE <=> ticket'[x].pc \in {"free", "done"}
      BY <2>8 DEF TypeOK, FinishTicket, NoTicket, TicketRecord
    <3> QED
      BY <2>8, <3>1, <3>2 DEF TypeOK, FinishTicket
  <2>9. ASSUME Discover PROVE TypeOK'
    <3>1. used' \in 0..MaxEvents
      BY <2>9 DEF Discover, Event, TypeOK
    <3>2. PICK i \in {media, NONE} : disc' = [Asleep EXCEPT !.pc = "retire", !.found = i]
      BY <2>9 DEF Discover
    <3>3. disc' \in DiscRecord /\ disc'.pc = "retire" /\ disc'.rt = NONE
      BY <3>2 DEF TypeOK, Asleep, DiscRecord
    <3> QED
      BY <2>9, <3>1, <3>3 DEF TypeOK, Discover, discOnly
  <2>10. ASSUME Retire PROVE TypeOK'
    <3>1. current' \in Rt \cup {NONE}
      BY <2>10 DEF TypeOK, Retire, Goto
    <3>2. disc' \in DiscRecord
      BY <2>10 DEF TypeOK, Retire, Goto, DiscRecord
    <3>3. disc'.pc \in {"drain", "join", "swap", "claim"} <=> disc'.rt # NONE
      BY <2>10 DEF TypeOK, Retire, Goto, DiscRecord
    <3> QED
      BY <2>10, <3>1, <3>2, <3>3 DEF TypeOK, Retire
  <2>11. ASSUME EnsureInsert PROVE TypeOK'
    <3> DEFINE r == CHOOSE x \in Rt : FreeRt(x)
                 n == NewRuntime(disc.found)
    <3>1. r \in Rt /\ rt' = [rt EXCEPT ![r] = n] /\ current' = r /\ Ensured(r)
      BY <2>11 DEF EnsureInsert
    <3>2. n \in RtRecord
      BY DEF TypeOK, DiscRecord, NewRuntime, RtRecord
    <3>3. rt' \in [Rt -> RtRecord]
      BY <3>1, <3>2 DEF TypeOK
    <3>4. /\ disc' \in DiscRecord
          /\ disc'.pc \in {"drain", "join", "swap", "claim"} <=> disc'.rt # NONE
      BY <3>1, EnsuredTyped DEF TypeOK
    <3> QED
      BY <2>11, <3>1, <3>3, <3>4 DEF TypeOK, EnsureInsert
  <2>12. ASSUME EnsureMatch PROVE TypeOK'
    <3>1. current \in Rt
      BY <2>12 DEF TypeOK, EnsureMatch, RuntimeOf
    <3>2. /\ disc' \in DiscRecord
          /\ disc'.pc \in {"drain", "join", "swap", "claim"} <=> disc'.rt # NONE
      BY <2>12, <3>1, EnsuredTyped DEF TypeOK, EnsureMatch
    <3> QED
      BY <2>12, <3>2 DEF TypeOK, EnsureMatch, discOnly
  <2>13. ASSUME EnsureReplace PROVE TypeOK'
    <3>1. current \in Rt
      BY <2>13 DEF TypeOK, EnsureReplace
    <3>2. rt' \in [Rt -> RtRecord]
      BY <2>13, <3>1, RtTyped DEF TypeOK, EnsureReplace
    <3>3. /\ ticket' \in [Ticket -> TicketRecord]
          /\ \A x \in Ticket : ticket'[x].rt = NONE <=> ticket'[x].pc \in {"free", "done"}
      BY <2>13, <3>1, StoppedTyped DEF TypeOK, EnsureReplace
    <3>4. index' \in Handle \cup {NONE}
      BY <2>13 DEF TypeOK, EnsureReplace, RemoveIndexIfOwned
    <3>5. rt[current].worker \in Ticket \cup {NONE}
      BY <3>1 DEF TypeOK, RtRecord
    <3>6. disc' \in DiscRecord /\ disc'.pc = "drain" /\ disc'.rt = current
      BY <2>13, <3>1, <3>5 DEF TypeOK, EnsureReplace, DiscRecord
    <3> QED
      BY <2>13, <3>1, <3>2, <3>3, <3>4, <3>6, VolumeAssumption DEF TypeOK, EnsureReplace
  <2>14. ASSUME ReplaceWait PROVE TypeOK'
    <3>1. /\ disc' \in DiscRecord
          /\ disc'.pc \in {"drain", "join", "swap", "claim"} <=> disc'.rt # NONE
      <4>1. CASE NotEnsured
        BY <4>1, NotEnsuredTyped DEF TypeOK
      <4>2. CASE disc.pc = "drain" /\ disc' = [disc EXCEPT !.pc = "join"]
        BY <4>2 DEF TypeOK, DiscRecord
      <4>3. CASE disc.pc = "join" /\ disc' = [disc EXCEPT !.pc = "swap"]
        BY <4>3 DEF TypeOK, DiscRecord
      <4> QED
        BY <2>14, <4>1, <4>2, <4>3 DEF ReplaceWait, Goto
    <3> QED
      BY <2>14, <3>1 DEF TypeOK, ReplaceWait, discOnly
  <2>15. ASSUME Swap PROVE TypeOK'
    <3>1. CASE ReplacementIsIdle(disc.rt)
      <4>1. disc' = [disc EXCEPT !.pc = "ensure", !.rt = NONE, !.worker = NONE]
        BY <2>15, <3>1 DEF Swap
      <4>2. disc' \in DiscRecord /\ disc'.pc = "ensure" /\ disc'.rt = NONE
        BY <4>1 DEF TypeOK, DiscRecord
      <4>3. current' \in Rt \cup {NONE}
        BY <2>15, <3>1 DEF Swap, TypeOK
      <4> QED
        BY <2>15, <4>2, <4>3 DEF TypeOK, Swap
    <3>2. CASE ~ReplacementIsIdle(disc.rt)
      BY <2>15, <3>2, NotEnsuredTyped DEF TypeOK, Swap
    <3> QED
      BY <3>1, <3>2
  <2>16. ASSUME ListStale PROVE TypeOK'
    <3>1. disc \in DiscRecord /\ disc.rt = NONE
      BY <2>16 DEF TypeOK, ListStale
    <3>2. CASE Gone
      <4>1. rt[current].id \in Id \cup {NONE}
        BY <3>2 DEF Gone, TypeOK, RtRecord
      <4>2. disc' = [disc EXCEPT !.pc = "disconnect", !.stale = rt[current].id]
        BY <2>16, <3>2 DEF ListStale
      <4>3. disc' \in DiscRecord /\ disc'.pc = "disconnect" /\ disc'.rt = NONE
        BY <3>1, <4>1, <4>2 DEF DiscRecord
      <4> QED
        BY <2>16, <4>3 DEF TypeOK, ListStale, Gone, discOnly
    <3>3. CASE ~Gone
      <4>1. disc' = [disc EXCEPT !.pc = "notify", !.stale = NONE]
        BY <2>16, <3>3 DEF ListStale
      <4>2. disc' \in DiscRecord /\ disc'.pc = "notify" /\ disc'.rt = NONE
        BY <3>1, <4>1 DEF DiscRecord
      <4> QED
        BY <2>16, <4>2 DEF TypeOK, ListStale, Gone, discOnly
    <3> QED
      BY <3>2, <3>3
  <2>17. ASSUME DisconnectStale PROVE TypeOK'
    <3>1. disc' \in DiscRecord /\ disc'.pc = "notify" /\ disc'.rt = NONE
      BY <2>17 DEF TypeOK, DisconnectStale, DiscRecord
    <3>2. disc.stale \in Id \cup {NONE}
      BY DEF TypeOK, DiscRecord
    <3> QED
      BY <2>17, <3>1, <3>2, DetachTyped DEF TypeOK, DisconnectStale
  <2>18. ASSUME ReconcileNotifications PROVE TypeOK'
    <3>1. reg' \in [Id -> {"none", "armed", "stale", "closing"}]
      BY <2>18 DEF TypeOK, ReconcileNotifications, Goto
    <3>2. disc' \in DiscRecord
      BY <2>18 DEF TypeOK, ReconcileNotifications, Goto, DiscRecord
    <3>3. disc'.pc \in {"drain", "join", "swap", "claim"} <=> disc'.rt # NONE
      BY <2>18 DEF TypeOK, ReconcileNotifications, Goto, DiscRecord
    <3> QED
      BY <2>18, <3>1, <3>2, <3>3 DEF TypeOK, ReconcileNotifications
  <2>19. ASSUME Unregister PROVE TypeOK'
    <3>1. reg' \in [Id -> {"none", "armed", "stale", "closing"}]
      BY <2>19 DEF TypeOK, Unregister, Goto
    <3>2. disc' \in DiscRecord
      BY <2>19 DEF TypeOK, Unregister, Goto, DiscRecord
    <3>3. disc'.pc \in {"drain", "join", "swap", "claim"} <=> disc'.rt # NONE
      BY <2>19 DEF TypeOK, Unregister, Goto, DiscRecord
    <3> QED
      BY <2>19, <3>1, <3>2, <3>3 DEF TypeOK, Unregister
  <2>20. ASSUME EnsureNotification PROVE TypeOK'
    <3>1. used' \in 0..MaxEvents
      BY <2>20 DEF EnsureNotification, Event, TypeOK
    <3>2. reg' \in [Id -> {"none", "armed", "stale", "closing"}]
      <4>1. reg' = reg \/ reg' = [reg EXCEPT ![disc.found] = "armed"]
            \/ reg' = [reg EXCEPT ![disc.found] = "none"]
        BY <2>20 DEF EnsureNotification
      <4> QED
        BY <4>1 DEF TypeOK
    <3>3. /\ disc' \in DiscRecord
          /\ disc'.pc \in {"drain", "join", "swap", "claim"} <=> disc'.rt # NONE
      <4>1. disc.pc = "register" /\ disc.rt = NONE
        BY <2>20 DEF EnsureNotification, TypeOK
      <4>2. disc' = [disc EXCEPT !.pc = "ensure", !.next = "claim"]
            \/ disc' = [disc EXCEPT !.pc = "wait"]
        BY <2>20 DEF EnsureNotification, Goto
      <4>3. disc \in DiscRecord
        BY DEF TypeOK
      <4>4. CASE disc' = [disc EXCEPT !.pc = "ensure", !.next = "claim"]
        BY <4>1, <4>3, <4>4 DEF DiscRecord
      <4>5. CASE disc' = [disc EXCEPT !.pc = "wait"]
        BY <4>1, <4>3, <4>5 DEF DiscRecord
      <4> QED
        BY <4>2, <4>4, <4>5
    <3> QED
      BY <2>20, <3>1, <3>2, <3>3 DEF TypeOK, EnsureNotification
  <2>21. ASSUME ClaimWorker PROVE TypeOK'
    <3>1. disc.rt \in Rt
      BY <2>21 DEF TypeOK, ClaimWorker, DiscRecord
    <3>2. disc' \in DiscRecord /\ disc'.pc = "wait" /\ disc'.rt = NONE
      BY <2>21 DEF ClaimWorker, Asleep, DiscRecord
    <3>3. CASE UNCHANGED <<ticket, rt>>
      BY <2>21, <3>2, <3>3 DEF TypeOK, ClaimWorker
    <3>4. CASE Claimable(disc.rt) /\ ~UNCHANGED <<ticket, rt>>
      <4> DEFINE g == CHOOSE x \in Ticket : FreeTicket(x)
                 t == [NoTicket EXCEPT !.rt = disc.rt, !.pc = "run"]
      <4>1. g \in Ticket /\ ticket' = [ticket EXCEPT ![g] = t] /\ rt' = SetWorker(disc.rt, g)
        BY <2>21, <3>4 DEF ClaimWorker
      <4>2. t \in TicketRecord /\ t.pc = "run" /\ t.rt = disc.rt
        BY <3>1 DEF NoTicket, TicketRecord
      <4>3. rt' \in [Rt -> RtRecord]
        BY <3>1, <4>1, RtTyped DEF TypeOK
      <4> QED
        BY <2>21, <3>1, <3>2, <4>1, <4>2, <4>3 DEF TypeOK, ClaimWorker
    <3> QED
      BY <2>21, <3>3, <3>4 DEF ClaimWorker
  <2>22. ASSUME NEW i \in Id, BeginRemoval(i) PROVE TypeOK'
    <3>1. call[i] \in CallRecord /\ call[i].rt \in Rt
      BY <2>22 DEF TypeOK, BeginRemoval, CallRecord
    <3>2. rt' \in [Rt -> RtRecord] /\ rt[call[i].rt].worker \in Ticket \cup {NONE}
      BY <2>22, <3>1, RtTyped DEF TypeOK, BeginRemoval, RtRecord
    <3>3. /\ ticket' \in [Ticket -> TicketRecord]
          /\ \A x \in Ticket : ticket'[x].rt = NONE <=> ticket'[x].pc \in {"free", "done"}
      <4>1. ticket' = Stopped(call[i].rt)
        BY <2>22 DEF BeginRemoval
      <4>2. rt \in [Rt -> RtRecord] /\ ticket \in [Ticket -> TicketRecord]
        BY DEF TypeOK
      <4>3. /\ Stopped(call[i].rt) \in [Ticket -> TicketRecord]
            /\ \A x \in Ticket : /\ Stopped(call[i].rt)[x].rt = ticket[x].rt
                                  /\ Stopped(call[i].rt)[x].pc = ticket[x].pc
        BY <3>1, <4>2, StoppedTyped
      <4> QED
        BY <4>1, <4>3 DEF TypeOK
    <3> DEFINE n == [call[i] EXCEPT !.pc = "drain", !.worker = rt[call[i].rt].worker]
    <3>4. n \in CallRecord /\ n.pc = "drain" /\ n.rt = call[i].rt
      BY <3>1, <3>2 DEF CallRecord
    <3>5. call' = [call EXCEPT ![i] = n]
      BY <2>22 DEF BeginRemoval
    <3> QED
      BY <2>22, <3>1, <3>2, <3>3, <3>4, <3>5 DEF TypeOK, BeginRemoval
  <2>23. ASSUME NEW i \in Id, DrainUses(i) PROVE TypeOK'
    <3>1. call[i] \in CallRecord /\ call[i].rt # NONE
      BY <2>23 DEF TypeOK, DrainUses
    <3> DEFINE n == [call[i] EXCEPT !.pc = "join"]
    <3>2. n \in CallRecord /\ n.pc = "join" /\ n.rt = call[i].rt
      BY <3>1 DEF CallRecord
    <3>3. call' = [call EXCEPT ![i] = n]
      BY <2>23 DEF DrainUses
    <3> QED
      BY <2>23, <3>1, <3>2, <3>3 DEF TypeOK, DrainUses
  <2>24. ASSUME NEW i \in Id, JoinWorker(i) PROVE TypeOK'
    <3>1. call[i].rt \in Rt
      BY <2>24 DEF TypeOK, JoinWorker, CallRecord
    <3>2. \/ asked' = [asked EXCEPT ![i] = [Lifted(i) EXCEPT ![call[i].kind] = "yes"]]
          \/ asked' = [asked EXCEPT ![i] = [asked[i] EXCEPT ![call[i].kind] = Granted(i)]]
      BY <2>24 DEF JoinWorker
    <3>3. asked' \in [Id -> [Kinds -> Answers]]
      <4> DEFINE e == [Lifted(i) EXCEPT ![call[i].kind] = "yes"]
                 u == [asked[i] EXCEPT ![call[i].kind] = Granted(i)]
      <4>1. e \in [Kinds -> Answers] /\ u \in [Kinds -> Answers]
        <5>1. asked[i] \in [Kinds -> Answers]
          BY DEF TypeOK
        <5>2. Lifted(i) \in [Kinds -> Answers]
          BY <5>1 DEF Lifted, Answers
        <5> QED
          BY <5>1, <5>2, AnswerFact
      <4>2. asked' = [asked EXCEPT ![i] = e] \/ asked' = [asked EXCEPT ![i] = u]
        BY <3>2
      <4> HIDE DEF e, u
      <4> QED
        BY <4>1, <4>2 DEF TypeOK
    <3> DEFINE d == [NoCall EXCEPT !.pc = "detach"]
    <3>4. /\ NoCall \in CallRecord /\ NoCall.pc = "idle" /\ NoCall.rt = NONE
          /\ d \in CallRecord /\ d.pc = "detach" /\ d.rt = NONE
      BY DEF CallRecord, NoCall
    <3>5. call' = [call EXCEPT ![i] = d] \/ call' = [call EXCEPT ![i] = NoCall]
      BY <2>24 DEF JoinWorker
    <3>6. call' \in [Id -> CallRecord]
      BY <3>4, <3>5 DEF TypeOK
    <3>7. ASSUME NEW x \in Id PROVE call'[x].pc \in {"idle", "detach"} <=> call'[x].rt = NONE
      <4> HIDE DEF d
      <4>1. CASE x = i
        BY <3>4, <3>5, <4>1 DEF TypeOK
      <4>2. CASE x # i
        <5>1. call'[x] = call[x]
          BY <3>5, <4>2 DEF TypeOK
        <5> QED
          BY <5>1 DEF TypeOK
      <4> QED
        BY <4>1, <4>2
    <3> QED
      BY <2>24, <3>3, <3>6, <3>7 DEF TypeOK, JoinWorker
  <2>25. ASSUME NEW i \in Id, GiveUp(i) PROVE TypeOK'
    <3>1. call[i] \in CallRecord /\ call[i].rt \in Rt
      BY <2>25 DEF TypeOK, GiveUp, CallRecord
    <3>2. index' \in Handle \cup {NONE}
      BY <2>25 DEF TypeOK, GiveUp, RemoveIndexIfOwned
    <3>3. CASE RestoresOnTimeout(call[i].kind)
      <4> DEFINE n == [call[i] EXCEPT !.pc = "restore"]
      <4>1. n \in CallRecord /\ n.pc = "restore" /\ n.rt = call[i].rt
        BY <3>1 DEF CallRecord
      <4>2. call' = [call EXCEPT ![i] = n] /\ asked' = asked
        BY <2>25, <3>3 DEF GiveUp
      <4> QED
        BY <2>25, <3>1, <3>2, <4>1, <4>2 DEF TypeOK, GiveUp
    <3>4. CASE ~RestoresOnTimeout(call[i].kind)
      <4>1. NoCall \in CallRecord /\ NoCall.pc = "idle" /\ NoCall.rt = NONE
        BY DEF CallRecord, NoCall
      <4>2. /\ call' = [call EXCEPT ![i] = NoCall]
            /\ asked' = [asked EXCEPT ![i] = [asked[i] EXCEPT ![call[i].kind] = Granted(i)]]
        BY <2>25, <3>4 DEF GiveUp
      <4>3. asked' \in [Id -> [Kinds -> Answers]]
        BY <4>2, AskedTyped, AnswerFact DEF TypeOK
      <4> QED
        BY <2>25, <3>2, <4>1, <4>2, <4>3 DEF TypeOK, GiveUp
    <3> QED
      BY <3>3, <3>4
  <2>26. ASSUME NEW i \in Id, Restore(i) PROVE TypeOK'
    <3>1. call[i].rt \in Rt
      BY <2>26 DEF TypeOK, Restore, CallRecord
    <3>2. rt' \in [Rt -> RtRecord]
      BY <2>26, <3>1, RtTyped DEF TypeOK, Restore
    <3>3. NoCall \in CallRecord /\ NoCall.pc = "idle" /\ NoCall.rt = NONE
      BY DEF CallRecord, NoCall
    <3>4. \E a \in Answers :
            asked' = [asked EXCEPT ![i] = [Lifted(i) EXCEPT ![call[i].kind] = a]]
      BY <2>26, AnswerFact DEF Restore
    <3>5. asked' \in [Id -> [Kinds -> Answers]]
      BY <3>4, AskedTyped DEF TypeOK
    <3> QED
      BY <2>26, <3>2, <3>3, <3>5 DEF TypeOK, Restore
  <2>27. ASSUME NEW i \in Id, Reopen(i) PROVE TypeOK'
    <3>1. call[i].rt \in Rt
      BY <2>27 DEF TypeOK, Reopen, CallRecord
    <3>2. rt' \in [Rt -> RtRecord]
      BY <2>27, <3>1, RtTyped DEF TypeOK, Reopen
    <3>3. index' \in Handle \cup {NONE}
      BY <2>27 DEF TypeOK, Reopen, RemoveIndexIfOwned
    <3>4. NoCall \in CallRecord /\ NoCall.pc = "idle" /\ NoCall.rt = NONE
      BY DEF CallRecord, NoCall
    <3> QED
      BY <2>27, <3>2, <3>3, <3>4 DEF TypeOK, Reopen
  <2>28. ASSUME NEW i \in Id, DetachGone(i) PROVE TypeOK'
    <3>1. NoCall \in CallRecord /\ NoCall.pc = "idle" /\ NoCall.rt = NONE
      BY DEF CallRecord, NoCall
    <3> QED
      BY <2>28, <3>1, DetachTyped DEF TypeOK, DetachGone
  <2>29. ASSUME ChangeMedia PROVE TypeOK'
    <3>1. used' \in 0..MaxEvents
      BY <2>29 DEF TypeOK, ChangeMedia, Event
    <3>2. media' \in Id \cup {NONE}
      BY <2>29 DEF TypeOK, ChangeMedia, Event
    <3> QED
      BY <2>29, <3>1, <3>2 DEF TypeOK, ChangeMedia
  <2>30. ASSUME NEW i \in Id, Removed(i) PROVE TypeOK'
    <3>1. reg' \in [Id -> {"none", "armed", "stale", "closing"}]
      BY <2>30 DEF TypeOK, Removed, NoCall, Event
    <3>2. call' \in [Id -> CallRecord]
      BY <2>30 DEF TypeOK, Removed, NoCall, Event, CallRecord
    <3>3. \A x \in Id : call'[x].pc \in {"idle", "detach"} <=> call'[x].rt = NONE
      BY <2>30 DEF TypeOK, Removed, NoCall, Event, CallRecord
    <3>4. asked' \in [Id -> [Kinds -> Answers]]
      BY <2>30 DEF TypeOK, Removed, NoCall, Event, Answers
    <3>5. used' \in 0..MaxEvents
      BY <2>30 DEF TypeOK, Removed, NoCall, Event
    <3> QED
      BY <2>30, <3>1, <3>2, <3>3, <3>4, <3>5 DEF TypeOK, Removed
  <2>31. ASSUME NEW i \in Id, NEW k \in Kinds, Ask(i, k) PROVE TypeOK'
    <3>1. used' \in 0..MaxEvents /\ reg' \in [Id -> {"none", "armed", "stale", "closing"}]
      BY <2>31 DEF Ask, Event, TypeOK
    <3>4. \E a \in Answers : asked' = [asked EXCEPT ![i] = [asked[i] EXCEPT ![k] = a]]
      BY <2>31, AnswerFact DEF Ask
    <3>5. asked' \in [Id -> [Kinds -> Answers]]
      BY <3>4, AskedTyped DEF TypeOK
    <3>6. RuntimeOf(i) \in Rt \cup {NONE}
      BY DEF RuntimeOf, TypeOK
    <3> DEFINE n == [pc |-> "begin", kind |-> k, rt |-> RuntimeOf(i), worker |-> NONE]
    <3>7. n \in CallRecord /\ n.pc = "begin" /\ n.rt = RuntimeOf(i)
      BY <3>6 DEF CallRecord
    <3>8. call' = call \/ (RuntimeOf(i) # NONE /\ call' = [call EXCEPT ![i] = n])
      BY <2>31 DEF Ask
    <3>9. call' \in [Id -> CallRecord]
      BY <3>7, <3>8 DEF TypeOK
    <3>10. \A x \in Id : call'[x].pc \in {"idle", "detach"} <=> call'[x].rt = NONE
      BY <3>7, <3>8 DEF TypeOK
    <3> QED
      BY <2>31, <3>1, <3>5, <3>9, <3>10 DEF TypeOK, Ask
  <2>32. ASSUME NEW i \in Id, NEW k \in Kinds, Ended(i, k) PROVE TypeOK'
    <3>1. asked' \in [Id -> [Kinds -> Answers]]
      <4>1. asked' = [asked EXCEPT ![i] = [Lifted(i) EXCEPT ![k] = "no"]]
        BY <2>32 DEF Ended
      <4> QED
        BY <4>1, AskedTyped, AnswerFact DEF TypeOK
    <3>2. reg' \in [Id -> {"none", "armed", "stale", "closing"}]
      BY <2>32 DEF TypeOK, Ended, NoCall, RuntimeOf
    <3>3. call' \in [Id -> CallRecord]
      BY <2>32 DEF TypeOK, Ended, NoCall, RuntimeOf, CallRecord
    <3>4. \A x \in Id : call'[x].pc \in {"idle", "detach"} <=> call'[x].rt = NONE
      BY <2>32 DEF TypeOK, Ended, NoCall, RuntimeOf, CallRecord
    <3> QED
      BY <2>32, <3>1, <3>2, <3>3, <3>4 DEF TypeOK, Ended
  <2>33. ASSUME NEW i \in Id, NEW k \in Kinds, EndedUnheard(i, k) PROVE TypeOK'
    <3>1. asked' \in [Id -> [Kinds -> Answers]]
      <4>1. asked' = [asked EXCEPT ![i] = [asked[i] EXCEPT ![k] = "no"]]
        BY <2>33 DEF EndedUnheard
      <4> QED
        BY <4>1, AskedTyped, AnswerFact DEF TypeOK
    <3> QED
      BY <2>33, <3>1 DEF TypeOK, EndedUnheard
  <2>34. CASE UNCHANGED vars
    BY <2>34 DEF vars, TypeOK
  <2> QED
    BY <2>1, <2>2, <2>3, <2>4, <2>5, <2>6, <2>7, <2>8, <2>9, <2>10, <2>11, <2>12, <2>13,
       <2>14, <2>15, <2>16, <2>17, <2>18, <2>19, <2>20, <2>21, <2>22, <2>23, <2>24, <2>25,
       <2>26, <2>27, <2>28, <2>29, <2>30, <2>31, <2>32, <2>33, <2>34
       DEF Next, ClientStep, WorkerStep, Discovery, Callback, Windows
<1> QED
  BY <1>1, <1>2, PTL DEF Spec

----------------------------------------------------------------------------
(* The published index and its readers.                                    *)

\* A runtime that makes room for another one has no index any more.
ReplacedHasNoIndex == current # NONE /\ rt[current].replacing => index = NONE

\* A request that has only looked its runtime up holds no handle yet.
ReferenceOnly == \A c \in Client : use[c].pc = "ref" => use[c].handle = NONE

IndexInv == IndexOfCurrent /\ SearchReadsItsVolume /\ ReplacedHasNoIndex /\ ReferenceOnly

\* A step under which no runtime in use changes hands.
KeepsVolumes == \A r \in Rt : rt'[r].id = rt[r].id

\* What the setters of a runtime leave alone.
LEMMA SetKeeps ==
  ASSUME rt \in [Rt -> RtRecord], NEW r \in Rt, NEW g
  PROVE  \A x \in Rt :
           /\ SetRemoving(r)[x].id = rt[x].id /\ SetRemoving(r)[x].replacing = rt[x].replacing
           /\ CancelRemoval(r)[x].id = rt[x].id /\ CancelRemoval(r)[x].replacing = rt[x].replacing
           /\ SetWorker(r, g)[x].id = rt[x].id /\ SetWorker(r, g)[x].replacing = rt[x].replacing
           /\ SetReplacing(r)[x].id = rt[x].id
BY DEF SetRemoving, CancelRemoval, SetWorker, SetReplacing, RtRecord

\* Steps that leave the index alone, or take it off the registry.
LEMMA IndexKept ==
  ASSUME TypeOK, IndexInv, KeepsVolumes, \A r \in Rt : rt'[r].replacing = rt[r].replacing,
         current' = current, owner' = owner, use' = use, index' = index \/ index' = NONE
  PROVE  IndexInv'
<1>1. current \in Rt \cup {NONE} /\ \A c \in Client : use[c].pc = "in" => use[c].rt \in Rt
  BY DEF TypeOK, UseRecord
<1>2. IndexOfCurrent' /\ ReplacedHasNoIndex'
  BY <1>1, VolumeAssumption DEF IndexInv, IndexOfCurrent, ReplacedHasNoIndex, KeepsVolumes
<1>3. SearchReadsItsVolume' /\ ReferenceOnly'
  BY <1>1 DEF IndexInv, SearchReadsItsVolume, ReferenceOnly, KeepsVolumes
<1> QED
  BY <1>2, <1>3 DEF IndexInv

\* Steps after which no index is published.
LEMMA IndexGone ==
  ASSUME TypeOK, IndexInv, KeepsVolumes, index' = NONE, owner' = owner, use' = use
  PROVE  IndexInv'
<1>1. \A c \in Client : use[c].pc = "in" => use[c].rt \in Rt
  BY DEF TypeOK, UseRecord
<1>2. SearchReadsItsVolume' /\ ReferenceOnly'
  BY <1>1 DEF IndexInv, SearchReadsItsVolume, ReferenceOnly, KeepsVolumes
<1> QED
  BY <1>2 DEF IndexInv, IndexOfCurrent, ReplacedHasNoIndex

\* A volume that is disconnected takes its index with it.
LEMMA DetachKeepsIndexInv ==
  ASSUME TypeOK, IndexInv, NEW i, Detach(i), owner' = owner, use' = use
  PROVE  IndexInv'
<1>1. CASE RuntimeOf(i) = NONE
  BY <1>1, IndexKept DEF Detach, KeepsVolumes
<1>2. CASE RuntimeOf(i) # NONE
  <2>1. current \in Rt /\ rt \in [Rt -> RtRecord]
    BY <1>2 DEF RuntimeOf, TypeOK
  <2>2. index' = NONE
    BY <1>2, <2>1 DEF Detach, RemoveIndexIfOwned, IndexInv, IndexOfCurrent
  <2>3. KeepsVolumes
    BY <1>2, <2>1, SetKeeps DEF Detach, KeepsVolumes
  <2> QED
    BY <2>2, <2>3, IndexGone
<1> QED
  BY <1>1, <1>2

\* A publication overwrites an index only with one of the same volume.
LEMMA PublishKeepsIndexInv ==
  ASSUME TypeOK, IndexInv, NEW g \in Ticket, Publish(g)
  PROVE  IndexInv'
<1>1. CASE ~MayPublish(g)
  BY <1>1, IndexKept DEF Publish, KeepsVolumes
<1>2. CASE MayPublish(g)
  <2> DEFINE h == IF index = NONE THEN CHOOSE x \in Handle : FreeHandle(x) ELSE index
  <2>1. /\ index' = h /\ owner' = [owner EXCEPT ![h] = rt[ticket[g].rt].id]
        /\ UNCHANGED <<current, rt, use>>
    BY <1>2 DEF Publish
  <2>2. current = ticket[g].rt /\ ~rt[current].replacing
    BY <1>2 DEF MayPublish, Suspended
  <2>3. current # NONE
    BY <1>2, <2>2 DEF Publish, TypeOK
  <2>4. h \in Handle /\ (index = NONE => FreeHandle(h))
    BY <1>2 DEF Publish, TypeOK
  <2>5. IndexOfCurrent'
    BY <2>1, <2>2, <2>3, <2>4 DEF IndexOfCurrent, TypeOK
  <2>6. ReplacedHasNoIndex' /\ ReferenceOnly'
    BY <2>1, <2>2 DEF IndexInv, ReplacedHasNoIndex, ReferenceOnly
  <2>7. ASSUME NEW c \in Client, use[c].pc = "in", use[c].handle # NONE
        PROVE  owner'[use[c].handle] = rt[use[c].rt].id
    <3>1. owner[use[c].handle] = rt[use[c].rt].id /\ use[c].handle \in Handle
      BY <2>7 DEF IndexInv, SearchReadsItsVolume, TypeOK, UseRecord
    <3>2. CASE use[c].handle = h
      <4>1. index # NONE /\ h = index
        BY <2>4, <3>2 DEF FreeHandle
      <4>2. owner[h] = rt[current].id
        BY <4>1 DEF IndexInv, IndexOfCurrent
      <4> QED
        BY <2>1, <2>2, <2>4, <3>1, <3>2, <4>2 DEF TypeOK
    <3>3. CASE use[c].handle # h
      BY <2>1, <3>1, <3>3 DEF TypeOK
    <3> QED
      BY <3>2, <3>3
  <2>8. SearchReadsItsVolume'
    BY <2>1, <2>7 DEF SearchReadsItsVolume
  <2> QED
    BY <2>5, <2>6, <2>8 DEF IndexInv
<1> QED
  BY <1>1, <1>2

\* Every step preserves the invariant.
LEMMA IndexInvInductive == TypeOK /\ IndexInv /\ [Next]_vars => IndexInv'
<1> SUFFICES ASSUME TypeOK, IndexInv, [Next]_vars PROVE IndexInv'
  OBVIOUS
<1> rt \in [Rt -> RtRecord]
  BY DEF TypeOK
<1>1. ASSUME NEW c \in Client, FindVolume(c) PROVE IndexInv'
  <2> DEFINE u == [pc |-> "ref", rt |-> current, handle |-> NONE]
  <2>1. use' = [use EXCEPT ![c] = u] /\ UNCHANGED <<current, rt, index, owner>>
    BY <1>1 DEF FindVolume, clientOnly
  <2> QED
    BY <2>1 DEF IndexInv, IndexOfCurrent, SearchReadsItsVolume, ReplacedHasNoIndex,
       ReferenceOnly, TypeOK
<1>2. ASSUME NEW c \in Client, AcquireVolume(c) PROVE IndexInv'
  <2> DEFINE u == IF Admits(use[c].rt) THEN [use[c] EXCEPT !.pc = "in"] ELSE NoUse
  <2>1. use' = [use EXCEPT ![c] = u] /\ UNCHANGED <<current, rt, index, owner>>
    BY <1>2 DEF AcquireVolume, clientOnly
  <2>2. use[c] \in UseRecord /\ use[c].handle = NONE
    BY <1>2 DEF AcquireVolume, IndexInv, ReferenceOnly, TypeOK
  <2>3. u.pc \in {"in", "out"} /\ u.handle = NONE
    BY <2>2 DEF NoUse, UseRecord
  <2> HIDE DEF u
  <2> QED
    BY <2>1, <2>3 DEF IndexInv, IndexOfCurrent, SearchReadsItsVolume, ReplacedHasNoIndex,
       ReferenceOnly, TypeOK
<1>3. ASSUME NEW c \in Client, AcquireSearchAccess(c) PROVE IndexInv'
  <2> DEFINE u == [pc |-> "in", rt |-> current, handle |-> index]
  <2>1. use' = [use EXCEPT ![c] = u] /\ UNCHANGED <<current, rt, index, owner>>
    BY <1>3 DEF AcquireSearchAccess, clientOnly
  <2>2. rt[current].id = owner[index]
    BY <1>3 DEF AcquireSearchAccess
  <2> QED
    BY <2>1, <2>2 DEF IndexInv, IndexOfCurrent, SearchReadsItsVolume, ReplacedHasNoIndex,
       ReferenceOnly, TypeOK
<1>4. ASSUME NEW c \in Client, ReleaseUse(c) PROVE IndexInv'
  <2>1. use' = [use EXCEPT ![c] = NoUse] /\ UNCHANGED <<current, rt, index, owner>>
    BY <1>4 DEF ReleaseUse, clientOnly
  <2> QED
    BY <2>1 DEF IndexInv, IndexOfCurrent, SearchReadsItsVolume, ReplacedHasNoIndex,
       ReferenceOnly, TypeOK, NoUse
<1>5. ASSUME NEW g \in Ticket, Publish(g) PROVE IndexInv'
  BY <1>5, PublishKeepsIndexInv
<1>6. ASSUME NEW g \in Ticket, WorkerEnds(g) PROVE IndexInv'
  BY <1>6, IndexKept DEF WorkerEnds, KeepsVolumes
<1>7. ASSUME NEW g \in Ticket, DropTicket(g) PROVE IndexInv'
  <2>1. ticket[g].rt \in Rt
    BY <1>7 DEF TypeOK, DropTicket, TicketRecord
  <2>2. UNCHANGED <<current, index, owner, use>> /\ rt' \in {rt, SetWorker(ticket[g].rt, NONE)}
    BY <1>7 DEF DropTicket
  <2> QED
    BY <2>1, <2>2, SetKeeps, IndexKept DEF KeepsVolumes
<1>8. ASSUME NEW g \in Ticket, FinishTicket(g) PROVE IndexInv'
  BY <1>8, IndexKept DEF FinishTicket, KeepsVolumes
<1>9. ASSUME Discover PROVE IndexInv'
  BY <1>9, IndexKept DEF Discover, KeepsVolumes, discOnly
<1>10. ASSUME Retire PROVE IndexInv'
  <2>1. CASE current' = current
    BY <1>10, <2>1, IndexKept DEF Retire, KeepsVolumes
  <2>2. CASE current' # current
    BY <1>10, <2>2, IndexGone DEF Retire, ReplacementIsIdle, KeepsVolumes, IndexInv,
       ReplacedHasNoIndex
  <2> QED
    BY <2>1, <2>2
<1>11. ASSUME EnsureInsert PROVE IndexInv'
  <2> DEFINE r == CHOOSE x \in Rt : FreeRt(x)
  <2>1. r \in Rt /\ FreeRt(r) /\ rt' = [rt EXCEPT ![r] = NewRuntime(disc.found)]
    BY <1>11 DEF EnsureInsert
  <2>2. index = NONE /\ UNCHANGED <<index, owner, use>>
    BY <1>11 DEF EnsureInsert, IndexInv, IndexOfCurrent
  <2>3. ASSUME NEW c \in Client PROVE use[c].rt # r
    BY <2>1 DEF FreeRt
  <2>4. \A c \in Client : rt'[use[c].rt] = rt[use[c].rt]
    BY <2>1, <2>3
  <2>5. SearchReadsItsVolume' /\ ReferenceOnly'
    BY <2>2, <2>4 DEF IndexInv, SearchReadsItsVolume, ReferenceOnly
  <2> QED
    BY <2>2, <2>5 DEF IndexInv, IndexOfCurrent, ReplacedHasNoIndex
<1>12. ASSUME EnsureMatch PROVE IndexInv'
  BY <1>12, IndexKept DEF EnsureMatch, KeepsVolumes, discOnly
<1>13. ASSUME EnsureReplace PROVE IndexInv'
  <2>1. current \in Rt
    BY <1>13 DEF TypeOK, EnsureReplace
  <2>2. index' = NONE
    BY <1>13, <2>1 DEF EnsureReplace, RemoveIndexIfOwned, IndexInv, IndexOfCurrent
  <2>3. KeepsVolumes
    BY <1>13, <2>1, SetKeeps DEF EnsureReplace, KeepsVolumes
  <2> QED
    BY <1>13, <2>2, <2>3, IndexGone DEF EnsureReplace
<1>14. ASSUME ReplaceWait PROVE IndexInv'
  BY <1>14, IndexKept DEF ReplaceWait, KeepsVolumes, discOnly
<1>15. ASSUME Swap PROVE IndexInv'
  <2>1. CASE current' = current
    BY <1>15, <2>1, IndexKept DEF Swap, KeepsVolumes
  <2>2. CASE current' # current
    <3>1. disc.rt = current /\ disc.rt # NONE /\ ReplacementIsIdle(disc.rt)
      BY <1>15, <2>2 DEF Swap, TypeOK
    <3>2. index = NONE
      BY <3>1 DEF ReplacementIsIdle, IndexInv, ReplacedHasNoIndex
    <3> QED
      BY <1>15, <3>2, IndexGone DEF Swap, KeepsVolumes
  <2> QED
    BY <2>1, <2>2
<1>16. ASSUME ListStale PROVE IndexInv'
  BY <1>16, IndexKept DEF ListStale, KeepsVolumes, discOnly
<1>17. ASSUME DisconnectStale PROVE IndexInv'
  BY <1>17, DetachKeepsIndexInv DEF DisconnectStale
<1>18. ASSUME ReconcileNotifications PROVE IndexInv'
  BY <1>18, IndexKept DEF ReconcileNotifications, KeepsVolumes
<1>19. ASSUME Unregister PROVE IndexInv'
  BY <1>19, IndexKept DEF Unregister, KeepsVolumes
<1>20. ASSUME EnsureNotification PROVE IndexInv'
  BY <1>20, IndexKept DEF EnsureNotification, KeepsVolumes
<1>21. ASSUME ClaimWorker PROVE IndexInv'
  <2>1. disc.rt \in Rt
    BY <1>21 DEF TypeOK, ClaimWorker, DiscRecord
  <2>2. /\ UNCHANGED <<current, index, owner, use>>
        /\ rt' = rt \/ \E g \in Ticket : rt' = SetWorker(disc.rt, g)
    BY <1>21 DEF ClaimWorker
  <2> QED
    BY <2>1, <2>2, SetKeeps, IndexKept DEF KeepsVolumes
<1>22. ASSUME NEW i \in Id, BeginRemoval(i) PROVE IndexInv'
  <2>1. call[i].rt \in Rt
    BY <1>22 DEF TypeOK, BeginRemoval, CallRecord
  <2>2. UNCHANGED <<current, index, owner, use>> /\ rt' = SetRemoving(call[i].rt)
    BY <1>22 DEF BeginRemoval
  <2> QED
    BY <2>1, <2>2, SetKeeps, IndexKept DEF KeepsVolumes
<1>23. ASSUME NEW i \in Id, DrainUses(i) PROVE IndexInv'
  BY <1>23, IndexKept DEF DrainUses, KeepsVolumes
<1>24. ASSUME NEW i \in Id, JoinWorker(i) PROVE IndexInv'
  BY <1>24, IndexKept DEF JoinWorker, KeepsVolumes
<1>25. ASSUME NEW i \in Id, GiveUp(i) PROVE IndexInv'
  BY <1>25, IndexKept DEF GiveUp, RemoveIndexIfOwned, KeepsVolumes
<1>26. ASSUME NEW i \in Id, Restore(i) PROVE IndexInv'
  <2>1. call[i].rt \in Rt
    BY <1>26 DEF TypeOK, Restore, CallRecord
  <2>2. UNCHANGED <<current, index, owner, use>> /\ rt' = CancelRemoval(call[i].rt)
    BY <1>26 DEF Restore
  <2> QED
    BY <2>1, <2>2, SetKeeps, IndexKept DEF KeepsVolumes
<1>27. ASSUME NEW i \in Id, Reopen(i) PROVE IndexInv'
  <2>1. call[i].rt \in Rt
    BY <1>27 DEF TypeOK, Reopen, CallRecord
  <2>2. /\ UNCHANGED <<current, owner, use>> /\ rt' = CancelRemoval(call[i].rt)
        /\ index' = index \/ index' = NONE
    BY <1>27 DEF Reopen, RemoveIndexIfOwned
  <2> QED
    BY <2>1, <2>2, SetKeeps, IndexKept DEF KeepsVolumes
<1>28. ASSUME NEW i \in Id, DetachGone(i) PROVE IndexInv'
  BY <1>28, DetachKeepsIndexInv DEF DetachGone
<1>29. ASSUME ChangeMedia PROVE IndexInv'
  BY <1>29, IndexKept DEF ChangeMedia, KeepsVolumes
<1>30. ASSUME NEW i \in Id, Removed(i) PROVE IndexInv'
  BY <1>30, IndexKept DEF Removed, KeepsVolumes
<1>31. ASSUME NEW i \in Id, NEW k \in Kinds, Ask(i, k) PROVE IndexInv'
  BY <1>31, IndexKept DEF Ask, KeepsVolumes
<1>32. ASSUME NEW i \in Id, NEW k \in Kinds, Ended(i, k) PROVE IndexInv'
  BY <1>32, IndexKept DEF Ended, KeepsVolumes
<1>33. ASSUME NEW i \in Id, NEW k \in Kinds, EndedUnheard(i, k) PROVE IndexInv'
  BY <1>33, IndexKept DEF EndedUnheard, KeepsVolumes
<1>34. CASE UNCHANGED vars
  BY <1>34, IndexKept DEF vars, KeepsVolumes
<1> QED
  BY <1>1, <1>2, <1>3, <1>4, <1>5, <1>6, <1>7, <1>8, <1>9, <1>10, <1>11, <1>12, <1>13,
     <1>14, <1>15, <1>16, <1>17, <1>18, <1>19, <1>20, <1>21, <1>22, <1>23, <1>24, <1>25,
     <1>26, <1>27, <1>28, <1>29, <1>30, <1>31, <1>32, <1>33, <1>34
     DEF Next, ClientStep, WorkerStep, Discovery, Callback, Windows

\* The invariant holds throughout, given type correctness.
LEMMA VolumeIndexInv == Spec => []IndexInv
<1>1. Init => IndexInv
  BY VolumeAssumption DEF Init, IndexInv, IndexOfCurrent, SearchReadsItsVolume,
     ReplacedHasNoIndex, ReferenceOnly, NoUse
<1> QED
  BY <1>1, VolumeTypeOK, IndexInvInductive, PTL DEF Spec

\* However many volumes, requests, indexers and notifications meet at the
\* letter: the published index is the registered volume's
\* (volume_lifecycle.rs, publication.rs).
THEOREM VolumeIndexOfCurrent == Spec => []IndexOfCurrent
<1>1. IndexInv => IndexOfCurrent
  BY DEF IndexInv
<1> QED
  BY <1>1, VolumeIndexInv, PTL

\* A search reads the volume it holds a lease on, although an index is
\* overwritten in place (search_access.rs, volume_indices.rs).
THEOREM VolumeSearchReads == Spec => []SearchReadsItsVolume
<1>1. IndexInv => SearchReadsItsVolume
  BY DEF IndexInv
<1> QED
  BY <1>1, VolumeIndexInv, PTL

----------------------------------------------------------------------------
(* Indexers.                                                               *)

\* An indexer that is not done is the worker of its runtime.
WorkerOfItsRuntime ==
  \A g \in Ticket : ticket[g].pc \in {"run", "leave"} => rt[ticket[g].rt].worker = g

\* An indexer that writes the published index is the registered runtime's.
WritesForCurrent ==
  \A g \in Ticket :
    ticket[g].pc = "run" /\ ticket[g].handle # NONE /\ ticket[g].handle = index =>
      ticket[g].rt = current

WriterInv == WorkerOfItsRuntime /\ WritesForCurrent

\* What the setters of a runtime, and a stop request, leave alone.
LEMMA SetKeepsWorker ==
  ASSUME rt \in [Rt -> RtRecord], NEW r \in Rt
  PROVE  \A x \in Rt : /\ SetRemoving(r)[x].worker = rt[x].worker
                       /\ CancelRemoval(r)[x].worker = rt[x].worker
                       /\ SetReplacing(r)[x].worker = rt[x].worker
BY DEF SetRemoving, CancelRemoval, SetReplacing, RtRecord

\* The indexers are as they were, but for stop requests.
SameWorkers ==
  /\ \A r \in Rt : rt'[r].worker = rt[r].worker
  /\ \A g \in Ticket : /\ ticket'[g].rt = ticket[g].rt
                       /\ ticket'[g].pc = ticket[g].pc
                       /\ ticket'[g].handle = ticket[g].handle

LEMMA WritersKept ==
  ASSUME TypeOK, WriterInv, SameWorkers,
         (current' = current /\ index' = index) \/ index' = NONE
  PROVE  WriterInv'
<1>1. \A g \in Ticket : ticket[g].pc \in {"run", "leave"} => ticket[g].rt \in Rt
  BY VolumeAssumption DEF TypeOK, TicketRecord
<1>2. WorkerOfItsRuntime'
  BY <1>1 DEF WriterInv, WorkerOfItsRuntime, SameWorkers
<1>3. WritesForCurrent'
  BY DEF WriterInv, WritesForCurrent, SameWorkers
<1> QED
  BY <1>2, <1>3 DEF WriterInv

\* One indexer goes from one state to another.
LEMMA WriterMoves ==
  ASSUME TypeOK, WriterInv, NEW g \in Ticket, NEW t, ticket' = [ticket EXCEPT ![g] = t],
         t.pc \in {"leave", "finish", "done"}, t.pc = "leave" => ticket[g].pc = "run" /\ t.rt = ticket[g].rt,
         \A x \in Ticket \ {g} : ticket[x].pc \in {"run", "leave"} =>
                                   rt'[ticket[x].rt].worker = rt[ticket[x].rt].worker,
         t.pc = "leave" => rt' = rt, current' = current, index' = index
  PROVE  WriterInv'
<1>1. ticket'[g] = t /\ \A x \in Ticket \ {g} : ticket'[x] = ticket[x]
  BY DEF TypeOK
<1>2. WorkerOfItsRuntime'
  BY <1>1 DEF WriterInv, WorkerOfItsRuntime
<1>3. WritesForCurrent'
  BY <1>1 DEF WriterInv, WritesForCurrent
<1> QED
  BY <1>2, <1>3 DEF WriterInv

LEMMA DetachKeepsWriters ==
  ASSUME TypeOK, IndexInv, WriterInv, NEW i, Detach(i)
  PROVE  WriterInv'
<1>1. CASE RuntimeOf(i) = NONE
  BY <1>1, WritersKept DEF Detach, SameWorkers
<1>2. CASE RuntimeOf(i) # NONE
  <2>1. current \in Rt /\ rt \in [Rt -> RtRecord] /\ ticket \in [Ticket -> TicketRecord]
    BY <1>2 DEF RuntimeOf, TypeOK
  <2>2. index' = NONE
    BY <1>2, <2>1 DEF Detach, RemoveIndexIfOwned, IndexInv, IndexOfCurrent
  <2>3. SameWorkers
    BY <1>2, <2>1, SetKeepsWorker, StoppedTyped DEF Detach, SameWorkers
  <2> QED
    BY <2>2, <2>3, WritersKept
<1> QED
  BY <1>1, <1>2

\* A publication makes its indexer the one that writes.
LEMMA PublishKeepsWriters ==
  ASSUME TypeOK, WriterInv, NEW g \in Ticket, Publish(g)
  PROVE  WriterInv'
<1>0. ticket[g] \in TicketRecord /\ ticket \in [Ticket -> TicketRecord]
  BY DEF TypeOK
<1>1. CASE ~MayPublish(g)
  <2> DEFINE t == [ticket[g] EXCEPT !.pc = "leave", !.handle = NONE]
  <2>1. t.pc = "leave" /\ t.rt = ticket[g].rt
    BY <1>0 DEF TicketRecord
  <2>2. /\ ticket' = [ticket EXCEPT ![g] = t] /\ ticket[g].pc = "run"
        /\ UNCHANGED <<rt, current, index>>
    BY <1>1 DEF Publish, Leave
  <2> HIDE DEF t
  <2> QED
    BY <2>1, <2>2, WriterMoves
<1>2. CASE MayPublish(g)
  <2> DEFINE h == IF index = NONE THEN CHOOSE x \in Handle : FreeHandle(x) ELSE index
             t == [ticket[g] EXCEPT !.handle = h]
  <2>1. t.pc = "run" /\ t.rt = ticket[g].rt /\ ticket[g].pc = "run"
    BY <1>0, <1>2 DEF Publish, TicketRecord
  <2>2. ticket' = [ticket EXCEPT ![g] = t] /\ index' = h /\ UNCHANGED <<current, rt>>
    BY <1>2 DEF Publish
  <2>3. current = ticket[g].rt
    BY <1>2 DEF MayPublish
  <2>4. index = NONE => FreeHandle(h)
    BY <1>2 DEF Publish
  <2>5. index # NONE => h = index
    OBVIOUS
  <2> HIDE DEF h, t
  <2>6. ticket'[g] = t /\ \A x \in Ticket \ {g} : ticket'[x] = ticket[x]
    BY <2>2, <1>0
  <2>7. WorkerOfItsRuntime'
    BY <2>1, <2>2, <2>6 DEF WriterInv, WorkerOfItsRuntime
  <2>8. ASSUME NEW x \in Ticket, ticket'[x].pc = "run", ticket'[x].handle # NONE,
               ticket'[x].handle = h
        PROVE  ticket'[x].rt = current
    <3>1. CASE x = g
      BY <3>1, <2>1, <2>3, <2>6
    <3>2. CASE x # g
      <4>1. ticket'[x] = ticket[x]
        BY <3>2, <2>6
      <4>2. index # NONE
        BY <4>1, <2>4, <2>8 DEF FreeHandle
      <4> QED
        BY <4>1, <4>2, <2>5, <2>8 DEF WriterInv, WritesForCurrent
    <3> QED
      BY <3>1, <3>2
  <2>9. WritesForCurrent'
    BY <2>2, <2>8 DEF WritesForCurrent
  <2> QED
    BY <2>7, <2>9 DEF WriterInv
<1> QED
  BY <1>1, <1>2

\* A worker is claimed for a runtime that has none.
LEMMA ClaimKeepsWriters ==
  ASSUME TypeOK, WriterInv, ClaimWorker
  PROVE  WriterInv'
<1>1. CASE ~Claimable(disc.rt)
  BY <1>1, WritersKept DEF ClaimWorker, SameWorkers
<1>2. CASE Claimable(disc.rt)
  <2> DEFINE g == CHOOSE x \in Ticket : FreeTicket(x)
             t == [NoTicket EXCEPT !.rt = disc.rt, !.pc = "run"]
  <2>1. /\ g \in Ticket /\ FreeTicket(g)
        /\ ticket' = [ticket EXCEPT ![g] = t] /\ rt' = SetWorker(disc.rt, g)
        /\ UNCHANGED <<current, index>>
    BY <1>2 DEF ClaimWorker
  <2>2. t.pc = "run" /\ t.rt = disc.rt /\ t.handle = NONE
    BY DEF NoTicket
  <2>3. disc.rt \in Rt /\ rt \in [Rt -> RtRecord] /\ rt[disc.rt].worker = NONE
    BY <1>2 DEF ClaimWorker, Claimable, TypeOK, DiscRecord
  <2> HIDE DEF g, t
  <2>4. ticket'[g] = t /\ \A x \in Ticket \ {g} : ticket'[x] = ticket[x]
    BY <2>1 DEF TypeOK
  <2>5. /\ rt'[disc.rt].worker = g
        /\ \A r \in Rt \ {disc.rt} : rt'[r] = rt[r]
    BY <2>1, <2>3 DEF SetWorker, RtRecord
  <2>6. \A x \in Ticket : ticket[x].pc \in {"run", "leave"} =>
          ticket[x].rt \in Rt /\ ticket[x].rt # disc.rt
    BY <2>3, VolumeAssumption DEF TypeOK, TicketRecord, WriterInv, WorkerOfItsRuntime
  <2>7. WorkerOfItsRuntime'
    BY <2>2, <2>4, <2>5, <2>6 DEF WriterInv, WorkerOfItsRuntime
  <2>8. WritesForCurrent'
    BY <2>1, <2>2, <2>4 DEF WriterInv, WritesForCurrent
  <2> QED
    BY <2>7, <2>8 DEF WriterInv
<1> QED
  BY <1>1, <1>2

\* Every step preserves the invariant.
LEMMA WriterInvInductive == TypeOK /\ IndexInv /\ WriterInv /\ [Next]_vars => WriterInv'
<1> SUFFICES ASSUME TypeOK, IndexInv, WriterInv, [Next]_vars PROVE WriterInv'
  OBVIOUS
<1> /\ rt \in [Rt -> RtRecord] /\ ticket \in [Ticket -> TicketRecord]
  BY DEF TypeOK
<1>1. ASSUME NEW c \in Client, ClientStep(c) PROVE WriterInv'
  BY <1>1, WritersKept DEF ClientStep, FindVolume, AcquireVolume, AcquireSearchAccess,
     ReleaseUse, clientOnly, SameWorkers
<1>2. ASSUME NEW g \in Ticket, Publish(g) PROVE WriterInv'
  BY <1>2, PublishKeepsWriters
<1>3. ASSUME NEW g \in Ticket, WorkerEnds(g) PROVE WriterInv'
  <2> DEFINE t == [ticket[g] EXCEPT !.pc = "leave", !.handle = NONE]
  <2>1. t.pc = "leave" /\ t.rt = ticket[g].rt
    BY DEF TicketRecord
  <2>2. /\ ticket' = [ticket EXCEPT ![g] = t] /\ ticket[g].pc = "run"
        /\ UNCHANGED <<rt, current, index>>
    BY <1>3 DEF WorkerEnds, Leave
  <2> HIDE DEF t
  <2> QED
    BY <2>1, <2>2, WriterMoves
<1>4. ASSUME NEW g \in Ticket, DropTicket(g) PROVE WriterInv'
  <2> DEFINE t == [ticket[g] EXCEPT !.pc = "finish"]
  <2>1. t.pc = "finish"
    BY DEF TicketRecord
  <2>2. /\ ticket' = [ticket EXCEPT ![g] = t] /\ ticket[g].pc = "leave"
        /\ UNCHANGED <<current, index>>
        /\ rt' \in {rt, SetWorker(ticket[g].rt, NONE)}
    BY <1>4 DEF DropTicket
  <2>3. ticket[g].rt \in Rt /\ rt[ticket[g].rt].worker = g
    BY <2>2, VolumeAssumption DEF TypeOK, TicketRecord, WriterInv, WorkerOfItsRuntime
  <2>4. ASSUME NEW x \in Ticket \ {g}, ticket[x].pc \in {"run", "leave"}
        PROVE  rt'[ticket[x].rt].worker = rt[ticket[x].rt].worker
    <3>1. ticket[x].rt \in Rt /\ ticket[x].rt # ticket[g].rt
      BY <2>3, <2>4, VolumeAssumption DEF TypeOK, TicketRecord, WriterInv, WorkerOfItsRuntime
    <3> QED
      BY <2>2, <2>3, <3>1 DEF SetWorker
  <2> HIDE DEF t
  <2> QED
    BY <2>1, <2>2, <2>4, WriterMoves
<1>5. ASSUME NEW g \in Ticket, FinishTicket(g) PROVE WriterInv'
  <2> DEFINE t == [NoTicket EXCEPT !.pc = "done"]
  <2>1. t.pc = "done"
    BY DEF NoTicket
  <2>2. ticket' = [ticket EXCEPT ![g] = t] /\ UNCHANGED <<rt, current, index>>
    BY <1>5 DEF FinishTicket
  <2> HIDE DEF t
  <2> QED
    BY <2>1, <2>2, WriterMoves
<1>6. CASE Discover \/ EnsureMatch \/ ReplaceWait \/ ListStale
  BY <1>6, WritersKept DEF Discover, EnsureMatch, ReplaceWait, ListStale, discOnly, SameWorkers
<1>7. CASE ReconcileNotifications \/ Unregister \/ EnsureNotification
  BY <1>7, WritersKept DEF ReconcileNotifications, Unregister, EnsureNotification, SameWorkers
<1>8. CASE Retire
  <2>1. current' = current \/ index' = NONE
    BY <1>8 DEF Retire, ReplacementIsIdle, IndexInv, ReplacedHasNoIndex
  <2> QED
    BY <1>8, <2>1, WritersKept DEF Retire, SameWorkers
<1>9. CASE EnsureInsert
  <2> DEFINE r == CHOOSE x \in Rt : FreeRt(x)
  <2>1. /\ r \in Rt /\ FreeRt(r) /\ rt' = [rt EXCEPT ![r] = NewRuntime(disc.found)]
        /\ UNCHANGED ticket
    BY <1>9 DEF EnsureInsert
  <2>2. index' = NONE
    BY <1>9 DEF EnsureInsert, IndexInv, IndexOfCurrent
  <2>3. \A g \in Ticket : ticket[g].pc \in {"run", "leave"} => ticket[g].rt # r
    BY <2>1 DEF FreeRt
  <2> HIDE DEF r
  <2>4. WorkerOfItsRuntime'
    BY <2>1, <2>3 DEF WriterInv, WorkerOfItsRuntime
  <2> QED
    BY <2>2, <2>4 DEF WriterInv, WritesForCurrent
<1>10. CASE EnsureReplace
  <2>1. current \in Rt
    BY <1>10 DEF TypeOK, EnsureReplace
  <2>2. index' = NONE
    BY <1>10, <2>1 DEF EnsureReplace, RemoveIndexIfOwned, IndexInv, IndexOfCurrent
  <2>3. SameWorkers
    BY <1>10, <2>1, SetKeepsWorker, StoppedTyped DEF EnsureReplace, SameWorkers
  <2> QED
    BY <2>2, <2>3, WritersKept
<1>11. CASE Swap
  <2>1. current' = current \/ index' = NONE
    <3>1. CASE current' # current
      <4>1. disc.rt = current /\ disc.rt # NONE /\ ReplacementIsIdle(disc.rt) /\ index' = index
        BY <1>11, <3>1 DEF Swap, TypeOK
      <4> QED
        BY <4>1 DEF ReplacementIsIdle, IndexInv, ReplacedHasNoIndex
    <3> QED
      BY <3>1
  <2> QED
    BY <1>11, <2>1, WritersKept DEF Swap, SameWorkers
<1>12. CASE DisconnectStale
  BY <1>12, DetachKeepsWriters DEF DisconnectStale
<1>13. CASE ClaimWorker
  BY <1>13, ClaimKeepsWriters
<1>14. ASSUME NEW i \in Id, BeginRemoval(i) PROVE WriterInv'
  <2>1. call[i].rt \in Rt
    BY <1>14 DEF TypeOK, BeginRemoval, CallRecord
  <2>2. SameWorkers
    BY <1>14, <2>1, SetKeepsWorker, StoppedTyped DEF BeginRemoval, SameWorkers
  <2> QED
    BY <1>14, <2>2, WritersKept DEF BeginRemoval
<1>15. ASSUME NEW i \in Id, DrainUses(i) \/ JoinWorker(i) \/ GiveUp(i) PROVE WriterInv'
  BY <1>15, WritersKept DEF DrainUses, JoinWorker, GiveUp, RemoveIndexIfOwned, SameWorkers
<1>16. ASSUME NEW i \in Id, Restore(i) \/ Reopen(i) PROVE WriterInv'
  <2>1. call[i].rt \in Rt
    BY <1>16 DEF TypeOK, Restore, Reopen, CallRecord
  <2>2. SameWorkers
    BY <1>16, <2>1, SetKeepsWorker DEF Restore, Reopen, SameWorkers
  <2> QED
    BY <1>16, <2>2, WritersKept DEF Restore, Reopen, RemoveIndexIfOwned
<1>17. ASSUME NEW i \in Id, DetachGone(i) PROVE WriterInv'
  BY <1>17, DetachKeepsWriters DEF DetachGone
<1>18. CASE Windows
  BY <1>18, WritersKept DEF Windows, ChangeMedia, Removed, Ask, Ended, EndedUnheard, SameWorkers
<1>19. CASE UNCHANGED vars
  BY <1>19, WritersKept DEF vars, SameWorkers
<1> QED
  BY <1>1, <1>2, <1>3, <1>4, <1>5, <1>6, <1>7, <1>8, <1>9, <1>10, <1>11, <1>12, <1>13,
     <1>14, <1>15, <1>16, <1>17, <1>18, <1>19
     DEF Next, WorkerStep, Discovery, Callback

\* The published index has one writer, whatever generations of indexers are still
\* about (claim_worker, VolumeIndexPublisher::publish).
THEOREM VolumeOneWriter == Spec => []OneWriter
<1>1. Init => WriterInv
  BY DEF Init, WriterInv, WorkerOfItsRuntime, WritesForCurrent, NoTicket
<1>2. WriterInv => OneWriter
  BY DEF WriterInv, WorkerOfItsRuntime, WritesForCurrent, OneWriter
<1> QED
  BY <1>1, <1>2, VolumeTypeOK, VolumeIndexInv, WriterInvInductive, PTL DEF Spec

----------------------------------------------------------------------------
(* Requests to let go of a volume, whatever else is asked for meanwhile.   *)

HeldAt(i) == \E k \in Kinds : asked[i][k] = "held"

\* A volume that is held is the one registered at the letter, its runtime is
\* closed, it is not listed as gone, and no callback is about to open or to
\* drop it.
Held(i) ==
  HeldAt(i) => /\ current # NONE /\ rt[current].id = i /\ rt[current].removing
               /\ disc.stale # i
               /\ call[i].pc \notin {"reopen", "detach"}

\* What a callback that lets go has closed stays closed.
Called(i) ==
  /\ call[i].rt # NONE => rt[call[i].rt].id = i
  /\ call[i].pc \in {"begin", "drain", "join", "restore"} => call[i].kind \in Kinds
  /\ call[i].pc \in {"drain", "join"} =>
       rt[call[i].rt].removing /\ rt[call[i].rt].worker \in {NONE, call[i].worker}
  /\ call[i].pc = "join" => Idle(call[i].rt)
  /\ call[i].pc = "restore" => call[i].kind = "remove"

\* Nobody works with a volume that is held for a removal.
Released(i) ==
  \A k \in Kinds \cap {"remove"} :
    asked[i][k] = "held" =>
      Idle(current) /\ \A g \in Ticket : ticket[g].rt = current => ticket[g].pc # "run"

RequestOf(i) == Held(i) /\ Called(i) /\ Released(i)

RequestInv == \A i \in Id : RequestOf(i)

\* A runtime that is closed stays so in a step, and nobody gets to work with it.
KeptShut(r) ==
  /\ rt'[r].id = rt[r].id
  /\ rt[r].removing =>
       /\ rt'[r].removing
       /\ rt'[r].worker \in {NONE, rt[r].worker}
       /\ Idle(r) => Idle(r)'
       /\ \A g \in Ticket : ticket'[g].pc = "run" /\ ticket'[g].rt = r =>
                             ticket[g].pc = "run" /\ ticket[g].rt = r

\* A step leaves a volume that is held registered and off the list.
StaysHeld(i) == HeldAt(i) => current' = current /\ disc'.stale # i

\* The volume's request or callback is about the runtime.
Refers(i, r) == call[i].rt = r \/ (HeldAt(i) /\ current = r)

LEMMA Referred ==
  ASSUME TypeOK, NEW i \in Id
  PROVE  /\ call[i].rt \in Rt \cup {NONE} /\ (call[i].pc \notin {"idle", "detach"} => call[i].rt \in Rt)
         /\ Held(i) => (HeldAt(i) => current \in Rt /\ Refers(i, current))
BY VolumeAssumption DEF TypeOK, CallRecord, Held, Refers

\* A callback whose record and runtime are left alone.
LEMMA CalledKept ==
  ASSUME TypeOK, NEW i \in Id, Called(i), call'[i] = call[i],
         call[i].rt # NONE => KeptShut(call[i].rt)
  PROVE  Called(i)'
<1>1. call[i].pc \in {"drain", "join"} => call[i].rt # NONE
  BY Referred, VolumeAssumption
<1> QED
  BY <1>1 DEF Called, KeptShut

\* What is asked for is left alone, and so is what is held.
LEMMA AskedKept ==
  ASSUME TypeOK, NEW i \in Id, RequestOf(i), asked'[i] = asked[i], StaysHeld(i),
         HeldAt(i) => KeptShut(current) /\ call'[i].pc \notin {"reopen", "detach"}
  PROVE  Held(i)' /\ Released(i)'
<1>1. HeldAt(i)' <=> HeldAt(i)
  BY DEF HeldAt
<1>2. Held(i)'
  BY <1>1 DEF RequestOf, Held, StaysHeld, KeptShut
<1>3. ASSUME NEW k \in Kinds \cap {"remove"}, asked'[i][k] = "held"
      PROVE  Idle(current)' /\ \A g \in Ticket : ticket'[g].rt = current' => ticket'[g].pc # "run"
  <2>1. asked[i][k] = "held" /\ HeldAt(i)
    BY <1>3 DEF HeldAt
  <2>2. /\ Idle(current) /\ \A g \in Ticket : ticket[g].rt = current => ticket[g].pc # "run"
        /\ rt[current].removing /\ current' = current
    BY <2>1 DEF RequestOf, Held, Released, StaysHeld
  <2>3. Idle(current)'
    BY <2>1, <2>2 DEF KeptShut, Idle, Guards
  <2> QED
    BY <2>1, <2>2, <2>3 DEF KeptShut
<1> QED
  BY <1>2, <1>3 DEF Released

\* A volume whose request and callback are left alone.
LEMMA RequestKept ==
  ASSUME TypeOK, NEW i \in Id, RequestOf(i), call'[i] = call[i], asked'[i] = asked[i], StaysHeld(i),
         \A r \in Rt : Refers(i, r) => KeptShut(r)
  PROVE  RequestOf(i)'
<1>1. call[i].rt # NONE => KeptShut(call[i].rt)
  BY Referred DEF Refers
<1>2. HeldAt(i) => KeptShut(current) /\ call'[i].pc \notin {"reopen", "detach"}
  BY Referred DEF RequestOf, Held
<1>3. Held(i)' /\ Released(i)'
  BY <1>2, AskedKept
<1>4. Called(i)'
  BY <1>1, CalledKept DEF RequestOf
<1> QED
  BY <1>3, <1>4 DEF RequestOf

\* A runtime whose flags and users a step leaves alone.
LEMMA KeptByFrame ==
  ASSUME NEW r \in Rt, rt'[r].id = rt[r].id, rt[r].removing => rt'[r].removing,
         rt'[r].worker = rt[r].worker, use' = use,
         \A g \in Ticket : ticket'[g].pc = ticket[g].pc /\ ticket'[g].rt = ticket[g].rt
  PROVE  KeptShut(r)
BY DEF KeptShut, Idle, Guards

\* What the setters of a runtime leave alone of what a request needs.
LEMMA SetKeepsShut ==
  ASSUME rt \in [Rt -> RtRecord], NEW r \in Rt
  PROVE  \A x \in Rt :
           /\ SetRemoving(r)[x].id = rt[x].id /\ SetRemoving(r)[x].worker = rt[x].worker
           /\ x = r \/ rt[x].removing => SetRemoving(r)[x].removing
           /\ SetReplacing(r)[x].id = rt[x].id /\ SetReplacing(r)[x].worker = rt[x].worker
           /\ SetReplacing(r)[x].removing = rt[x].removing
           /\ CancelRemoval(r)[x].id = rt[x].id /\ CancelRemoval(r)[x].worker = rt[x].worker
           /\ x # r => CancelRemoval(r)[x] = rt[x]
BY DEF SetRemoving, SetReplacing, CancelRemoval, RtRecord

LEMMA DetachKeepsShut ==
  ASSUME TypeOK, NEW i, Detach(i), use' = use, NEW r \in Rt
  PROVE  KeptShut(r)
<1>1. CASE RuntimeOf(i) = NONE
  BY <1>1, KeptByFrame DEF Detach
<1>2. CASE RuntimeOf(i) # NONE
  <2>1. current \in Rt /\ rt \in [Rt -> RtRecord] /\ ticket \in [Ticket -> TicketRecord]
    BY <1>2 DEF RuntimeOf, TypeOK
  <2>2. rt' = SetRemoving(current) /\ ticket' = Stopped(current)
    BY <1>2 DEF Detach
  <2> QED
    BY <2>1, <2>2, SetKeepsShut, StoppedTyped, KeptByFrame
<1> QED
  BY <1>1, <1>2

\* What is asked of one volume changes.
LEMMA AskedSet ==
  ASSUME TypeOK, NEW i \in Id, NEW f, asked' = [asked EXCEPT ![i] = f]
  PROVE  asked'[i] = f /\ \A j \in Id \ {i} : asked'[j] = asked[j]
BY DEF TypeOK

LEMMA OneAsked ==
  ASSUME TypeOK, NEW i \in Id, NEW k \in Kinds, NEW a
  PROVE  /\ [asked[i] EXCEPT ![k] = a][k] = a /\ [Lifted(i) EXCEPT ![k] = a][k] = a
         /\ \A l \in Kinds \ {k} : /\ [asked[i] EXCEPT ![k] = a][l] = asked[i][l]
                                   /\ [Lifted(i) EXCEPT ![k] = a][l] # "held"
<1>1. asked[i] \in [Kinds -> Answers]
  BY DEF TypeOK
<1> QED
  BY <1>1 DEF Lifted

\* Requests, indexers and the discovery thread leave what is closed alone.
LEMMA OthersKeepShut ==
  ASSUME TypeOK, NEW i \in Id, NEW r \in Rt, Refers(i, r),
         \/ \E c \in Client : ClientStep(c)
         \/ \E g \in Ticket : WorkerStep(g)
         \/ Discovery
  PROVE  KeptShut(r)
<1> /\ rt \in [Rt -> RtRecord] /\ ticket \in [Ticket -> TicketRecord]
    /\ use \in [Client -> UseRecord]
  BY DEF TypeOK
<1>1. ASSUME NEW c \in Client, ClientStep(c) PROVE KeptShut(r)
  <2>1. UNCHANGED <<rt, ticket>>
    BY <1>1 DEF ClientStep, FindVolume, AcquireVolume, AcquireSearchAccess, ReleaseUse, clientOnly
  <2>2. \A x \in Client \ {c} : use'[x] = use[x]
    BY <1>1 DEF ClientStep, FindVolume, AcquireVolume, AcquireSearchAccess, ReleaseUse
  <2>3. ASSUME rt[r].removing, use'[c].pc = "in", use'[c].rt = r
        PROVE  use[c].pc = "in" /\ use[c].rt = r
    <3>1. CASE FindVolume(c)
      BY <3>1, <2>3 DEF FindVolume
    <3>2. CASE AcquireVolume(c)
      <4> DEFINE u == [use[c] EXCEPT !.pc = "in"]
      <4>1. u.rt = use[c].rt
        BY DEF UseRecord
      <4>2. use'[c] = IF Admits(use[c].rt) THEN u ELSE NoUse
        BY <3>2 DEF AcquireVolume
      <4> HIDE DEF u
      <4> QED
        BY <4>1, <4>2, <2>3 DEF Admits, Suspended, NoUse
    <3>3. CASE AcquireSearchAccess(c)
      BY <3>3, <2>3 DEF AcquireSearchAccess, Admits, Suspended
    <3>4. CASE ReleaseUse(c)
      BY <3>4, <2>3 DEF ReleaseUse, NoUse
    <3> QED
      BY <1>1, <3>1, <3>2, <3>3, <3>4 DEF ClientStep
  <2> QED
    BY <2>1, <2>2, <2>3 DEF KeptShut, Idle, Guards
<1>2. ASSUME NEW g \in Ticket, WorkerStep(g) PROVE KeptShut(r)
  <2>1. UNCHANGED use /\ (rt' = rt \/ rt' = SetWorker(ticket[g].rt, NONE))
    BY <1>2 DEF WorkerStep, Publish, WorkerEnds, DropTicket, FinishTicket
  <2>2. rt'[r].id = rt[r].id /\ rt'[r].removing = rt[r].removing /\ rt'[r].worker \in {NONE, rt[r].worker}
    BY <2>1 DEF SetWorker, RtRecord
  <2>3. \A x \in Ticket \ {g} : ticket'[x] = ticket[x]
    BY <1>2 DEF WorkerStep, Publish, WorkerEnds, DropTicket, FinishTicket, Leave
  <2>4. ASSUME ticket'[g].pc = "run" PROVE ticket[g].pc = "run" /\ ticket'[g].rt = ticket[g].rt
    <3>1. CASE ticket' = Leave(g)
      BY <3>1, <2>4, LeaveTyped
    <3>2. CASE Publish(g) /\ MayPublish(g)
      <4> DEFINE h == IF index = NONE THEN CHOOSE x \in Handle : FreeHandle(x) ELSE index
                 t == [ticket[g] EXCEPT !.handle = h]
      <4>1. t.rt = ticket[g].rt /\ ticket'[g] = t /\ ticket[g].pc = "run"
        BY <3>2 DEF Publish, TicketRecord
      <4> HIDE DEF t
      <4> QED
        BY <4>1
    <3>3. CASE DropTicket(g)
      <4> DEFINE t == [ticket[g] EXCEPT !.pc = "finish"]
      <4>1. t.pc = "finish" /\ ticket'[g] = t
        BY <3>3 DEF DropTicket, TicketRecord
      <4> HIDE DEF t
      <4> QED
        BY <4>1, <2>4
    <3>4. CASE FinishTicket(g)
      BY <3>4, <2>4 DEF FinishTicket, NoTicket
    <3> QED
      BY <1>2, <3>1, <3>2, <3>3, <3>4 DEF WorkerStep, Publish, WorkerEnds
  <2> QED
    BY <2>1, <2>2, <2>3, <2>4 DEF KeptShut, Idle, Guards
<1>3. ASSUME Discovery PROVE KeptShut(r)
  <2>1. CASE UNCHANGED <<rt, ticket, use>>
    BY <2>1, KeptByFrame
  <2>2. CASE Discover \/ EnsureMatch \/ ReplaceWait \/ ListStale \/ Retire \/ Swap
             \/ ReconcileNotifications \/ Unregister \/ EnsureNotification
    BY <2>1, <2>2 DEF Discover, EnsureMatch, ReplaceWait, ListStale, discOnly, Retire, Swap,
       ReconcileNotifications, Unregister, EnsureNotification
  <2>3. CASE EnsureInsert
    <3> DEFINE n == CHOOSE x \in Rt : FreeRt(x)
    <3>1. /\ n \in Rt /\ FreeRt(n) /\ rt' = [rt EXCEPT ![n] = NewRuntime(disc.found)]
          /\ UNCHANGED <<ticket, use>>
      BY <2>3 DEF EnsureInsert
    <3>2. n # r
      BY <2>3, <3>1, VolumeAssumption DEF EnsureInsert, FreeRt, Refers
    <3> HIDE DEF n
    <3>3. rt'[r] = rt[r]
      BY <3>1, <3>2
    <3> QED
      BY <3>1, <3>3, KeptByFrame
  <2>4. CASE EnsureReplace
    <3>1. current \in Rt /\ rt' = SetReplacing(current) /\ ticket' = Stopped(current) /\ UNCHANGED use
      BY <2>4 DEF TypeOK, EnsureReplace
    <3> QED
      BY <3>1, SetKeepsShut, StoppedTyped, KeptByFrame
  <2>5. CASE DisconnectStale
    BY <2>5, DetachKeepsShut DEF DisconnectStale
  <2>6. CASE ClaimWorker
    <3>1. CASE ~Claimable(disc.rt)
      BY <2>1, <2>6, <3>1 DEF ClaimWorker
    <3>2. CASE Claimable(disc.rt)
      <4> DEFINE g == CHOOSE x \in Ticket : FreeTicket(x)
                 t == [NoTicket EXCEPT !.rt = disc.rt, !.pc = "run"]
      <4>1. /\ g \in Ticket /\ ticket' = [ticket EXCEPT ![g] = t]
            /\ rt' = SetWorker(disc.rt, g) /\ UNCHANGED use
        BY <2>6, <3>2 DEF ClaimWorker
      <4>2. t.rt = disc.rt
        BY DEF NoTicket
      <4> HIDE DEF g, t
      <4>3. rt'[r].id = rt[r].id /\ rt'[r].removing = rt[r].removing
            /\ (r # disc.rt => rt'[r] = rt[r])
        BY <4>1 DEF SetWorker, RtRecord
      <4>4. rt[r].removing => r # disc.rt
        BY <3>2 DEF Claimable, Suspended
      <4>5. \A x \in Ticket : ticket'[x].rt = r /\ r # disc.rt => ticket'[x] = ticket[x]
        BY <4>1, <4>2
      <4> QED
        BY <4>1, <4>3, <4>4, <4>5 DEF KeptShut, Idle, Guards
    <3> QED
      BY <3>1, <3>2
  <2> QED
    BY <1>3, <2>2, <2>3, <2>4, <2>5, <2>6 DEF Discovery
<1> QED
  BY <1>1, <1>2, <1>3

\* None of them registers another runtime for a volume that is held, or lists
\* it as gone.
LEMMA OthersStayHeld ==
  ASSUME TypeOK, NEW i \in Id, Held(i),
         \/ \E c \in Client : ClientStep(c)
         \/ \E g \in Ticket : WorkerStep(g)
         \/ Discovery
  PROVE  StaysHeld(i)
<1> SUFFICES ASSUME HeldAt(i) PROVE current' = current /\ disc'.stale # i
  BY DEF StaysHeld
<1>1. /\ current # NONE /\ rt[current].id = i /\ rt[current].removing /\ disc.stale # i
      /\ i # NONE
  BY VolumeAssumption DEF Held
<1>2. CASE UNCHANGED <<current, disc>>
  BY <1>1, <1>2
<1>3. CASE \E c \in Client : ClientStep(c)
  BY <1>2, <1>3 DEF ClientStep, FindVolume, AcquireVolume, AcquireSearchAccess, ReleaseUse, clientOnly
<1>4. CASE \E g \in Ticket : WorkerStep(g)
  BY <1>2, <1>4 DEF WorkerStep, Publish, WorkerEnds, DropTicket, FinishTicket
<1>5. ASSUME NEW n, disc' = n, n.stale = disc.stale \/ n.stale = NONE PROVE disc'.stale # i
  BY <1>1, <1>5
<1>6. ASSUME NEW pc, Goto(pc) PROVE disc'.stale # i
  BY <1>1, <1>6 DEF Goto, TypeOK, DiscRecord
<1>7. ASSUME NotEnsured PROVE disc'.stale # i
  BY <1>1, <1>7 DEF NotEnsured, TypeOK, DiscRecord
<1>8. CASE Discover \/ ClaimWorker
  <2>1. current' = current
    BY <1>8 DEF Discover, discOnly, ClaimWorker
  <2>2. disc'.stale = NONE
    <3>1. Asleep.stale = NONE
      BY DEF Asleep
    <3>2. \A v : [Asleep EXCEPT !.pc = "retire", !.found = v].stale = NONE
      BY DEF Asleep
    <3>3. CASE Discover
      BY <3>2, <3>3 DEF Discover
    <3>4. CASE ClaimWorker
      BY <3>1, <3>4 DEF ClaimWorker
    <3> QED
      BY <1>8, <3>3, <3>4
  <2> QED
    BY <1>1, <2>1, <2>2
<1>9. CASE Retire
  <2>1. ~ReplacementIsIdle(current)
    BY <1>1 DEF ReplacementIsIdle
  <2> QED
    BY <1>6, <1>9, <2>1 DEF Retire
<1>10. CASE EnsureInsert
  BY <1>1, <1>10 DEF EnsureInsert
<1>11. CASE EnsureMatch
  BY <1>1, <1>11 DEF EnsureMatch, Ensured, discOnly, TypeOK, DiscRecord
<1>12. CASE EnsureReplace
  BY <1>1, <1>12 DEF EnsureReplace, TypeOK, DiscRecord
<1>13. CASE ReplaceWait
  BY <1>6, <1>7, <1>13 DEF ReplaceWait, discOnly
<1>14. CASE Swap
  <2>1. current = disc.rt => ~ReplacementIsIdle(disc.rt)
    BY <1>1 DEF ReplacementIsIdle
  <2>2. disc' = [disc EXCEPT !.pc = "ensure", !.rt = NONE, !.worker = NONE] => disc'.stale # i
    BY <1>1 DEF TypeOK, DiscRecord
  <2> QED
    BY <1>7, <1>14, <2>1, <2>2 DEF Swap
<1>15. CASE ListStale
  <2>1. ~Gone
    BY <1>1 DEF Gone, Suspended
  <2>2. disc'.stale = NONE
    BY <1>15, <2>1 DEF ListStale, TypeOK, DiscRecord
  <2> QED
    BY <1>1, <1>15, <2>2 DEF ListStale, discOnly
<1>16. CASE DisconnectStale
  <2>1. RuntimeOf(disc.stale) = NONE
    BY <1>1 DEF RuntimeOf
  <2>2. disc'.stale = NONE
    BY <1>16 DEF DisconnectStale, TypeOK, DiscRecord
  <2> QED
    BY <1>1, <1>16, <2>1, <2>2 DEF DisconnectStale, Detach
<1>17. CASE ReconcileNotifications \/ Unregister
  BY <1>6, <1>17 DEF ReconcileNotifications, Unregister
<1>18. CASE EnsureNotification
  <2>1. disc' = [disc EXCEPT !.pc = "ensure", !.next = "claim"] => disc'.stale # i
    BY <1>1 DEF TypeOK, DiscRecord
  <2> QED
    BY <1>6, <1>18, <2>1 DEF EnsureNotification
<1> QED
  BY <1>3, <1>4, <1>8, <1>9, <1>10, <1>11, <1>12, <1>13, <1>14, <1>15, <1>16, <1>17, <1>18 DEF Discovery

\* A step of one volume's callback or of Windows.
LEMMA OneVolume ==
  ASSUME TypeOK, RequestInv, NEW i \in Id, RequestOf(i)',
         \A j \in Id \ {i} : call'[j] = call[j] /\ asked'[j] = asked[j] /\ StaysHeld(j),
         \A j \in Id \ {i} : \A r \in Rt : Refers(j, r) => KeptShut(r)
  PROVE  RequestInv'
<1>1. ASSUME NEW j \in Id \ {i} PROVE RequestOf(j)'
  BY <1>1, RequestKept DEF RequestInv
<1> QED
  BY <1>1 DEF RequestInv

\* The registered runtime and the list are left alone.
LEMMA SameHeld ==
  ASSUME TypeOK, RequestInv, UNCHANGED <<current, disc>>
  PROVE  \A j \in Id : StaysHeld(j)
BY DEF RequestInv, RequestOf, Held, StaysHeld

\* Nothing new is held.
LEMMA AskedLess ==
  ASSUME TypeOK, NEW i \in Id, RequestOf(i), UNCHANGED <<rt, ticket, use, current, disc>>,
         \A k \in Kinds : asked'[i][k] = "held" => asked[i][k] = "held",
         HeldAt(i) => call'[i].pc \notin {"reopen", "detach"}
  PROVE  Held(i)' /\ Released(i)'
<1>1. HeldAt(i)' => HeldAt(i)
  BY DEF HeldAt
<1>2. Held(i)'
  BY <1>1 DEF RequestOf, Held
<1>3. Released(i)'
  BY DEF RequestOf, Released, Idle, Guards
<1> QED
  BY <1>2, <1>3

\* Nothing is held any more.
LEMMA NoneHeld ==
  ASSUME NEW i \in Id, \A k \in Kinds : asked'[i][k] # "held"
  PROVE  Held(i)' /\ Released(i)'
BY DEF Held, HeldAt, Released

\* A callback that has ended.
LEMMA CallOver ==
  ASSUME NEW i \in Id, call'[i] = NoCall \/ call'[i] = [NoCall EXCEPT !.pc = "detach"]
  PROVE  Called(i)'
<1>1. call'[i].rt = NONE /\ call'[i].pc \in {"idle", "detach"}
  BY DEF NoCall
<1> QED
  BY <1>1 DEF Called

\* Other volumes refer to other runtimes.
LEMMA OthersRefer ==
  ASSUME TypeOK, RequestInv, NEW i \in Id, call[i].rt \in Rt,
         NEW j \in Id \ {i}, NEW r \in Rt, Refers(j, r)
  PROVE  r # call[i].rt
<1>1. rt[call[i].rt].id = i
  BY VolumeAssumption DEF RequestInv, RequestOf, Called
<1>2. rt[r].id = j
  BY VolumeAssumption DEF RequestInv, RequestOf, Called, Held, Refers
<1> QED
  BY <1>1, <1>2

LEMMA BeginKeepsRequests ==
  ASSUME TypeOK, RequestInv, NEW i \in Id, BeginRemoval(i)
  PROVE  RequestInv'
<1> DEFINE r == call[i].rt
           c == [call[i] EXCEPT !.pc = "drain", !.worker = rt[r].worker]
<1> /\ rt \in [Rt -> RtRecord] /\ ticket \in [Ticket -> TicketRecord] /\ call[i] \in CallRecord
  BY DEF TypeOK
<1>1. /\ call[i].pc = "begin" /\ rt' = SetRemoving(r) /\ ticket' = Stopped(r)
      /\ call' = [call EXCEPT ![i] = c] /\ UNCHANGED <<use, asked, current, disc>>
  BY DEF BeginRemoval
<1>2. r \in Rt
  BY <1>1, Referred
<1>3. c.pc = "drain" /\ c.rt = r /\ c.kind = call[i].kind /\ c.worker = rt[r].worker
  BY DEF CallRecord
<1> HIDE DEF c
<1>4. call'[i] = c /\ \A j \in Id \ {i} : call'[j] = call[j]
  BY <1>1 DEF TypeOK
<1>5. \A x \in Rt : KeptShut(x)
  BY <1>1, <1>2, SetKeepsShut, StoppedTyped, KeptByFrame
<1>6. \A j \in Id : StaysHeld(j)
  BY <1>1, SameHeld
<1>7. Held(i)' /\ Released(i)'
  <2>1. HeldAt(i) => KeptShut(current) /\ call'[i].pc \notin {"reopen", "detach"}
    BY <1>3, <1>4, <1>5, Referred DEF RequestInv, RequestOf
  <2> QED
    BY <1>1, <1>6, <2>1, AskedKept DEF RequestInv
<1>8. rt'[r].removing /\ rt'[r].worker = rt[r].worker /\ rt'[r].id = i
  BY <1>1, <1>2, SetKeepsShut, VolumeAssumption DEF RequestInv, RequestOf, Called
<1>9. Called(i)'
  BY <1>1, <1>3, <1>4, <1>8 DEF RequestInv, RequestOf, Called
<1> QED
  BY <1>1, <1>4, <1>5, <1>6, <1>7, <1>9, OneVolume DEF RequestOf

LEMMA DrainKeepsRequests ==
  ASSUME TypeOK, RequestInv, NEW i \in Id, DrainUses(i)
  PROVE  RequestInv'
<1> DEFINE c == [call[i] EXCEPT !.pc = "join"]
<1>1. /\ call[i].pc = "drain" /\ Idle(call[i].rt) /\ call' = [call EXCEPT ![i] = c]
      /\ UNCHANGED <<rt, ticket, use, asked, current, disc>>
  BY DEF DrainUses
<1>2. c.pc = "join" /\ c.rt = call[i].rt /\ c.kind = call[i].kind /\ c.worker = call[i].worker
  BY DEF TypeOK, CallRecord
<1> HIDE DEF c
<1>3. call'[i] = c /\ \A j \in Id \ {i} : call'[j] = call[j]
  BY <1>1 DEF TypeOK
<1>4. \A x \in Rt : KeptShut(x)
  BY <1>1, KeptByFrame
<1>5. \A j \in Id : StaysHeld(j)
  BY <1>1, SameHeld
<1>6. Held(i)' /\ Released(i)'
  BY <1>1, <1>2, <1>3, AskedLess DEF RequestInv
<1>7. Called(i)'
  BY <1>1, <1>2, <1>3 DEF RequestInv, RequestOf, Called, Idle, Guards
<1> QED
  BY <1>1, <1>3, <1>4, <1>5, <1>6, <1>7, OneVolume DEF RequestOf

\* A request is answered by a volume that is let go of.
LEMMA AskedGranted ==
  ASSUME TypeOK, NEW i \in Id, RequestOf(i), call[i].pc \in {"drain", "join"},
         UNCHANGED <<rt, ticket, use, current, disc>>, call'[i] = NoCall,
         asked' = [asked EXCEPT ![i] = [asked[i] EXCEPT ![call[i].kind] = Granted(i)]],
         call[i].kind = "remove" =>
           Idle(call[i].rt) /\ \A g \in Ticket : ticket[g].rt = call[i].rt => ticket[g].pc # "run"
  PROVE  Held(i)' /\ Released(i)'
<1> DEFINE k == call[i].kind
           f == [asked[i] EXCEPT ![k] = Granted(i)]
<1>1. /\ k \in Kinds /\ call[i].rt \in Rt /\ call[i].rt # NONE
      /\ rt[call[i].rt].id = i /\ rt[call[i].rt].removing
  BY Referred, VolumeAssumption DEF RequestOf, Called
<1>2. asked'[i] = f
  <2> HIDE DEF f
  <2> QED
    BY AskedSet DEF f
<1>3. asked'[i][k] = Granted(i) /\ \A l \in Kinds \ {k} : asked'[i][l] = asked[i][l]
  <2> HIDE DEF k
  <2> QED
    BY <1>1, <1>2, OneAsked
<1>4. Granted(i) = "held" => current = call[i].rt /\ disc.stale # i
  BY <1>1 DEF Granted, RuntimeOf
<1>5. call'[i].pc = "idle"
  BY DEF NoCall
<1> HIDE DEF f, k
<1>6. HeldAt(i)' => HeldAt(i) \/ Granted(i) = "held"
  BY <1>3 DEF HeldAt
<1>7. Held(i)'
  BY <1>1, <1>4, <1>5, <1>6 DEF RequestOf, Held
<1>8. Released(i)'
  <2> SUFFICES ASSUME NEW l \in Kinds \cap {"remove"}, asked'[i][l] = "held"
               PROVE  Idle(current) /\ \A g \in Ticket : ticket[g].rt = current => ticket[g].pc # "run"
    BY DEF Released, Idle, Guards
  <2>1. CASE l = k
    BY <1>3, <1>4, <2>1 DEF k
  <2>2. CASE l # k
    BY <1>3, <2>2 DEF RequestOf, Released
  <2> QED
    BY <2>1, <2>2
<1> QED
  BY <1>7, <1>8

LEMMA JoinKeepsRequests ==
  ASSUME TypeOK, RequestInv, WriterInv, NEW i \in Id, JoinWorker(i)
  PROVE  RequestInv'
<1> DEFINE k == call[i].kind
           r == call[i].rt
           f == [Lifted(i) EXCEPT ![k] = "yes"]
<1>1. /\ call[i].pc = "join" /\ Finished(call[i].worker)
      /\ UNCHANGED <<rt, ticket, use, current, disc>>
      /\ call' = [call EXCEPT ![i] = IF k = "dismount" THEN [NoCall EXCEPT !.pc = "detach"]
                                     ELSE NoCall]
  BY DEF JoinWorker
<1>2. r \in Rt /\ k \in Kinds /\ Idle(r) /\ rt[r].worker \in {NONE, call[i].worker}
  BY <1>1, Referred DEF RequestInv, RequestOf, Called
<1>3. ASSUME NEW g \in Ticket, ticket[g].rt = r PROVE ticket[g].pc # "run"
  <2> SUFFICES ASSUME ticket[g].pc = "run" PROVE FALSE
    OBVIOUS
  <2>1. rt[r].worker = g
    BY <1>3 DEF WriterInv, WorkerOfItsRuntime
  <2>2. call[i].worker = g /\ g # NONE
    BY <1>2, <2>1, VolumeAssumption
  <2> QED
    BY <1>1, <2>2 DEF Finished
<1>4. /\ call'[i] = IF k = "dismount" THEN [NoCall EXCEPT !.pc = "detach"] ELSE NoCall
      /\ \A j \in Id \ {i} : call'[j] = call[j]
  BY <1>1 DEF TypeOK
<1>5. \A j \in Id \ {i} : asked'[j] = asked[j]
  BY DEF JoinWorker, TypeOK
<1>6. Held(i)' /\ Released(i)'
  <2>1. CASE k = "dismount"
    <3>1. asked' = [asked EXCEPT ![i] = f]
      BY <2>1 DEF JoinWorker
    <3>2. asked'[i] = f
      <4> HIDE DEF f
      <4> QED
        BY <3>1, AskedSet
    <3>3. \A l \in Kinds : f[l] # "held"
      <4> HIDE DEF k
      <4>1. f[k] = "yes" /\ \A l \in Kinds \ {k} : f[l] # "held"
        BY <1>2, OneAsked
      <4> QED
        BY <4>1
    <3> HIDE DEF f
    <3> QED
      BY <3>2, <3>3, NoneHeld
  <2>2. CASE k # "dismount"
    <3>1. asked' = [asked EXCEPT ![i] = [asked[i] EXCEPT ![k] = Granted(i)]]
      BY <2>2 DEF JoinWorker
    <3>2. call'[i] = NoCall
      BY <1>4, <2>2
    <3> QED
      BY <1>1, <1>2, <1>3, <3>1, <3>2, AskedGranted DEF RequestInv
  <2> QED
    BY <2>1, <2>2
<1>7. Called(i)'
  BY <1>4, CallOver
<1>8. \A x \in Rt : KeptShut(x)
  BY <1>1, KeptByFrame
<1>9. \A j \in Id : StaysHeld(j)
  BY <1>1, SameHeld
<1> QED
  BY <1>4, <1>5, <1>6, <1>7, <1>8, <1>9, OneVolume DEF RequestOf

LEMMA GiveUpKeepsRequests ==
  ASSUME TypeOK, RequestInv, NEW i \in Id, GiveUp(i)
  PROVE  RequestInv'
<1> DEFINE k == call[i].kind
           c == [call[i] EXCEPT !.pc = "restore"]
<1>1. call[i].pc \in {"drain", "join"} /\ UNCHANGED <<rt, ticket, use, current, disc>>
  BY DEF GiveUp
<1>2. \A x \in Rt : KeptShut(x)
  BY <1>1, KeptByFrame
<1>3. k \in Kinds
  BY <1>1 DEF RequestInv, RequestOf, Called
<1>4. \A j \in Id : StaysHeld(j)
  BY <1>1, SameHeld
<1>5. CASE k = "remove"
  <2>1. call' = [call EXCEPT ![i] = c] /\ UNCHANGED asked
    BY <1>5 DEF GiveUp, RestoresOnTimeout
  <2>2. c.pc = "restore" /\ c.rt = call[i].rt /\ c.kind = k
    BY DEF TypeOK, CallRecord
  <2> HIDE DEF c
  <2>3. call'[i] = c /\ \A j \in Id \ {i} : call'[j] = call[j]
    BY <2>1 DEF TypeOK
  <2>4. Held(i)' /\ Released(i)'
    BY <1>1, <2>1, <2>2, <2>3, AskedLess DEF RequestInv
  <2>5. Called(i)'
    BY <1>1, <1>5, <2>1, <2>2, <2>3 DEF RequestInv, RequestOf, Called
  <2> QED
    BY <1>2, <1>4, <2>1, <2>3, <2>4, <2>5, OneVolume DEF RequestOf
<1>6. CASE k # "remove"
  <2>1. /\ call' = [call EXCEPT ![i] = NoCall]
        /\ asked' = [asked EXCEPT ![i] = [asked[i] EXCEPT ![k] = Granted(i)]]
    BY <1>6 DEF GiveUp, RestoresOnTimeout
  <2>2. call'[i] = NoCall /\ \A j \in Id \ {i} : call'[j] = call[j]
    BY <2>1 DEF TypeOK
  <2>3. \A j \in Id \ {i} : asked'[j] = asked[j]
    BY <2>1 DEF TypeOK
  <2>4. Held(i)' /\ Released(i)'
    BY <1>1, <1>6, <2>1, <2>2, AskedGranted DEF RequestInv
  <2>5. Called(i)'
    BY <2>2, CallOver
  <2> QED
    BY <1>2, <1>4, <2>2, <2>3, <2>4, <2>5, OneVolume DEF RequestOf
<1> QED
  BY <1>5, <1>6

\* A runtime is opened again when nothing is held any more.
LEMMA OpenKeepsRequests ==
  ASSUME TypeOK, RequestInv, NEW i \in Id, call[i].rt \in Rt,
         rt' = CancelRemoval(call[i].rt), UNCHANGED <<ticket, use, current, disc>>,
         call' = [call EXCEPT ![i] = NoCall],
         \A j \in Id \ {i} : asked'[j] = asked[j],
         \A k \in Kinds : asked'[i][k] # "held"
  PROVE  RequestInv'
<1> rt \in [Rt -> RtRecord]
  BY DEF TypeOK
<1>1. ASSUME NEW j \in Id \ {i}, NEW r \in Rt, Refers(j, r) PROVE KeptShut(r)
  <2>1. rt'[r] = rt[r]
    BY <1>1, OthersRefer, SetKeepsShut
  <2> QED
    BY <2>1, KeptByFrame
<1>2. Held(i)' /\ Released(i)'
  BY NoneHeld
<1>3. call'[i] = NoCall /\ \A j \in Id \ {i} : call'[j] = call[j]
  BY DEF TypeOK
<1>4. Called(i)'
  BY <1>3, CallOver
<1>5. \A j \in Id : StaysHeld(j)
  BY SameHeld
<1> QED
  BY <1>1, <1>2, <1>3, <1>4, <1>5, OneVolume DEF RequestOf

LEMMA RestoreKeepsRequests ==
  ASSUME TypeOK, RequestInv, NEW i \in Id, Restore(i)
  PROVE  RequestInv'
<1> DEFINE k == call[i].kind
           f == [Lifted(i) EXCEPT ![k] = "no"]
<1>1. /\ call[i].pc = "restore" /\ rt' = CancelRemoval(call[i].rt)
      /\ UNCHANGED <<ticket, use, current, disc>> /\ call' = [call EXCEPT ![i] = NoCall]
  BY DEF Restore
<1>2. call[i].rt \in Rt /\ k = "remove" /\ k \in Kinds
  BY <1>1, Referred DEF RequestInv, RequestOf, Called
<1>3. asked' = [asked EXCEPT ![i] = f]
  BY <1>2 DEF Restore
<1>4. \A l \in Kinds : f[l] # "held"
  <2> HIDE DEF k
  <2>1. f[k] = "no" /\ \A l \in Kinds \ {k} : f[l] # "held"
    BY <1>2, OneAsked
  <2> QED
    BY <2>1
<1> HIDE DEF f
<1>5. asked'[i] = f /\ \A j \in Id \ {i} : asked'[j] = asked[j]
  BY <1>3, AskedSet
<1> QED
  BY <1>1, <1>2, <1>4, <1>5, OpenKeepsRequests

LEMMA ReopenKeepsRequests ==
  ASSUME TypeOK, RequestInv, NEW i \in Id, Reopen(i)
  PROVE  RequestInv'
<1>1. /\ call[i].pc = "reopen" /\ rt' = CancelRemoval(call[i].rt)
      /\ UNCHANGED <<ticket, use, asked, current, disc>> /\ call' = [call EXCEPT ![i] = NoCall]
  BY DEF Reopen
<1>2. call[i].rt \in Rt
  BY <1>1, Referred
<1>3. \A k \in Kinds : asked[i][k] # "held"
  BY <1>1 DEF RequestInv, RequestOf, Held, HeldAt
<1> QED
  BY <1>1, <1>2, <1>3, OpenKeepsRequests

\* A volume is dropped; another one that is held is the registered one.
LEMMA DetachKeepsRequests ==
  ASSUME TypeOK, RequestInv, NEW i \in Id, DetachGone(i)
  PROVE  RequestInv'
<1>1. /\ call[i].pc = "detach" /\ Detach(i) /\ call' = [call EXCEPT ![i] = NoCall]
      /\ UNCHANGED <<use, asked, disc>>
  BY DEF DetachGone
<1>2. \A r \in Rt : KeptShut(r)
  BY <1>1, DetachKeepsShut
<1>3. call'[i] = NoCall /\ \A j \in Id \ {i} : call'[j] = call[j]
  BY <1>1 DEF TypeOK
<1>4. Held(i)' /\ Released(i)'
  <2>1. \A k \in Kinds : asked'[i][k] # "held"
    BY <1>1 DEF RequestInv, RequestOf, Held, HeldAt
  <2> QED
    BY <2>1, NoneHeld
<1>5. Called(i)'
  BY <1>3, CallOver
<1>6. ASSUME NEW j \in Id \ {i}, HeldAt(j) PROVE current' = current /\ disc'.stale # j
  <2>1. current # NONE /\ rt[current].id = j /\ disc.stale # j
    BY <1>6 DEF RequestInv, RequestOf, Held
  <2>2. RuntimeOf(i) = NONE
    BY <2>1 DEF RuntimeOf
  <2> QED
    BY <1>1, <2>1, <2>2 DEF Detach
<1>7. \A j \in Id \ {i} : StaysHeld(j)
  BY <1>6 DEF StaysHeld
<1> QED
  BY <1>1, <1>2, <1>3, <1>4, <1>5, <1>7, OneVolume DEF RequestOf

\* A new request leaves what is held alone until its callback has closed the
\* runtime once more.
LEMMA AskKeepsRequests ==
  ASSUME TypeOK, RequestInv, NEW i \in Id, NEW k \in Kinds, Ask(i, k)
  PROVE  RequestInv'
<1> DEFINE c == [pc |-> "begin", kind |-> k, rt |-> RuntimeOf(i), worker |-> NONE]
<1>1. UNCHANGED <<rt, ticket, use, current, disc>> /\ call[i].pc = "idle"
  BY DEF Ask, Listening
<1>2. \A r \in Rt : KeptShut(r)
  BY <1>1, KeptByFrame
<1>3. PICK a \in {"yes", "running"} : asked' = [asked EXCEPT ![i] = [asked[i] EXCEPT ![k] = a]]
  BY DEF Ask
<1>4. /\ \A j \in Id \ {i} : asked'[j] = asked[j]
      /\ asked'[i][k] = a /\ \A l \in Kinds \ {k} : asked'[i][l] = asked[i][l]
  <2> DEFINE e == [asked[i] EXCEPT ![k] = a]
  <2>1. e[k] = a /\ \A l \in Kinds \ {k} : e[l] = asked[i][l]
    BY OneAsked
  <2>2. asked' = [asked EXCEPT ![i] = e]
    BY <1>3
  <2> HIDE DEF e
  <2>3. asked'[i] = e /\ \A j \in Id \ {i} : asked'[j] = asked[j]
    BY <2>2, AskedSet
  <2> QED
    BY <2>1, <2>3
<1>5. \A j \in Id : StaysHeld(j)
  BY <1>1, SameHeld
<1>6. ASSUME call'[i].pc \notin {"reopen", "detach"} PROVE Held(i)' /\ Released(i)'
  BY <1>1, <1>4, <1>6, AskedLess DEF RequestInv
<1>7. CASE RuntimeOf(i) = NONE
  <2>1. UNCHANGED call
    BY <1>7 DEF Ask
  <2>2. call[i].rt = NONE
    BY <1>1 DEF TypeOK
  <2>3. Called(i)'
    BY <1>1, <2>1, <2>2 DEF Called
  <2> QED
    BY <1>1, <1>2, <1>4, <1>5, <1>6, <2>1, <2>3, OneVolume DEF RequestOf
<1>8. CASE RuntimeOf(i) # NONE
  <2>1. call' = [call EXCEPT ![i] = c]
    BY <1>8 DEF Ask
  <2>2. call'[i] = c /\ \A j \in Id \ {i} : call'[j] = call[j]
    BY <2>1 DEF TypeOK
  <2>3. rt[RuntimeOf(i)].id = i
    BY <1>8 DEF RuntimeOf
  <2>4. Called(i)'
    BY <1>1, <2>2, <2>3 DEF Called
  <2> QED
    BY <1>2, <1>4, <1>5, <1>6, <2>2, <2>4, OneVolume DEF RequestOf
<1> QED
  BY <1>7, <1>8

\* An end opens the volume whatever else is asked for; one that nobody hears
\* leaves it as it is.
LEMMA EndKeepsRequests ==
  ASSUME TypeOK, RequestInv, NEW i \in Id, NEW k \in Kinds, Ended(i, k) \/ EndedUnheard(i, k)
  PROVE  RequestInv'
<1> DEFINE c == [NoCall EXCEPT !.pc = "reopen", !.rt = RuntimeOf(i)]
           f == [Lifted(i) EXCEPT ![k] = "no"]
<1>1. UNCHANGED <<rt, ticket, use, current, disc>>
  BY DEF Ended, EndedUnheard
<1>2. \A r \in Rt : KeptShut(r)
  BY <1>1, KeptByFrame
<1>3. \A j \in Id : StaysHeld(j)
  BY <1>1, SameHeld
<1>4. CASE EndedUnheard(i, k)
  <2>1. UNCHANGED call /\ asked' = [asked EXCEPT ![i] = [asked[i] EXCEPT ![k] = "no"]]
    BY <1>4 DEF EndedUnheard
  <2>2. /\ \A j \in Id \ {i} : asked'[j] = asked[j]
        /\ asked'[i][k] = "no" /\ \A l \in Kinds \ {k} : asked'[i][l] = asked[i][l]
    <3> DEFINE e == [asked[i] EXCEPT ![k] = "no"]
    <3>1. e[k] = "no" /\ \A l \in Kinds \ {k} : e[l] = asked[i][l]
      BY OneAsked
    <3>2. asked' = [asked EXCEPT ![i] = e]
      BY <2>1
    <3> HIDE DEF e
    <3>3. asked'[i] = e /\ \A j \in Id \ {i} : asked'[j] = asked[j]
      BY <3>2, AskedSet
    <3> QED
      BY <3>1, <3>3
  <2>3. Held(i)' /\ Released(i)'
    <3>1. HeldAt(i) => call'[i].pc \notin {"reopen", "detach"}
      BY <2>1 DEF RequestInv, RequestOf, Held
    <3> QED
      BY <1>1, <2>2, <3>1, AskedLess DEF RequestInv
  <2>4. Called(i)'
    <3>1. call[i].rt # NONE => KeptShut(call[i].rt)
      BY <1>2, Referred
    <3> QED
      BY <2>1, <3>1, CalledKept DEF RequestInv, RequestOf
  <2> QED
    BY <1>2, <1>3, <2>1, <2>2, <2>3, <2>4, OneVolume DEF RequestOf
<1>5. CASE Ended(i, k)
  <2>1. /\ call'[i] = IF RuntimeOf(i) = NONE THEN NoCall ELSE c
        /\ \A j \in Id \ {i} : call'[j] = call[j]
    BY <1>5 DEF Ended, TypeOK
  <2>2. c.pc = "reopen" /\ c.rt = RuntimeOf(i)
    BY DEF NoCall
  <2> HIDE DEF c
  <2>3. Called(i)'
    <3>1. CASE RuntimeOf(i) = NONE
      BY <2>1, <3>1, CallOver
    <3>2. CASE RuntimeOf(i) # NONE
      BY <1>1, <2>1, <2>2, <3>2 DEF Called, RuntimeOf
    <3> QED
      BY <3>1, <3>2
  <2>4. asked' = [asked EXCEPT ![i] = f]
    BY <1>5 DEF Ended
  <2>5. \A l \in Kinds : f[l] # "held"
    <3>1. f[k] = "no" /\ \A l \in Kinds \ {k} : f[l] # "held"
      BY OneAsked
    <3> QED
      BY <3>1
  <2> HIDE DEF f
  <2>6. asked'[i] = f /\ \A j \in Id \ {i} : asked'[j] = asked[j]
    BY <2>4, AskedSet
  <2>7. Held(i)' /\ Released(i)'
    BY <2>5, <2>6, NoneHeld
  <2> QED
    BY <1>2, <1>3, <2>1, <2>3, <2>6, <2>7, OneVolume DEF RequestOf
<1> QED
  BY <1>4, <1>5

LEMMA RemovedKeepsRequests ==
  ASSUME TypeOK, RequestInv, NEW i \in Id, Removed(i)
  PROVE  RequestInv'
<1>1. /\ UNCHANGED <<rt, ticket, use, current, disc>>
      /\ call' = [call EXCEPT ![i] = [NoCall EXCEPT !.pc = "detach"]]
      /\ asked' = [asked EXCEPT ![i] = [k \in Kinds |-> "no"]]
  BY DEF Removed
<1>2. \A r \in Rt : KeptShut(r)
  BY <1>1, KeptByFrame
<1>3. /\ \A j \in Id \ {i} : asked'[j] = asked[j] /\ call'[j] = call[j]
      /\ call'[i] = [NoCall EXCEPT !.pc = "detach"]
      /\ \A k \in Kinds : asked'[i][k] = "no"
  BY <1>1 DEF TypeOK
<1>4. Held(i)' /\ Released(i)'
  BY <1>3, NoneHeld
<1>5. Called(i)'
  BY <1>3, CallOver
<1>6. \A j \in Id : StaysHeld(j)
  BY <1>1, SameHeld
<1> QED
  BY <1>2, <1>3, <1>4, <1>5, <1>6, OneVolume DEF RequestOf

\* Every step preserves the invariant.
LEMMA RequestInvInductive ==
  TypeOK /\ WriterInv /\ RequestInv /\ [Next]_vars => RequestInv'
<1> SUFFICES ASSUME TypeOK, WriterInv, RequestInv, [Next]_vars PROVE RequestInv'
  OBVIOUS
<1>1. ASSUME UNCHANGED <<call, asked>>, \A i \in Id : StaysHeld(i),
             \A i \in Id : \A r \in Rt : Refers(i, r) => KeptShut(r)
      PROVE  RequestInv'
  BY <1>1, RequestKept DEF RequestInv
<1>2. CASE \E c \in Client : ClientStep(c)
  <2>1. UNCHANGED <<call, asked>>
    BY <1>2 DEF ClientStep, FindVolume, AcquireVolume, AcquireSearchAccess, ReleaseUse, clientOnly
  <2>2. \A i \in Id : StaysHeld(i)
    BY <1>2, OthersStayHeld DEF RequestInv, RequestOf
  <2> QED
    BY <1>1, <1>2, <2>1, <2>2, OthersKeepShut
<1>3. CASE \E g \in Ticket : WorkerStep(g)
  <2>1. UNCHANGED <<call, asked>>
    BY <1>3 DEF WorkerStep, Publish, WorkerEnds, DropTicket, FinishTicket
  <2>2. \A i \in Id : StaysHeld(i)
    BY <1>3, OthersStayHeld DEF RequestInv, RequestOf
  <2> QED
    BY <1>1, <1>3, <2>1, <2>2, OthersKeepShut
<1>4. CASE Discovery
  <2>1. UNCHANGED <<call, asked>>
    BY <1>4 DEF Discovery, Discover, Retire, EnsureInsert, EnsureMatch, EnsureReplace, ReplaceWait,
       Swap, ListStale, DisconnectStale, ReconcileNotifications, Unregister, EnsureNotification,
       ClaimWorker, discOnly
  <2>2. \A i \in Id : StaysHeld(i)
    BY <1>4, OthersStayHeld DEF RequestInv, RequestOf
  <2> QED
    BY <1>1, <1>4, <2>1, <2>2, OthersKeepShut
<1>5. ASSUME NEW i \in Id, Callback(i) PROVE RequestInv'
  BY <1>5, BeginKeepsRequests, DrainKeepsRequests, JoinKeepsRequests, GiveUpKeepsRequests,
     RestoreKeepsRequests, ReopenKeepsRequests, DetachKeepsRequests DEF Callback
<1>6. ASSUME UNCHANGED <<rt, ticket, use, current, disc, call, asked>> PROVE RequestInv'
  BY <1>1, <1>6, KeptByFrame, SameHeld
<1>7. CASE Windows
  <2>1. CASE ChangeMedia
    BY <1>6, <2>1 DEF ChangeMedia
  <2> QED
    BY <1>7, <2>1, RemovedKeepsRequests, AskKeepsRequests, EndKeepsRequests DEF Windows
<1>8. CASE UNCHANGED vars
  BY <1>6, <1>8 DEF vars
<1> QED
  BY <1>2, <1>3, <1>4, <1>5, <1>7, <1>8 DEF Next

LEMMA VolumeRequestInv == Spec => []RequestInv
<1>1. Init => RequestInv
  BY DEF Init, RequestInv, RequestOf, Held, HeldAt, Called, Released, NoCall
<1>2. Init => WriterInv
  BY DEF Init, WriterInv, WorkerOfItsRuntime, WritesForCurrent, NoTicket
<1>3. TypeOK /\ WriterInv /\ RequestInv /\ [Next]_vars => RequestInv'
  BY RequestInvInductive
<1> QED
  BY <1>1, <1>2, <1>3, VolumeTypeOK, VolumeIndexInv, WriterInvInductive, PTL DEF Spec

\* What is held is the runtime that is registered for the volume, closed.
LEMMA HeldIsClosed ==
  ASSUME NEW i \in Id, Held(i), HeldAt(i)
  PROVE  RuntimeOf(i) = current /\ Closed(i)
BY DEF Held, RuntimeOf, Closed, Suspended

\* Once the service has let go of a volume for a removal it stays registered and
\* closed, and no lease and no indexer is on it, until one of the events that
\* GrantedIsReleased names (prepare_operation, VolumeUsage::acquire, claim_worker,
\* reconcile_discovered_volumes).
THEOREM VolumeGrantedReleased == Spec => []GrantedIsReleased
<1>1. RequestInv => GrantedIsReleased
  <2> SUFFICES ASSUME RequestInv, NEW i \in Id, NEW k \in Kinds \cap {"remove"},
                      asked[i][k] = "held"
               PROVE  /\ Closed(i) /\ Idle(RuntimeOf(i))
                      /\ \A g \in Ticket : ticket[g].rt = RuntimeOf(i) => ticket[g].pc # "run"
    BY DEF GrantedIsReleased
  <2>1. RuntimeOf(i) = current /\ Closed(i)
    BY HeldIsClosed DEF RequestInv, RequestOf, HeldAt
  <2> QED
    BY <2>1 DEF RequestInv, RequestOf, Released
<1> QED
  BY <1>1, VolumeRequestInv, PTL

\* A locked volume, and one whose dismount has run out of time, stays registered
\* and closed until one of those events (prepare_maintenance_identity, is_removing,
\* cancel_removal).
THEOREM VolumeLockSuspends == Spec => []LockSuspends
<1>1. RequestInv => LockSuspends
  <2> SUFFICES ASSUME RequestInv, NEW i \in Id, NEW k \in Kinds, asked[i][k] = "held"
               PROVE  Closed(i)
    BY DEF LockSuspends
  <2> QED
    BY HeldIsClosed DEF RequestInv, RequestOf, HeldAt
<1> QED
  BY <1>1, VolumeRequestInv, PTL
=============================================================================
