-------------------------- MODULE VolumeLifecycle --------------------------
(***************************************************************************)
(* The search service's volumes, seen from one drive letter.               *)
(*                                                                         *)
(* Three kinds of threads meet in VolumeLifecycle.  The discovery thread   *)
(* looks at the letter, registers a runtime for the volume it finds there, *)
(* subscribes to its PnP notifications and starts an indexer.  Windows     *)
(* calls the notification callbacks: a removal or a volume lock asks the   *)
(* service to let go of the volume, and a later call says that it may use  *)
(* it again or that the volume is gone.  Clients hold leases (use guards)  *)
(* for their I/O and search the published index.                           *)
(*                                                                         *)
(* Runtimes, worker tickets and index handles are reference counted        *)
(* objects: their names are taken from finite sets and used again when     *)
(* nothing refers to them.  The callbacks of one registration are taken to *)
(* be serialized, as PnP events of one handle are.  Waking the discovery   *)
(* thread is not modelled, it runs by timeout as well.                     *)
(***************************************************************************)
EXTENDS Naturals, FiniteSets

CONSTANTS
  Id,        \* identities of volumes (volume GUID and serial number)
  Client,    \* IPC requests that need the volume
  Rt,        \* names for VolumeRuntime objects
  Ticket,    \* names for worker generations and their tickets
  Handle,    \* names for index handles
  Kinds,     \* which notifications Windows sends: "remove", "lock", "dismount"
  MaxEvents, \* bound: media changes, PnP requests and removals, volumes that
             \* do not answer, indexers that end by themselves
  NONE

ASSUME VolumeAssumption ==
  /\ Kinds \subseteq {"remove", "lock", "dismount"}
  /\ MaxEvents \in Nat
  /\ NONE \notin Id \cup Rt \cup Ticket \cup Handle

VARIABLES
  media,    \* the volume that is mounted at the letter, or NONE
  current,  \* VolumeLifecycle::runtimes at the letter
  rt,       \* [Rt -> VolumeRuntime]: identity, usage flags, worker
  ticket,   \* [Ticket -> runtime, stop signal, how far the worker is, handle]
  index,    \* the handle published at the letter
  owner,    \* [Handle -> the volume whose files the index holds]
  use,      \* [Client -> runtime and handle it holds, and how far it is]
  disc,     \* the discovery thread
  reg,      \* [Id -> handle notification: "none", "armed", "stale" or "closing"]
  call,     \* [Id -> the notification callback that is running]
  asked,    \* [Id -> [Kinds -> what Windows has asked for and not ended: "no",
            \* "running" or "yes"; "held" while the volume, let go of, is to
            \* stay so]]
  used      \* events that count against MaxEvents

vars == <<media, current, rt, ticket, index, owner, use, disc, reg, call, asked, used>>

NewRuntime(i) == [id |-> i, removing |-> FALSE, replacing |-> FALSE, worker |-> NONE]
NoTicket == [rt |-> NONE, stop |-> FALSE, pc |-> "free", handle |-> NONE]
NoUse == [pc |-> "out", rt |-> NONE, handle |-> NONE]
NoCall == [pc |-> "idle", kind |-> "remove", rt |-> NONE, worker |-> NONE]
Asleep == [pc |-> "wait", found |-> NONE, stale |-> NONE, rt |-> NONE, worker |-> NONE,
           next |-> "stale"]

Init ==
  /\ media \in Id \cup {NONE}
  /\ current = NONE
  /\ rt = [r \in Rt |-> NewRuntime(NONE)]
  /\ ticket = [g \in Ticket |-> NoTicket]
  /\ index = NONE
  /\ owner = [h \in Handle |-> NONE]
  /\ use = [c \in Client |-> NoUse]
  /\ disc = Asleep
  /\ reg = [i \in Id |-> "none"]
  /\ call = [i \in Id |-> NoCall]
  /\ asked = [i \in Id |-> [k \in Kinds |-> "no"]]
  /\ used = 0

Event == used < MaxEvents /\ used' = used + 1

----------------------------------------------------------------------------
(* VolumeUsage and the objects.                                            *)

\* is_removing
Suspended(r) == rt[r].removing \/ rt[r].replacing
Guards(r) == {c \in Client : use[c].pc = "in" /\ use[c].rt = r}
Idle(r) == Guards(r) = {}

\* WorkerCompletion::wait_until has something to return for.
Finished(g) == g # NONE => ticket[g].pc = "done"

\* runtime_for_identity
RuntimeOf(i) == IF current # NONE /\ rt[current].id = i THEN current ELSE NONE

\* Nothing points at the object any more, so its name can be used again.
FreeRt(r) == /\ current # r
             /\ disc.rt # r
             /\ \A c \in Client : use[c].rt # r
             /\ \A i \in Id : call[i].rt # r
             /\ \A g \in Ticket : ticket[g].rt = r => ticket[g].pc \in {"free", "done"}
FreeTicket(g) == /\ ticket[g].pc \in {"free", "done"}
                 /\ disc.worker # g
                 /\ \A i \in Id : call[i].worker # g
FreeHandle(h) == /\ index # h
                 /\ \A c \in Client : use[c].handle # h
                 /\ \A g \in Ticket : ticket[g].handle # h

Stopped(r) == IF rt[r].worker = NONE THEN ticket
              ELSE [ticket EXCEPT ![rt[r].worker].stop = TRUE]

\* begin_removal, begin_replacement and cancel_removal
SetRemoving(r) == [rt EXCEPT ![r].removing = TRUE]
SetReplacing(r) == [rt EXCEPT ![r].replacing = TRUE]
CancelRemoval(r) == [rt EXCEPT ![r].removing = FALSE]
SetWorker(r, g) == [rt EXCEPT ![r].worker = g]

\* Mutant: the index is left to the next publication.
KeepIndex(r) == index

\* remove_index_if_owned
RemoveIndexIfOwned(r) ==
  IF index # NONE /\ owner[index] = rt[r].id THEN NONE ELSE index

----------------------------------------------------------------------------
(* Clients.                                                                *)

\* Mutant: the lease is granted whatever is going on.
AdmitAlways(r) == TRUE

\* VolumeUsage::acquire
Admits(r) == ~Suspended(r)

clientOnly == <<media, current, rt, ticket, index, owner, disc, reg, call, asked, used>>

\* acquire_volume finds the runtime under the registry lock ...
FindVolume(c) ==
  /\ use[c].pc = "out"
  /\ current # NONE
  /\ use' = [use EXCEPT ![c] = [pc |-> "ref", rt |-> current, handle |-> NONE]]
  /\ UNCHANGED clientOnly

\* ... and acquires the lease after it has released the lock.
AcquireVolume(c) ==
  /\ use[c].pc = "ref"
  /\ use' = [use EXCEPT ![c] = IF Admits(use[c].rt) THEN [@ EXCEPT !.pc = "in"] ELSE NoUse]
  /\ UNCHANGED clientOnly

\* acquire_search_access, under the registry lock throughout
AcquireSearchAccess(c) ==
  /\ use[c].pc = "out"
  /\ index # NONE
  /\ current # NONE
  /\ rt[current].id = owner[index]
  /\ Admits(current)
  /\ use' = [use EXCEPT ![c] = [pc |-> "in", rt |-> current, handle |-> index]]
  /\ UNCHANGED clientOnly

ReleaseUse(c) ==
  /\ use[c].pc = "in"
  /\ use' = [use EXCEPT ![c] = NoUse]
  /\ UNCHANGED clientOnly

----------------------------------------------------------------------------
(* An indexer.  It notices a stop request sooner or later, and may end at  *)
(* any time by itself.                                                     *)

\* Mutant: a publisher trusts the runtime it was made for.
PublishesDetached(g) == /\ rt[ticket[g].rt].worker = g
                        /\ ~rt[ticket[g].rt].replacing

MayPublish(g) == /\ current = ticket[g].rt
                 /\ rt[current].worker = g
                 /\ ~ticket[g].stop
                 /\ ~Suspended(current)

Leave(g) == [ticket EXCEPT ![g].pc = "leave", ![g].handle = NONE]

\* VolumeIndexPublisher::publish under the registry and worker locks.  An
\* index that is already published is overwritten in place.  An indexer that
\* may not publish ends.
Publish(g) ==
  /\ ticket[g].pc = "run"
  /\ \/ /\ MayPublish(g)
        /\ index = NONE => \E x \in Handle : FreeHandle(x)
        /\ LET h == IF index = NONE THEN CHOOSE x \in Handle : FreeHandle(x) ELSE index
           IN /\ index' = h
              /\ owner' = [owner EXCEPT ![h] = rt[ticket[g].rt].id]
              /\ ticket' = [ticket EXCEPT ![g].handle = h]
     \/ /\ ~MayPublish(g)
        /\ ticket' = Leave(g)
        /\ UNCHANGED <<index, owner>>
  /\ UNCHANGED <<media, current, rt, use, disc, reg, call, asked, used>>

WorkerEnds(g) ==
  /\ ticket[g].pc = "run"
  /\ IF ticket[g].stop THEN UNCHANGED used ELSE Event
  /\ ticket' = Leave(g)
  /\ UNCHANGED <<media, current, rt, index, owner, use, disc, reg, call, asked>>

\* VolumeWorkerTicket::drop: the runtime's worker is cleared first ...
DropTicket(g) ==
  /\ ticket[g].pc = "leave"
  /\ rt' = IF rt[ticket[g].rt].worker = g
           THEN SetWorker(ticket[g].rt, NONE) ELSE rt
  /\ ticket' = [ticket EXCEPT ![g].pc = "finish"]
  /\ UNCHANGED <<media, current, index, owner, use, disc, reg, call, asked, used>>

\* ... then whoever waits for it is told.
FinishTicket(g) ==
  /\ ticket[g].pc = "finish"
  /\ ticket' = [ticket EXCEPT ![g] = [NoTicket EXCEPT !.pc = "done"]]
  /\ UNCHANGED <<media, current, rt, index, owner, use, disc, reg, call, asked, used>>

----------------------------------------------------------------------------
(* The discovery thread: discover_volumes, reconcile_discovered_volumes,   *)
(* VolumeHandleNotifications::reconcile and ensure, claim_worker.          *)

\* is_drive_suspended
LetterSuspended == current # NONE /\ Suspended(current)

discOnly == <<media, current, rt, ticket, index, owner, use, reg, call, asked>>

Goto(pc) == disc' = [disc EXCEPT !.pc = pc]

\* discover_volumes leaves a suspended letter alone.  A volume that is
\* mounted may fail to answer.
Discover ==
  /\ disc.pc = "wait"
  /\ \E i \in {media, NONE} :
       /\ i # NONE => ~LetterSuspended
       /\ IF i = NONE /\ media # NONE /\ ~LetterSuspended THEN Event ELSE UNCHANGED used
       /\ disc' = [Asleep EXCEPT !.pc = "retire", !.found = i]
  /\ UNCHANGED discOnly

\* Mutant: a replacement is never done with.
NeverIdle(r) == FALSE

\* replacement_is_idle
ReplacementIsIdle(r) == rt[r].replacing /\ ~rt[r].removing /\ Idle(r)

\* retire_idle_replacements
Retire ==
  /\ disc.pc = "retire"
  /\ LET retired == /\ current # NONE
                    /\ ReplacementIsIdle(current)
                    /\ rt[current].worker = NONE
     IN current' = IF retired THEN NONE ELSE current
  /\ Goto(IF disc.found = NONE THEN "stale" ELSE "ensure")
  /\ UNCHANGED <<media, rt, ticket, index, owner, use, reg, call, asked, used>>

\* ensure_runtime returns r: the caller goes on.
Ensured(r) == disc' = [disc EXCEPT !.pc = disc.next, !.worker = NONE,
                                   !.rt = IF disc.next = "claim" THEN r ELSE NONE]
NotEnsured == disc' = [disc EXCEPT !.pc = IF disc.next = "claim" THEN "wait" ELSE "stale",
                                   !.rt = NONE, !.worker = NONE]

EnsureInsert ==
  /\ disc.pc = "ensure"
  /\ current = NONE
  /\ \E x \in Rt : FreeRt(x)
  /\ LET r == CHOOSE x \in Rt : FreeRt(x)
     IN /\ rt' = [rt EXCEPT ![r] = NewRuntime(disc.found)]
        /\ current' = r
        /\ Ensured(r)
  /\ UNCHANGED <<media, ticket, index, owner, use, reg, call, asked, used>>

EnsureMatch ==
  /\ disc.pc = "ensure"
  /\ RuntimeOf(disc.found) # NONE
  /\ Ensured(current)
  /\ UNCHANGED <<discOnly, used>>

\* Another volume has taken the letter: its predecessor is closed for good.
EnsureReplace ==
  /\ disc.pc = "ensure"
  /\ current # NONE
  /\ rt[current].id # disc.found
  /\ rt' = SetReplacing(current)
  /\ ticket' = Stopped(current)
  /\ index' = RemoveIndexIfOwned(current)
  /\ disc' = [disc EXCEPT !.pc = "drain", !.rt = current, !.worker = rt[current].worker]
  /\ UNCHANGED <<media, current, owner, use, reg, call, asked, used>>

\* The leases are waited for, then the worker; either wait may run out.
ReplaceWait ==
  /\ \/ disc.pc = "drain" /\ Idle(disc.rt) /\ Goto("join")
     \/ disc.pc = "drain" /\ ~Idle(disc.rt) /\ NotEnsured
     \/ disc.pc = "join" /\ Finished(disc.worker) /\ Goto("swap")
     \/ disc.pc = "join" /\ ~Finished(disc.worker) /\ NotEnsured
  /\ UNCHANGED <<discOnly, used>>

Swap ==
  /\ disc.pc = "swap"
  /\ \/ /\ ReplacementIsIdle(disc.rt)
        /\ current' = IF current = disc.rt THEN NONE ELSE current
        /\ disc' = [disc EXCEPT !.pc = "ensure", !.rt = NONE, !.worker = NONE]
     \/ /\ ~ReplacementIsIdle(disc.rt)
        /\ NotEnsured
        /\ UNCHANGED current
  /\ UNCHANGED <<media, rt, ticket, index, owner, use, reg, call, asked, used>>

\* Mutant: a volume that is closed is listed as well.
GoneOrClosed == disc.found = NONE /\ current # NONE

\* The volumes that were not found are listed, unless they are closed ...
Gone == disc.found = NONE /\ current # NONE /\ ~Suspended(current)

ListStale ==
  /\ disc.pc = "stale"
  /\ disc' = [disc EXCEPT !.pc = IF Gone THEN "disconnect" ELSE "notify",
                          !.stale = IF Gone THEN rt[current].id ELSE NONE]
  /\ UNCHANGED <<discOnly, used>>

\* ... and disconnected one after the other (disconnect_volume, also called
\* for a volume that is gone).
Detach(i) ==
  IF RuntimeOf(i) = NONE THEN UNCHANGED <<current, rt, ticket, index>>
  ELSE /\ current' = NONE
       /\ rt' = SetRemoving(current)
       /\ ticket' = Stopped(current)
       /\ index' = RemoveIndexIfOwned(current)

DisconnectStale ==
  /\ disc.pc = "disconnect"
  /\ Detach(disc.stale)
  /\ disc' = [disc EXCEPT !.pc = "notify", !.stale = NONE]
  /\ UNCHANGED <<media, owner, use, reg, call, asked, used>>

\* is_removing
IsRemoving(i) == RuntimeOf(i) # NONE /\ Suspended(current)

\* Registrations of volumes that are neither found nor being removed end.
ReconcileNotifications ==
  /\ disc.pc = "notify"
  /\ reg' = [i \in Id |-> IF reg[i] # "none" /\ i # disc.found /\ ~IsRemoving(i)
                          THEN "closing" ELSE reg[i]]
  /\ Goto("unregister")
  /\ UNCHANGED <<media, current, rt, ticket, index, owner, use, call, asked, used>>

\* CM_Unregister_Notification returns when no callback is running.
Unregister ==
  /\ disc.pc = "unregister"
  /\ \A i \in Id : reg[i] = "closing" => call[i].pc = "idle"
  /\ reg' = [i \in Id |-> IF reg[i] = "closing" THEN "none" ELSE reg[i]]
  /\ Goto(IF disc.found = NONE THEN "wait" ELSE "register")
  /\ UNCHANGED <<media, current, rt, ticket, index, owner, use, call, asked, used>>

\* VolumeHandleNotifications::ensure.  A registration that has closed its
\* handle, or must be armed again, is replaced (which waits for a callback
\* that is running) unless the volume is being removed.
EnsureNotification ==
  LET i == disc.found
  IN /\ disc.pc = "register"
     /\ \/ /\ reg[i] = "armed" \/ IsRemoving(i)
           /\ disc' = [disc EXCEPT !.pc = "ensure", !.next = "claim"]
           /\ UNCHANGED <<reg, used>>
        \/ /\ reg[i] # "armed" /\ ~IsRemoving(i)
           /\ call[i].pc = "idle"
           /\ \/ /\ reg' = [reg EXCEPT ![i] = "armed"]
                 /\ disc' = [disc EXCEPT !.pc = "ensure", !.next = "claim"]
                 /\ UNCHANGED used
              \/ /\ Event                 \* it cannot be made
                 /\ reg' = [reg EXCEPT ![i] = "none"]
                 /\ Goto("wait")
     /\ UNCHANGED <<media, current, rt, ticket, index, owner, use, call, asked>>

\* Mutant: a worker is claimed although another one is there.
ClaimsTwice(r) == ~Suspended(r)

Claimable(r) == ~Suspended(r) /\ rt[r].worker = NONE

\* claim_worker after ensure_runtime
ClaimWorker ==
  /\ disc.pc = "claim"
  /\ \/ /\ Claimable(disc.rt)
        /\ \E x \in Ticket : FreeTicket(x)
        /\ LET g == CHOOSE x \in Ticket : FreeTicket(x)
           IN /\ ticket' = [ticket EXCEPT ![g] = [NoTicket EXCEPT !.rt = disc.rt, !.pc = "run"]]
              /\ rt' = SetWorker(disc.rt, g)
     \/ /\ ~Claimable(disc.rt)
        /\ UNCHANGED <<ticket, rt>>
  /\ disc' = Asleep
  /\ UNCHANGED <<media, current, index, owner, use, reg, call, asked, used>>

----------------------------------------------------------------------------
(* Notification callbacks.                                                 *)

Listening(i) == /\ call[i].pc = "idle"
                /\ reg[i] \in {"armed", "stale"}

\* DEVICEQUERYREMOVE, or a lock or dismount of the volume: the registration's
\* handle is closed and prepare_operation looks the volume up.
Ask(i, k) ==
  /\ Listening(i)
  /\ media = i
  /\ asked[i][k] = "no"
  /\ reg' = [reg EXCEPT ![i] = "stale"]
  /\ IF RuntimeOf(i) = NONE
     THEN /\ asked' = [asked EXCEPT ![i][k] = "yes"]
          /\ UNCHANGED call
     ELSE /\ asked' = [asked EXCEPT ![i][k] = "running"]
          /\ call' = [call EXCEPT ![i] = [pc |-> "begin", kind |-> k, rt |-> RuntimeOf(i),
                                          worker |-> NONE]]
  /\ Event
  /\ UNCHANGED <<media, current, rt, ticket, index, owner, use, disc>>

\* The runtime is closed under the worker lock and its worker told to stop.
BeginRemoval(i) ==
  LET r == call[i].rt
  IN /\ call[i].pc = "begin"
     /\ rt' = SetRemoving(r)
     /\ ticket' = Stopped(r)
     /\ call' = [call EXCEPT ![i].pc = "drain", ![i].worker = rt[r].worker]
     /\ UNCHANGED <<media, current, index, owner, use, disc, reg, asked, used>>

DrainUses(i) ==
  /\ call[i].pc = "drain"
  /\ Idle(call[i].rt)
  /\ call' = [call EXCEPT ![i].pc = "join"]
  /\ UNCHANGED <<media, current, rt, ticket, index, owner, use, disc, reg, asked, used>>

\* Ghost: the volume is held from here on, unless the runtime that was closed
\* is no longer the volume's, or is about to be disconnected as that of a
\* volume that discovery did not find when it was still open.
Granted(i) == IF RuntimeOf(i) = call[i].rt /\ disc.stale # i THEN "held" ELSE "yes"

\* Ghost: the volume is opened again, or dropped, whatever else was asked for:
\* there is one flag for all requests.
Lifted(i) == [k \in Kinds |-> IF asked[i][k] = "held" THEN "yes" ELSE asked[i][k]]

\* The volume has been let go of; a dismounted one is then disconnected.
JoinWorker(i) ==
  LET k == call[i].kind
  IN /\ call[i].pc = "join"
     /\ Finished(call[i].worker)
     /\ asked' = [asked EXCEPT ![i] = IF k = "dismount" THEN [Lifted(i) EXCEPT ![k] = "yes"]
                                      ELSE [@ EXCEPT ![k] = Granted(i)]]
     /\ call' = [call EXCEPT ![i] = IF k = "dismount" THEN [NoCall EXCEPT !.pc = "detach"]
                                    ELSE NoCall]
     /\ UNCHANGED <<media, current, rt, ticket, index, owner, use, disc, reg, used>>

\* restore_on_timeout
RestoresOnTimeout(k) == k = "remove"

\* The five seconds are over.  A removal is refused, and the volume opened
\* again in the next step; a maintenance operation cannot be.
GiveUp(i) ==
  LET k == call[i].kind
      r == call[i].rt
  IN /\ \/ call[i].pc = "drain" /\ ~Idle(r)
        \/ call[i].pc = "join" /\ ~Finished(call[i].worker)
     /\ index' = RemoveIndexIfOwned(r)
     /\ IF RestoresOnTimeout(k)
        THEN /\ call' = [call EXCEPT ![i].pc = "restore"]
             /\ UNCHANGED asked
        ELSE /\ call' = [call EXCEPT ![i] = NoCall]
             /\ asked' = [asked EXCEPT ![i][k] = Granted(i)]
     /\ UNCHANGED <<media, current, rt, ticket, owner, use, disc, reg, used>>

\* Only a removal is vetoed by the answer.
Restore(i) ==
  LET k == call[i].kind
      r == call[i].rt
  IN /\ call[i].pc = "restore"
     /\ rt' = CancelRemoval(r)
     /\ asked' = [asked EXCEPT ![i] =
                    [Lifted(i) EXCEPT ![k] = IF k = "remove" THEN "no" ELSE Granted(i)]]
     /\ call' = [call EXCEPT ![i] = NoCall]
     /\ UNCHANGED <<media, current, ticket, index, owner, use, disc, reg, used>>

\* Windows gives the operation up, or has finished a lock or a mount:
\* removal_failed_identity looks the volume up ...
Ended(i, k) ==
  /\ Listening(i)
  /\ asked[i][k] \in {"yes", "held"}
  /\ asked' = [asked EXCEPT ![i] = [Lifted(i) EXCEPT ![k] = "no"]]
  /\ reg' = [reg EXCEPT ![i] = "stale"]
  /\ call' = [call EXCEPT ![i] = IF RuntimeOf(i) = NONE THEN NoCall
                                 ELSE [NoCall EXCEPT !.pc = "reopen", !.rt = RuntimeOf(i)]]
  /\ UNCHANGED <<media, current, rt, ticket, index, owner, use, disc, used>>

\* ... and opens it again, without the index it had.
Reopen(i) ==
  LET r == call[i].rt
  IN /\ call[i].pc = "reopen"
     /\ index' = IF Suspended(r) THEN RemoveIndexIfOwned(r) ELSE index
     /\ rt' = CancelRemoval(r)
     /\ call' = [call EXCEPT ![i] = NoCall]
     /\ UNCHANGED <<media, current, ticket, owner, use, disc, reg, asked, used>>

\* DEVICEREMOVEPENDING and DEVICEREMOVECOMPLETE
Removed(i) ==
  /\ Listening(i)
  /\ media # i
  /\ reg' = [reg EXCEPT ![i] = "stale"]
  /\ call' = [call EXCEPT ![i] = [NoCall EXCEPT !.pc = "detach"]]
  /\ asked' = [asked EXCEPT ![i] = [k \in Kinds |-> "no"]]
  /\ Event
  /\ UNCHANGED <<media, current, rt, ticket, index, owner, use, disc>>

DetachGone(i) ==
  /\ call[i].pc = "detach"
  /\ Detach(i)
  /\ call' = [call EXCEPT ![i] = NoCall]
  /\ UNCHANGED <<media, owner, use, disc, reg, asked, used>>

\* An operation ends while nobody listens.
EndedUnheard(i, k) ==
  /\ reg[i] = "none"
  /\ asked[i][k] \in {"yes", "held"}
  /\ asked' = [asked EXCEPT ![i][k] = "no"]
  /\ UNCHANGED <<media, current, rt, ticket, index, owner, use, disc, reg, call, used>>

\* A volume is plugged in, reformatted or taken away.
ChangeMedia ==
  /\ Event
  /\ media' \in (Id \cup {NONE}) \ {media}
  /\ UNCHANGED <<current, rt, ticket, index, owner, use, disc, reg, call, asked>>

----------------------------------------------------------------------------
ClientStep(c) == FindVolume(c) \/ AcquireVolume(c) \/ AcquireSearchAccess(c) \/ ReleaseUse(c)

WorkerStep(g) == Publish(g) \/ WorkerEnds(g) \/ DropTicket(g) \/ FinishTicket(g)

Discovery == \/ Discover \/ Retire \/ EnsureInsert \/ EnsureMatch \/ EnsureReplace
             \/ ReplaceWait \/ Swap \/ ListStale \/ DisconnectStale
             \/ ReconcileNotifications \/ Unregister \/ EnsureNotification
             \/ ClaimWorker

Callback(i) == \/ BeginRemoval(i) \/ DrainUses(i) \/ JoinWorker(i) \/ GiveUp(i)
               \/ Restore(i) \/ Reopen(i) \/ DetachGone(i)

Windows == \/ ChangeMedia
           \/ \E i \in Id : \/ Removed(i)
                            \/ \E k \in Kinds : \/ Ask(i, k) \/ Ended(i, k)
                                                \/ EndedUnheard(i, k)

Next == \/ \E c \in Client : ClientStep(c)
        \/ \E g \in Ticket : WorkerStep(g)
        \/ Discovery
        \/ \E i \in Id : Callback(i)
        \/ Windows

Spec == Init /\ [][Next]_vars

\* The discovery thread and the callbacks go on, clients end their requests,
\* and an indexer that is told to stop does.
FairSpec ==
  /\ Spec
  /\ WF_vars(Discovery)
  /\ \A i \in Id : WF_vars(Callback(i))
  /\ \A c \in Client : WF_vars(AcquireVolume(c)) /\ WF_vars(ReleaseUse(c))
  /\ \A g \in Ticket : /\ WF_vars(ticket[g].stop /\ WorkerEnds(g))
                        /\ WF_vars(DropTicket(g))
                        /\ WF_vars(FinishTicket(g))

----------------------------------------------------------------------------
RtRecord == [id : Id \cup {NONE}, removing : BOOLEAN, replacing : BOOLEAN,
             worker : Ticket \cup {NONE}]
TicketRecord == [rt : Rt \cup {NONE}, stop : BOOLEAN,
                 pc : {"free", "run", "leave", "finish", "done"}, handle : Handle \cup {NONE}]
UseRecord == [pc : {"out", "ref", "in"}, rt : Rt \cup {NONE}, handle : Handle \cup {NONE}]
DiscRecord == [pc : {"wait", "retire", "ensure", "drain", "join", "swap", "stale",
                     "disconnect", "notify", "unregister", "register", "claim"},
               found : Id \cup {NONE}, stale : Id \cup {NONE}, rt : Rt \cup {NONE},
               worker : Ticket \cup {NONE}, next : {"stale", "claim"}]
CallRecord == [pc : {"idle", "begin", "drain", "join", "restore", "reopen", "detach"},
               kind : {"remove", "lock", "dismount"}, rt : Rt \cup {NONE},
               worker : Ticket \cup {NONE}]
Answers == {"no", "running", "yes", "held"}

\* Besides the types: an actor that is inside an operation has the objects
\* the operation is about.
TypeOK ==
  /\ media \in Id \cup {NONE}
  /\ current \in Rt \cup {NONE}
  /\ rt \in [Rt -> RtRecord]
  /\ ticket \in [Ticket -> TicketRecord]
  /\ \A g \in Ticket : ticket[g].rt = NONE <=> ticket[g].pc \in {"free", "done"}
  /\ index \in Handle \cup {NONE}
  /\ owner \in [Handle -> Id \cup {NONE}]
  /\ use \in [Client -> UseRecord]
  /\ \A c \in Client : use[c].pc = "out" <=> use[c].rt = NONE
  /\ disc \in DiscRecord
  /\ disc.pc \in {"drain", "join", "swap", "claim"} <=> disc.rt # NONE
  /\ reg \in [Id -> {"none", "armed", "stale", "closing"}]
  /\ call \in [Id -> CallRecord]
  /\ \A i \in Id : call[i].pc \in {"idle", "detach"} <=> call[i].rt = NONE
  /\ asked \in [Id -> [Kinds -> Answers]]
  /\ used \in 0..MaxEvents

\* The published index belongs to the volume that is registered at the
\* letter: neither a disconnect nor a replacement leaves one behind, and no
\* indexer that was overtaken by them publishes another.
IndexOfCurrent ==
  index # NONE => current # NONE /\ owner[index] = rt[current].id

\* A search reads the files of the volume it holds a lease on, for as long
\* as it holds it: an index is never overwritten by another volume's under a
\* reader.
SearchReadsItsVolume ==
  \A c \in Client :
    use[c].pc = "in" /\ use[c].handle # NONE => owner[use[c].handle] = rt[use[c].rt].id

\* The published index is written by at most one indexer, the worker of the
\* registered runtime.
OneWriter ==
  \A g \in Ticket :
    ticket[g].pc = "run" /\ ticket[g].handle # NONE /\ ticket[g].handle = index =>
      ticket[g].rt = current /\ rt[current].worker = g

\* The volume is registered and closed: discovery neither opens it under
\* another runtime, nor forgets it.
Closed(i) == RuntimeOf(i) # NONE /\ Suspended(RuntimeOf(i))

\* A volume that the service has let go of for a removal stays so: it is the
\* one registered at the letter, it is closed, nobody holds a lease on it and no
\* indexer runs on it, whatever else Windows asks for meanwhile.  That is over
\* when Windows ends the removal, or any other operation it has asked for, when
\* a dismount drops the volume, and when the volume is gone.  A volume that
\* discovery had listed as gone before it was closed is not covered.
GrantedIsReleased ==
  \A i \in Id : \A k \in Kinds \cap {"remove"} :
    asked[i][k] = "held" =>
      /\ Closed(i)
      /\ Idle(RuntimeOf(i))
      /\ \A g \in Ticket : ticket[g].rt = RuntimeOf(i) => ticket[g].pc # "run"

\* A locked volume, and one whose dismount has run out of time, stays
\* registered and closed, on the same terms; a removal query that runs out of
\* time opens it as well.  What was in use when the time was over may go on.
LockSuspends ==
  \A i \in Id : \A k \in Kinds \ {"remove"} : asked[i][k] = "held" => Closed(i)

\* A volume that stays at the letter is registered in the end,
\* whatever volumes were there before and whoever still used them.
Settles ==
  \A i \in Id : <>[](media = i) => <>[](RuntimeOf(i) # NONE)
=============================================================================
