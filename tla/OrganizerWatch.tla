--------------------------- MODULE OrganizerWatch ---------------------------
(***************************************************************************)
(* The organizer thread's watcher supervision: how a file in the source    *)
(* folder of a rule comes to be pending.  It is seen by a watch event, or  *)
(* by a scan of the folder; scans follow an overflow of the event queue, a *)
(* command, and a health check that finds the folders available again.     *)
(*                                                                         *)
(* One rule; its source folder is on a removable volume, whose removal     *)
(* closes the native watches through the process-wide registry of the      *)
(* removal-aware watcher, and its destination on a fixed one.  What        *)
(* becomes of a stable file is left to OrganizerMove: here it moves.       *)
(***************************************************************************)
EXTENDS Naturals, Sequences

CONSTANTS
  File,
  Capacity,     \* WATCH_EVENT_QUEUE_CAPACITY
  PerTick,      \* MAX_WATCH_EVENTS_PER_TICK
  MaxFaults,    \* bound: failing watches and watch calls
  MaxCommands,  \* bound: commands
  MaxRemovals,  \* bound: attempts to remove the volume or the destination
  NONE

ASSUME WatchAssumption ==
  /\ Capacity \in Nat \ {0} /\ PerTick \in Nat \ {0}
  /\ MaxFaults \in Nat /\ MaxCommands \in Nat /\ MaxRemovals \in Nat
  /\ NONE \notin Nat

VARIABLES
  device,      \* the source's volume: "here", "asked" for removal or "gone"
  dest,        \* the destination folder exists
  there,       \* files in the source folder
  moved,       \* files that were taken from it
  unseen,      \* ghost: [File -> whether no watch saw the file arrive, and why]
  suspended,   \* the volume is in Registry::suspended
  epoch,       \* Registry::epochs
  native,      \* the native watcher of the source's volume: "none", "idle" (it
               \* watches nothing), "live", "dead" (its watch failed), "closed"
  reg,         \* the PnP registration of its group: its epoch, or NONE
  retired,     \* RETIRED: epochs of registrations kept until the outcome
  dropping,    \* the registration the thread is about to unregister, or NONE
  releasing,   \* those the worker of retired.rs is about to unregister
  raced,       \* ghost: the volume was suspended while one of these heard it
  runtime,     \* WatcherRuntime
  due,         \* next_health_check has come
  retry,       \* next_retry has come
  on, paused,  \* the rule is enabled; it is in paused_rules
  reported,    \* reported_statuses
  queue,       \* the bounded channel of watch events
  overflowed,  \* watch_overflowed
  pending,     \* [File -> "no", "new" or "ripe": STABILITY_DELAY is over]
  pc,          \* where the loop stands
  seen,        \* the signature the health check has computed
  faults, commands, removals,
  deaf         \* ghost: an error event met a full queue

world == <<device, dest, there, moved, unseen, removals>>
pnp == <<suspended, epoch, native, reg, retired, dropping, releasing, raced>>
rule == <<on, paused>>
channel == <<queue, overflowed, deaf>>
vars == <<world, pnp, runtime, due, retry, rule, reported, channel, pending, pc,
          seen, faults, commands>>

Recoverable == {"source", "destination", "both", "recovering"}

NoRuntime == [signature |-> NONE, ready |-> FALSE, registered |-> {}]

Init ==
  /\ device \in {"here", "gone"} /\ dest \in BOOLEAN
  /\ there \in SUBSET File /\ moved = {}
  /\ unseen = [f \in File |-> "no"]
  /\ suspended = FALSE /\ epoch = 0
  /\ native = "none" /\ reg = NONE
  /\ retired = {} /\ dropping = NONE /\ releasing = {} /\ raced = FALSE
  /\ runtime = NoRuntime
  /\ due = TRUE /\ retry = TRUE
  /\ on \in BOOLEAN /\ paused = FALSE
  /\ reported = NONE
  /\ queue = << >> /\ overflowed = FALSE
  \* queue_rule_paths of the enabled rules
  /\ pending = [f \in File |-> IF on /\ device # "gone" /\ f \in there THEN "new" ELSE "no"]
  /\ pc = "check" /\ seen = NONE
  /\ faults = 0 /\ commands = 0 /\ removals = 0
  /\ deaf = FALSE

----------------------------------------------------------------------------
(* Folders, scans and statuses.                                            *)

SourceAvailable == ~suspended /\ device # "gone"

\* queue_matching_path for the files in S: an enabled rule that is not paused,
\* and a file that is there; what is pending keeps its time.
Noticed(table, S, enabled, stopped) == [f \in File |->
  IF f \in S \cap there /\ device # "gone" /\ enabled /\ ~stopped /\ table[f] = "no"
    THEN "new" ELSE table[f]]

\* watch_signature; a disabled rule has no watched folders.
Signature == IF on THEN {<<"source", SourceAvailable>>, <<"dest", dest>>} ELSE {}

\* RemovalAwareWatcher::needs_refresh
NeedsRefresh == native = "closed" /\ ~suspended

\* status_for_rule
Status ==
  CASE ~on -> "disabled"
    [] on /\ paused -> "paused"
    [] OTHER ->
         IF SourceAvailable /\ dest
           THEN IF runtime.registered = {"source", "dest"} THEN "active" ELSE "recovering"
         ELSE IF SourceAvailable THEN "destination"
         ELSE IF dest THEN "source" ELSE "both"

\* Mutant: a registration is released at once.
ReleaseAlways(e) == TRUE

\* Registration::can_release; a removal that is complete is told to every
\* registration.
CanRelease(e) == device = "gone" \/ e # epoch \/ ~suspended

\* Group::drop: the registration of the dropped watcher is retired, or
\* unregistered by a step of its own.
DropWatcher ==
  IF reg = NONE THEN UNCHANGED <<retired, dropping>>
  ELSE IF CanRelease(reg) THEN dropping' = reg /\ UNCHANGED retired
  ELSE retired' = retired \cup {reg} /\ UNCHANGED dropping

----------------------------------------------------------------------------
(* The loop of run_organizer.                                              *)

\* Mutant: a watcher that is not ready is not tried again.
MustConfigureOnce == runtime.signature # Signature \/ NeedsRefresh

\* A reconfiguration follows a changed signature, a released watcher, and a
\* watcher that is not ready when its retry has come.
MustConfigure == \/ runtime.signature # Signature
                 \/ NeedsRefresh
                 \/ ~runtime.ready /\ retry

Check ==
  /\ pc = "check"
  /\ IF ~due THEN pc' = "events" /\ UNCHANGED seen
     ELSE IF MustConfigure THEN pc' = "configure" /\ seen' = Signature
          ELSE pc' = "report" /\ UNCHANGED seen
  /\ UNCHANGED <<world, pnp, runtime, due, retry, rule, reported, channel, pending,
                 faults, commands>>

\* configure_watcher: a folder that is not available is left out, a watch call
\* may fail, and so may the creation of the watcher.
Configure ==
  /\ pc = "configure"
  /\ \E registered \in SUBSET {"source", "dest"} :
       LET wanted == IF on THEN {"source", "dest"} ELSE {}
           watchable == {folder \in wanted :
                           IF folder = "source" THEN SourceAvailable ELSE dest}
       IN /\ registered \subseteq watchable
          /\ registered = watchable \/ faults < MaxFaults
          /\ faults' = IF registered = watchable THEN faults ELSE faults + 1
          /\ runtime' = [signature |-> seen, ready |-> registered = wanted,
                         registered |-> registered]
          /\ retry' = (registered = wanted /\ retry)
          \* the group and its registration may be there without a watch
          /\ \/ /\ "source" \in registered
                /\ native' = "live" /\ reg' = epoch
             \/ /\ "source" \in watchable \ registered
                /\ native' = "idle" /\ reg' = epoch
             \/ /\ "source" \notin registered
                /\ native' = "none" /\ reg' = NONE
  /\ DropWatcher
  /\ pc' = "report" /\ seen' = NONE
  /\ UNCHANGED <<world, suspended, epoch, releasing, raced, due, rule, reported, channel,
                 pending, commands>>

\* The end of Group::drop: this registration hears nothing more.
Unregister ==
  /\ dropping # NONE /\ dropping' = NONE
  /\ UNCHANGED <<world, suspended, epoch, native, reg, retired, releasing, raced, runtime,
                 due, retry, rule, reported, channel, pending, pc, seen, faults, commands>>

\* Mutant: only a lost source counts as an outage.
RecoversFromSource(status, previous) == status = "active" /\ previous = "source"

Recovers(status, previous) == status = "active" /\ previous \in Recoverable

Report ==
  /\ pc = "report" /\ dropping = NONE
  /\ reported' = Status
  /\ pc' = IF Recovers(Status, reported) THEN "scan" ELSE "events"
  /\ due' = FALSE
  /\ UNCHANGED <<world, pnp, runtime, retry, rule, channel, pending, seen, faults, commands>>

\* The scan of a recovered rule.
ScanRecovered ==
  /\ pc = "scan"
  /\ pending' = Noticed(pending, File, on, paused)
  /\ pc' = "events"
  /\ UNCHANGED <<world, pnp, runtime, due, retry, rule, reported, channel, seen,
                 faults, commands>>

\* Mutant: an error is only reported.
ErrorShown == UNCHANGED <<runtime, retry>>

\* An error event: the watcher is configured again at the next health check.
ErrorSeen == runtime' = [runtime EXCEPT !.ready = FALSE] /\ retry' = TRUE

Events ==
  /\ pc = "events"
  /\ LET k == IF Len(queue) < PerTick THEN Len(queue) ELSE PerTick
         taken == {queue[n] : n \in 1..k}
     IN /\ queue' = SubSeq(queue, k + 1, Len(queue))
        /\ pending' = Noticed(pending, taken, on, paused)
        /\ IF "error" \in taken THEN ErrorSeen ELSE UNCHANGED <<runtime, retry>>
  /\ pc' = "overflow"
  /\ UNCHANGED <<world, pnp, due, rule, reported, overflowed, deaf, seen, faults, commands>>

Overflow ==
  /\ pc = "overflow"
  /\ overflowed' = FALSE
  /\ pending' = IF overflowed THEN Noticed(pending, File, on, paused) ELSE pending
  /\ pc' = "command"
  /\ UNCHANGED <<world, pnp, runtime, due, retry, rule, reported, queue, deaf, seen,
                 faults, commands>>

\* reset_watcher
ResetWatcher ==
  /\ DropWatcher
  /\ native' = "none" /\ reg' = NONE
  /\ runtime' = NoRuntime
  /\ retry' = TRUE
  /\ UNCHANGED <<suspended, epoch, releasing, raced>>

NoCommand ==
  /\ pc = "command"
  /\ pc' = "files"
  /\ UNCHANGED <<world, pnp, runtime, due, retry, rule, reported, channel, pending, seen,
                 faults, commands>>

\* A command of OrganizerCommands, by what it does to watcher and files; one
\* that is refused does nothing here.
Commanded ==
  /\ pc = "command"
  /\ commands < MaxCommands
  /\ commands' = commands + 1
  /\ pc' = "files"
  /\ UNCHANGED <<device, there, moved, unseen, removals, due, reported, channel, seen, faults>>

SetRules ==
  /\ Commanded
  /\ \E enabled, changed \in BOOLEAN :
       /\ enabled # on => changed
       /\ on' = enabled /\ paused' = (paused /\ enabled)
       /\ LET kept == IF changed THEN [f \in File |-> "no"] ELSE pending
          IN pending' = IF changed THEN Noticed(kept, File, enabled, paused')
                        ELSE kept
  /\ ResetWatcher
  /\ UNCHANGED dest

PauseRule ==
  /\ Commanded
  /\ on
  /\ paused' = TRUE
  /\ pending' = [f \in File |-> "no"]
  /\ UNCHANGED <<on, dest, pnp, runtime, retry>>

ResumeRule ==
  /\ Commanded
  /\ on
  /\ paused' = FALSE
  /\ pending' = Noticed(pending, File, on, FALSE)
  /\ UNCHANGED <<on, dest, pnp, runtime, retry>>

\* create_folder for the destination.
CreateFolder ==
  /\ Commanded
  /\ dest' = TRUE
  /\ pending' = Noticed(pending, File, on, paused)
  /\ ResetWatcher
  /\ UNCHANGED rule

\* process_stable_files: a file that cannot be read any more is dropped, one
\* whose destination is missing waits again.
StableFiles ==
  /\ pc = "files" /\ dropping = NONE
  /\ LET ripe == {f \in File : pending[f] = "ripe"}
         taken == IF device # "gone" /\ dest THEN ripe ELSE {}
     IN /\ pending' = [f \in File |->
             IF f \notin ripe THEN pending[f]
             ELSE IF device # "gone" /\ ~dest THEN "new" ELSE "no"]
        /\ moved' = moved \cup taken
        /\ there' = there \ taken
  /\ pc' = "check"
  /\ UNCHANGED <<device, dest, unseen, removals, pnp, runtime, due, retry, rule, reported,
                 channel, seen, faults, commands>>

Loop ==
  \/ Check \/ Configure \/ Unregister \/ Report \/ ScanRecovered \/ Events \/ Overflow
  \/ NoCommand \/ SetRules \/ PauseRule \/ ResumeRule \/ CreateFolder
  \/ StableFiles

\* The clock: the next health check, and the next retry; a file that has been
\* pending since the last tick is stable.
Tick ==
  /\ ~due \/ \E f \in File : pending[f] = "new"
  /\ due' = TRUE
  /\ pending' = [f \in File |-> IF pending[f] = "new" THEN "ripe" ELSE pending[f]]
  /\ UNCHANGED <<world, pnp, runtime, retry, rule, reported, channel, pc, seen, faults, commands>>

RetryTick ==
  /\ ~retry
  /\ retry' = TRUE
  /\ UNCHANGED <<world, pnp, runtime, due, rule, reported, channel, pending, pc, seen,
                 faults, commands>>

----------------------------------------------------------------------------
(* Files, watches and the volume.                                          *)

\* Mutant: one event too many.
HasRoomForOne == Len(queue) <= Capacity
HasRoom == Len(queue) < Capacity

\* The handler of the watcher: try_send, or the overflow flag.
Send(event) ==
  IF HasRoom
    THEN queue' = Append(queue, event) /\ UNCHANGED <<overflowed, deaf>>
    ELSE overflowed' = TRUE /\ deaf' = (deaf \/ event = "error") /\ UNCHANGED queue

\* A scan is sure to come: on enabling, on resuming, or on recovery.
ScanPromised == ~on \/ paused \/ reported \in Recoverable

\* A file arrives in the folder, or on the volume while it is elsewhere.
Arrive(f) ==
  /\ f \notin there \cup moved
  /\ there' = there \cup {f}
  /\ IF native = "live" /\ device # "gone" THEN Send(f) ELSE UNCHANGED channel
  /\ unseen' = [unseen EXCEPT ![f] =
       IF native = "live" \/ device = "gone" \/ ScanPromised THEN "no"
       ELSE IF native = "dead" THEN "failed" ELSE "unwatched"]
  /\ UNCHANGED <<device, dest, moved, removals, pnp, runtime, due, retry, rule, reported,
                 pending, pc, seen, faults, commands>>

\* The native watch reports an error; it may have stopped.
WatchError ==
  /\ native = "live"
  /\ faults < MaxFaults
  /\ faults' = faults + 1
  /\ native' \in {"live", "dead"}
  /\ Send("error")
  /\ UNCHANGED <<world, suspended, epoch, reg, retired, dropping, releasing, raced, runtime,
                 due, retry, rule, reported, pending, pc, seen, commands>>

\* Notifications reach the registrations of this epoch; the others ignore them.
Heard == \E e \in retired \cup releasing \cup {reg, dropping} : e = epoch

\* suspend: the volume is marked and its native watches are closed.
Closed == IF native = "none" THEN "none" ELSE "closed"

registrations == <<epoch, reg, retired, dropping, releasing>>

Outside == UNCHANGED <<dest, there, moved, unseen, runtime, due, retry, rule, reported,
                       channel, pending, pc, seen, faults, commands>>

\* Query-remove; a watch that does not stop in time cancels it.
QueryRemove ==
  /\ device = "here"
  /\ removals < MaxRemovals
  /\ removals' = removals + 1
  /\ \/ /\ device' = "asked"
        /\ IF Heard
             THEN /\ suspended' = TRUE /\ native' = Closed
                  /\ raced' = (epoch \in releasing \cup {dropping})
             ELSE UNCHANGED <<suspended, native, raced>>
     \/ /\ Heard
        /\ native' \in {native, Closed} /\ suspended' = FALSE /\ raced' = FALSE
        /\ UNCHANGED device
  /\ UNCHANGED registrations
  /\ Outside

\* Query-remove-failed: resume.
RemoveFailed ==
  /\ device = "asked"
  /\ device' = "here"
  /\ suspended' = (suspended /\ ~Heard) /\ raced' = (raced /\ ~Heard)
  /\ UNCHANGED <<removals, native, registrations>>
  /\ Outside

\* Remove-complete, after a query or by surprise: suspend.
RemoveComplete ==
  /\ \/ device = "asked" /\ UNCHANGED removals
     \/ device = "here" /\ removals < MaxRemovals /\ removals' = removals + 1
  /\ device' = "gone"
  /\ IF Heard THEN suspended' = TRUE /\ native' = Closed
     ELSE UNCHANGED <<suspended, native>>
  /\ UNCHANGED <<raced, registrations>>
  /\ Outside

\* volume_arrived.  It is assumed that a volume stays away until a health check
\* has seen it gone, or while no rule wants it.
OutageSeen == ScanPromised
Returns ==
  /\ device = "gone"
  /\ OutageSeen
  /\ device' = "here"
  /\ suspended' = FALSE /\ raced' = FALSE
  /\ epoch' = IF suspended THEN epoch + 1 ELSE epoch
  /\ UNCHANGED <<removals, native, reg, retired, dropping, releasing>>
  /\ Outside

\* The worker of retired.rs, which unregisters what it has taken off the list
\* by a step of its own.
ReleaseRetired ==
  /\ releasing = {}
  /\ \E e \in retired : CanRelease(e)
  /\ releasing' = {e \in retired : CanRelease(e)}
  /\ retired' = retired \ releasing'
  /\ UNCHANGED <<device, removals, suspended, epoch, native, reg, dropping, raced>>
  /\ Outside

Released ==
  /\ releasing # {} /\ releasing' = {}
  /\ UNCHANGED <<device, removals, suspended, epoch, native, reg, retired, dropping, raced>>
  /\ Outside

\* The user deletes or makes the destination folder.
DestinationChanges ==
  /\ removals < MaxRemovals
  /\ removals' = removals + 1
  /\ dest' = ~dest
  /\ UNCHANGED <<device, there, moved, unseen, pnp, runtime, due, retry, rule, reported,
                 channel, pending, pc, seen, faults, commands>>

Environment ==
  \/ \E f \in File : Arrive(f)
  \/ WatchError
  \/ QueryRemove \/ RemoveFailed \/ RemoveComplete \/ Returns \/ ReleaseRetired \/ Released
  \/ DestinationChanges

Next == Loop \/ Tick \/ RetryTick \/ Environment

Spec == Init /\ [][Next]_vars

\* The thread runs and time passes.
FairSpec == Spec /\ WF_vars(Loop) /\ WF_vars(Tick) /\ WF_vars(RetryTick)

----------------------------------------------------------------------------
(* Properties.                                                             *)

Statuses == Recoverable \cup {"active", "paused", "disabled"}
Signatures == {NONE} \cup SUBSET ({"source", "dest"} \X BOOLEAN)

\* Every variable has its type, and a released or missing native watch is not
\* counted on while the volume is suspended.
TypeOK ==
  /\ device \in {"here", "asked", "gone"} /\ dest \in BOOLEAN
  /\ there \subseteq File /\ moved \subseteq File
  /\ unseen \in [File -> {"no", "failed", "unwatched"}]
  /\ suspended \in BOOLEAN /\ epoch \in Nat
  /\ native \in {"none", "idle", "live", "dead", "closed"}
  /\ reg \in Nat \cup {NONE} /\ dropping \in Nat \cup {NONE}
  /\ retired \subseteq Nat /\ releasing \subseteq Nat /\ raced \in BOOLEAN
  /\ runtime \in [signature : Signatures, ready : BOOLEAN,
                  registered : SUBSET {"source", "dest"}]
  /\ due \in BOOLEAN /\ retry \in BOOLEAN
  /\ on \in BOOLEAN /\ paused \in BOOLEAN
  /\ reported \in Statuses \cup {NONE}
  /\ queue \in Seq(File \cup {"error"}) /\ Len(queue) <= Capacity
  /\ overflowed \in BOOLEAN /\ deaf \in BOOLEAN
  /\ pending \in [File -> {"no", "new", "ripe"}]
  /\ pc \in {"check", "configure", "report", "scan", "events", "overflow", "command", "files"}
  /\ seen \in Signatures
  /\ faults \in 0..MaxFaults /\ commands \in 0..MaxCommands /\ removals \in 0..MaxRemovals
  /\ suspended => native \in {"none", "closed"}

\* A volume that is there is not suspended: whoever drops the watcher during
\* a removal, its outcome finds a registration that ends the suspension
\* (retired.rs:7).  Left out are volumes whose query was heard by a
\* registration that had been found releasable and was yet to be unregistered.
SuspensionEnds == device = "here" /\ ~raced => ~suspended

\* Monitoring could work, and nobody keeps it from working.
Working == on /\ ~paused /\ dest /\ device = "here" /\ ~raced

\* Once monitoring can work for good, every file is taken in the end, however
\* it arrived: by an event, during an overflow, a pause or an outage.  Left
\* out are files that arrive while nothing watches and nothing will scan.
FilesAreTaken ==
  <>[]Working => []<>(\A f \in there : unseen[f] # "no")

\* Once monitoring can work for good, the rule is shown active for good.
ShownActive == <>[]Working => <>[](reported = "active")

\* A native watch that has failed is replaced, unless its error was lost.
FailureIsRepaired == native = "dead" ~> native # "dead" \/ deaf
=============================================================================
