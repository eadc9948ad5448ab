------------------------ MODULE OrganizerWatchProofs ------------------------
(***************************************************************************)
(* A removal that is cancelled ends the suspension of the volume, whatever *)
(* the organizer does with its watcher in the meantime, unless the query   *)
(* was heard by a registration on its way out.  The types are proved too.  *)
(***************************************************************************)
EXTENDS OrganizerWatch, TLAPS

\* While the outcome of a query is open and the volume suspended, a
\* registration of the current epoch is alive and stays: the watcher's own or a
\* retired one.
Listened == \E e \in retired \cup {reg} : e = epoch
SuspensionInv ==
  /\ device \in {"here", "asked", "gone"}
  /\ epoch \in Nat
  /\ suspended /\ device = "asked" /\ ~raced => Listened
  /\ SuspensionEnds

LEMMA SuspensionInit == Init => SuspensionInv
<1> SUFFICES ASSUME Init PROVE SuspensionInv
  OBVIOUS
<1>1. ~suspended /\ device \in {"here", "gone"} /\ epoch = 0
  BY Zenon DEF Init
<1> QED
  BY <1>1 DEF SuspensionInv, SuspensionEnds

\* Dropping the watcher leaves a registration of this epoch behind.
LEMMA DropWatcherListened ==
  ASSUME SuspensionInv, DropWatcher, epoch' = epoch, device = "asked", suspended, ~raced
  PROVE  Listened'
<1>1. PICK e \in retired \cup {reg} : e = epoch
  BY DEF SuspensionInv, Listened
<1>2. CASE e \in retired
  BY <1>1, <1>2 DEF DropWatcher, Listened
<1>3. CASE e = reg
  <2>1. ~CanRelease(reg)
    BY <1>1, <1>3 DEF CanRelease
  <2>2. reg # NONE
    BY <1>1, <1>3, WatchAssumption DEF SuspensionInv
  <2> QED
    BY <1>1, <1>3, <2>1, <2>2 DEF DropWatcher, Listened
<1> QED
  BY <1>1, <1>2, <1>3

\* The thread only drops and replaces its watcher.
LEMMA LoopKeeps == ASSUME SuspensionInv, Loop PROVE SuspensionInv'
<1>1. /\ UNCHANGED <<device, suspended, epoch, raced>>
      /\ DropWatcher \/ UNCHANGED <<retired, reg>>
  <2>1. CASE Check \/ Report \/ ScanRecovered \/ Events \/ Overflow \/ NoCommand
    BY <2>1 DEF Check, Report, ScanRecovered, Events, Overflow, NoCommand, world, pnp
  <2>2. CASE Configure \/ Unregister
    BY <2>2 DEF Configure, Unregister, world
  <2>3. CASE SetRules
    BY <2>3 DEF SetRules, Commanded, ResetWatcher
  <2>4. CASE PauseRule \/ ResumeRule
    BY <2>4 DEF PauseRule, ResumeRule, Commanded, pnp
  <2>5. CASE CreateFolder
    BY <2>5 DEF CreateFolder, Commanded, ResetWatcher
  <2>6. CASE StableFiles
    BY <2>6 DEF StableFiles, pnp
  <2> QED
    BY <2>1, <2>2, <2>3, <2>4, <2>5, <2>6 DEF Loop
<1>2. /\ device' = device /\ (suspended' <=> suspended) /\ epoch' = epoch
      /\ (raced' <=> raced)
      /\ DropWatcher \/ (retired' = retired /\ reg' = reg)
  BY <1>1, Zenon
<1>3. suspended' /\ device' = "asked" /\ ~raced' => Listened'
  BY <1>2, DropWatcherListened DEF SuspensionInv, Listened
<1> QED
  BY <1>2, <1>3 DEF SuspensionInv, SuspensionEnds

LEMMA EnvironmentKeeps == ASSUME SuspensionInv, Environment PROVE SuspensionInv'
<1>1. CASE (\E f \in File : Arrive(f)) \/ WatchError \/ DestinationChanges \/ Released
  <2>1. UNCHANGED <<device, suspended, epoch, retired, reg, raced>>
    BY <1>1 DEF Arrive, WatchError, DestinationChanges, Released, world, pnp
  <2>2. /\ device' = device /\ (suspended' <=> suspended) /\ epoch' = epoch
        /\ retired' = retired /\ reg' = reg /\ (raced' <=> raced)
    BY <2>1, Zenon
  <2> QED
    BY <2>2 DEF SuspensionInv, SuspensionEnds, Listened
<1>2. CASE QueryRemove
  <2>1. epoch' = epoch /\ retired' = retired /\ reg' = reg /\ device = "here"
    BY <1>2, Zenon DEF QueryRemove, registrations
  <2>2. CASE /\ device' = "asked" /\ Heard
             /\ raced' = (epoch \in releasing \cup {dropping})
    <3>1. ~raced' => Listened'
      BY <2>1, <2>2 DEF Listened, Heard
    <3> QED
      BY <2>1, <2>2, <3>1 DEF SuspensionInv, SuspensionEnds
  <2>3. CASE device' = "asked" /\ (suspended' <=> suspended) /\ (raced' <=> raced)
    BY <2>1, <2>3 DEF SuspensionInv, SuspensionEnds
  <2>4. CASE ~suspended' /\ device' = device
    BY <2>1, <2>4 DEF SuspensionInv, SuspensionEnds
  <2> QED
    BY <1>2, <2>2, <2>3, <2>4, Zenon DEF QueryRemove
<1>3. CASE RemoveFailed
  <2>1. /\ device = "asked" /\ device' = "here" /\ epoch' = epoch
        /\ (suspended' <=> suspended /\ ~Heard) /\ (raced' <=> raced /\ ~Heard)
    BY <1>3, Zenon DEF RemoveFailed, registrations
  <2>2. suspended /\ ~raced => Heard
    BY <2>1 DEF SuspensionInv, Listened, Heard
  <2> QED
    BY <2>1, <2>2 DEF SuspensionInv, SuspensionEnds
<1>4. CASE RemoveComplete
  BY <1>4 DEF RemoveComplete, registrations, SuspensionInv, SuspensionEnds
<1>5. CASE Returns
  <2>1. device' = "here" /\ ~suspended' /\ (epoch' = epoch \/ epoch' = epoch + 1)
    BY <1>5, Zenon DEF Returns
  <2> QED
    BY <2>1 DEF SuspensionInv, SuspensionEnds
<1>6. CASE ReleaseRetired
  <2>1. /\ device' = device /\ (suspended' <=> suspended) /\ epoch' = epoch /\ reg' = reg
        /\ (raced' <=> raced)
        /\ retired' = retired \ {e \in retired : CanRelease(e)}
    BY <1>6, Zenon DEF ReleaseRetired
  <2>2. suspended /\ device = "asked" => ~CanRelease(epoch)
    BY DEF CanRelease
  <2>3. suspended /\ device = "asked" /\ ~raced => Listened'
    BY <2>1, <2>2 DEF SuspensionInv, Listened
  <2> QED
    BY <2>1, <2>3 DEF SuspensionInv, SuspensionEnds
<1> QED
  BY <1>1, <1>2, <1>3, <1>4, <1>5, <1>6 DEF Environment

\* A volume that is there is not suspended unless its query was heard by a
\* registration on its way out, for any number of files, commands, failures and
\* removals.
THEOREM WatchSuspensionEnds == Spec => []SuspensionEnds
<1>1. Init => SuspensionInv
  BY SuspensionInit
<1>2. SuspensionInv /\ [Next]_vars => SuspensionInv'
  <2> SUFFICES ASSUME SuspensionInv, [Next]_vars PROVE SuspensionInv'
    OBVIOUS
  <2>1. CASE Tick \/ RetryTick \/ UNCHANGED vars
    <3>1. UNCHANGED <<device, suspended, epoch, retired, reg, raced>>
      BY <2>1 DEF Tick, RetryTick, vars, world, pnp
    <3>2. /\ device' = device /\ (suspended' <=> suspended) /\ epoch' = epoch
          /\ retired' = retired /\ reg' = reg /\ (raced' <=> raced)
      BY <3>1, Zenon
    <3> QED
      BY <3>2 DEF SuspensionInv, SuspensionEnds, Listened
  <2> QED
    BY <2>1, LoopKeeps, EnvironmentKeeps DEF Next
<1>3. SuspensionInv => SuspensionEnds
  BY DEF SuspensionInv
<1> QED
  BY <1>1, <1>2, <1>3, PTL DEF Spec

(***************************************************************************)
(* Types, in four parts.  A native watch is opened on a volume that is not *)
(* suspended only, and the suspension closes it.                           *)
(***************************************************************************)
WorldTyped ==
  /\ device \in {"here", "asked", "gone"} /\ dest \in BOOLEAN
  /\ there \subseteq File /\ moved \subseteq File
  /\ unseen \in [File -> {"no", "failed", "unwatched"}]
  /\ removals \in 0..MaxRemovals

PnpTyped ==
  /\ suspended \in BOOLEAN /\ epoch \in Nat
  /\ native \in {"none", "idle", "live", "dead", "closed"}
  /\ reg \in Nat \cup {NONE} /\ dropping \in Nat \cup {NONE}
  /\ retired \subseteq Nat /\ releasing \subseteq Nat /\ raced \in BOOLEAN
  /\ suspended => native \in {"none", "closed"}

Runtimes == [signature : Signatures, ready : BOOLEAN, registered : SUBSET {"source", "dest"}]

LoopTyped ==
  /\ runtime \in Runtimes
  /\ due \in BOOLEAN /\ retry \in BOOLEAN
  /\ on \in BOOLEAN /\ paused \in BOOLEAN
  /\ reported \in Statuses \cup {NONE}
  /\ pc \in {"check", "configure", "report", "scan", "events", "overflow", "command", "files"}
  /\ seen \in Signatures
  /\ faults \in 0..MaxFaults /\ commands \in 0..MaxCommands

Tables == [File -> {"no", "new", "ripe"}]

QueueTyped ==
  /\ queue \in Seq(File \cup {"error"}) /\ Len(queue) <= Capacity
  /\ overflowed \in BOOLEAN /\ deaf \in BOOLEAN
  /\ pending \in Tables

TypesKept == WorldTyped /\ PnpTyped /\ LoopTyped /\ QueueTyped

LEMMA TypesOK == TypesKept <=> TypeOK
  BY DEF TypesKept, WorldTyped, PnpTyped, LoopTyped, QueueTyped, Runtimes, Tables, TypeOK

LEMMA NoRuntimeTyped == NONE \in Signatures /\ NoRuntime \in Runtimes
<1>1. NONE \in Signatures
  BY Zenon DEF Signatures
<1> QED
  BY <1>1 DEF NoRuntime, Runtimes

LEMMA TypesInit == Init => TypesKept
<1> SUFFICES ASSUME Init PROVE TypesKept
  OBVIOUS
<1>1. WorldTyped
  BY WatchAssumption DEF Init, WorldTyped
<1>2. PnpTyped
  BY DEF Init, PnpTyped
<1>3. LoopTyped
  <2>1. /\ runtime = NoRuntime /\ seen = NONE /\ reported = NONE /\ due = TRUE /\ retry = TRUE
        /\ on \in BOOLEAN /\ paused = FALSE /\ pc = "check" /\ faults = 0 /\ commands = 0
    BY Zenon DEF Init
  <2>2. 0 \in 0..MaxFaults /\ 0 \in 0..MaxCommands
    BY WatchAssumption
  <2> QED
    BY <2>1, <2>2, NoRuntimeTyped DEF LoopTyped
<1>4. QueueTyped
  <2>1. pending \in Tables
    BY DEF Init, Tables
  <2>2. queue = << >>
    BY DEF Init
  <2>3. queue \in Seq(File \cup {"error"}) /\ Len(queue) <= Capacity
    BY <2>2, WatchAssumption
  <2> QED
    BY <2>1, <2>3 DEF Init, QueueTyped
<1> QED
  BY <1>1, <1>2, <1>3, <1>4 DEF TypesKept

LEMMA NoticedTyped ==
  ASSUME NEW table \in Tables, NEW S, NEW enabled, NEW stopped
  PROVE  Noticed(table, S, enabled, stopped) \in Tables
  BY DEF Noticed, Tables

LEMMA DropWatcherTyped ==
  ASSUME PnpTyped, DropWatcher
  PROVE  dropping' \in Nat \cup {NONE} /\ retired' \subseteq Nat
  BY DEF PnpTyped, DropWatcher

LEMMA WorldStep == ASSUME WorldTyped, [Next]_vars PROVE WorldTyped'
<1>1. CASE UNCHANGED <<device, dest, there, moved, unseen, removals>>
  BY <1>1 DEF WorldTyped
<1>2. CASE CreateFolder
  BY <1>2 DEF CreateFolder, Commanded, WorldTyped
<1>3. CASE SetRules \/ PauseRule \/ ResumeRule
  BY <1>3 DEF SetRules, PauseRule, ResumeRule, Commanded, WorldTyped
<1>4. CASE StableFiles
  BY <1>4 DEF StableFiles, WorldTyped
<1>5. ASSUME NEW f \in File, Arrive(f) PROVE WorldTyped'
  BY <1>5 DEF Arrive, WorldTyped
<1>6. CASE QueryRemove \/ RemoveFailed \/ RemoveComplete \/ Returns \/ ReleaseRetired \/ Released
  <2>1. UNCHANGED <<dest, there, moved, unseen>>
    BY <1>6 DEF QueryRemove, RemoveFailed, RemoveComplete, Returns, ReleaseRetired, Released, Outside
  <2>2. device' \in {"here", "asked", "gone"} /\ removals' \in 0..MaxRemovals
    BY <1>6, WatchAssumption
       DEF QueryRemove, RemoveFailed, RemoveComplete, Returns, ReleaseRetired, Released, WorldTyped
  <2> QED
    BY <2>1, <2>2 DEF WorldTyped
<1>7. CASE DestinationChanges
  BY <1>7, WatchAssumption DEF DestinationChanges, WorldTyped
<1> QED
  BY <1>1, <1>2, <1>3, <1>4, <1>5, <1>6, <1>7
     DEF Next, Loop, Environment, vars, world, Check, Configure, Unregister, Report, ScanRecovered,
         Events, Overflow, NoCommand, Tick, RetryTick, WatchError

LEMMA NativeTyped ==
  ASSUME PnpTyped, UNCHANGED <<epoch, reg, retired, dropping, releasing>>,
         suspended' \in BOOLEAN, raced' \in BOOLEAN,
         native' = native \/ native' = Closed,
         suspended' => (native' = Closed \/ (native' = native /\ suspended))
  PROVE  PnpTyped'
<1>1. Closed \in {"none", "closed"}
  BY DEF Closed
<1>2. suspended' => native' \in {"none", "closed"}
  BY <1>1, Zenon DEF PnpTyped
<1>3. native' \in {"none", "idle", "live", "dead", "closed"}
  BY <1>1 DEF PnpTyped
<1>4. /\ epoch' \in Nat /\ reg' \in Nat \cup {NONE} /\ dropping' \in Nat \cup {NONE}
      /\ retired' \subseteq Nat /\ releasing' \subseteq Nat
  BY DEF PnpTyped
<1> QED
  BY <1>2, <1>3, <1>4, Zenon DEF PnpTyped

LEMMA PnpStep == ASSUME PnpTyped, [Next]_vars PROVE PnpTyped'
<1>1. CASE UNCHANGED pnp
  BY <1>1 DEF PnpTyped, pnp
<1>2. CASE Configure
  <2>1. /\ dropping' \in Nat \cup {NONE} /\ retired' \subseteq Nat
        /\ UNCHANGED <<suspended, epoch, releasing, raced>>
    BY <1>2, DropWatcherTyped DEF Configure
  <2>2. /\ native' \in {"none", "idle", "live"} /\ reg' \in {epoch, NONE}
        /\ suspended => native' = "none"
    BY <1>2, Zenon DEF Configure, SourceAvailable
  <2> QED
    BY <2>1, <2>2 DEF PnpTyped
<1>3. CASE Unregister
  BY <1>3 DEF Unregister, PnpTyped
<1>4. CASE SetRules \/ CreateFolder
  <2>1. DropWatcher /\ native' = "none" /\ reg' = NONE /\ UNCHANGED <<suspended, epoch, releasing, raced>>
    BY <1>4 DEF SetRules, CreateFolder, ResetWatcher
  <2>2. dropping' \in Nat \cup {NONE} /\ retired' \subseteq Nat
    BY <2>1, DropWatcherTyped
  <2> QED
    BY <2>1, <2>2 DEF PnpTyped
<1>5. CASE WatchError
  BY <1>5 DEF WatchError, PnpTyped
<1>6. CASE QueryRemove
  <2>1. UNCHANGED <<epoch, reg, retired, dropping, releasing>>
    BY <1>6 DEF QueryRemove, registrations
  <2>2. /\ suspended' \in BOOLEAN /\ raced' \in BOOLEAN
        /\ native' = native \/ native' = Closed
        /\ suspended' => (native' = Closed \/ (native' = native /\ suspended))
    <3>1. CASE suspended' = TRUE /\ native' = Closed /\ raced' = (epoch \in releasing \cup {dropping})
      <4>1. raced' = (epoch \in releasing \cup {dropping})
        BY <3>1, Zenon
      <4>2. (epoch \in releasing \cup {dropping}) \in BOOLEAN
        BY SMT
      <4>3. raced' \in BOOLEAN
        BY <4>1, <4>2, Zenon
      <4> QED
        BY <3>1, <4>3, Zenon
    <3>2. CASE UNCHANGED <<suspended, native, raced>>
      BY <3>2, Zenon DEF PnpTyped
    <3>3. CASE native' \in {native, Closed} /\ suspended' = FALSE /\ raced' = FALSE
      BY <3>3, Zenon
    <3> QED
      BY <1>6, <3>1, <3>2, <3>3, Zenon DEF QueryRemove
  <2> QED
    BY <2>1, <2>2, NativeTyped
<1>7. CASE RemoveFailed
  <2>1. UNCHANGED <<epoch, reg, retired, dropping, releasing, native>>
    BY <1>7 DEF RemoveFailed, registrations
  <2>2. suspended' \in BOOLEAN /\ raced' \in BOOLEAN /\ (suspended' => suspended)
    BY <1>7, Zenon DEF RemoveFailed, PnpTyped
  <2> QED
    BY <2>1, <2>2 DEF PnpTyped
<1>8. CASE RemoveComplete
  <2>1. UNCHANGED <<epoch, reg, retired, dropping, releasing, raced>>
    BY <1>8 DEF RemoveComplete, registrations
  <2>2. \/ suspended' = TRUE /\ native' = Closed
        \/ UNCHANGED <<suspended, native>>
    BY <1>8, Zenon DEF RemoveComplete
  <2>3. /\ suspended' \in BOOLEAN /\ raced' \in BOOLEAN
        /\ native' = native \/ native' = Closed
        /\ suspended' => (native' = Closed \/ (native' = native /\ suspended))
    <3>1. raced' \in BOOLEAN
      BY <2>1, Zenon DEF PnpTyped
    <3>2. CASE suspended' = TRUE /\ native' = Closed
      BY <3>1, <3>2
    <3>3. CASE UNCHANGED <<suspended, native>>
      BY <3>1, <3>3, Zenon DEF PnpTyped
    <3> QED
      BY <2>2, <3>2, <3>3, Zenon
  <2> QED
    BY <2>1, <2>3, NativeTyped
<1>9. CASE Returns
  <2>1. UNCHANGED <<native, reg, retired, dropping, releasing>>
        /\ suspended' = FALSE /\ raced' = FALSE
    BY <1>9, Zenon DEF Returns
  <2>2. epoch' \in Nat
    <3>1. epoch' = epoch + 1 \/ epoch' = epoch
      BY <1>9, Zenon DEF Returns
    <3> QED
      BY <3>1 DEF PnpTyped
  <2> QED
    BY <2>1, <2>2, Zenon DEF PnpTyped
<1>10. CASE ReleaseRetired \/ Released
  <2>1. UNCHANGED <<suspended, epoch, native, reg, dropping, raced>>
    BY <1>10, Zenon DEF ReleaseRetired, Released
  <2>2. retired' \subseteq Nat /\ releasing' \subseteq Nat
    BY <1>10 DEF ReleaseRetired, Released, PnpTyped
  <2> QED
    BY <2>1, <2>2, Zenon DEF PnpTyped
<1> QED
  BY <1>1, <1>2, <1>3, <1>4, <1>5, <1>6, <1>7, <1>8, <1>9, <1>10
     DEF Next, Loop, Environment, vars, Check, Report, ScanRecovered, Events, Overflow, NoCommand,
         PauseRule, ResumeRule, StableFiles, Tick, RetryTick, Arrive, DestinationChanges

LEMMA SignatureTyped == ASSUME WorldTyped, PnpTyped PROVE Signature \in Signatures
<1>1. SourceAvailable \in BOOLEAN /\ dest \in BOOLEAN
  BY DEF WorldTyped, PnpTyped, SourceAvailable
<1> QED
  BY <1>1 DEF Signature, Signatures

LEMMA StatusTyped == Status \in Statuses
  BY DEF Status, Statuses, Recoverable

LEMMA LoopStep == ASSUME WorldTyped, PnpTyped, LoopTyped, [Next]_vars PROVE LoopTyped'
<1> DEFINE loopParts == <<runtime, due, retry, rule, reported, pc, seen, faults, commands>>
<1>1. CASE UNCHANGED loopParts
  BY <1>1 DEF LoopTyped, rule
<1>2. CASE Check
  BY <1>2, SignatureTyped DEF Check, LoopTyped, rule
<1>3. CASE Configure
  <2>1. PICK registered \in SUBSET {"source", "dest"} :
          /\ runtime' = [signature |-> seen,
                         ready |-> registered = (IF on THEN {"source", "dest"} ELSE {}),
                         registered |-> registered]
          /\ retry' = (registered = (IF on THEN {"source", "dest"} ELSE {}) /\ retry)
    BY <1>3, Zenon DEF Configure
  <2>2. runtime' \in Runtimes
    BY <2>1 DEF Runtimes, LoopTyped
  <2>3. retry' \in BOOLEAN
    BY <2>1, Zenon DEF LoopTyped
  <2>4. faults' \in 0..MaxFaults
    <3>1. faults' = faults \/ (faults < MaxFaults /\ faults' = faults + 1)
      BY <1>3, Zenon DEF Configure
    <3> QED
      BY <3>1, WatchAssumption DEF LoopTyped
  <2>5. pc' = "report" /\ seen' = NONE /\ UNCHANGED <<due, on, paused, reported, commands>>
    BY <1>3 DEF Configure, rule
  <2> QED
    BY <2>2, <2>3, <2>4, <2>5, NoRuntimeTyped DEF LoopTyped
<1>4. CASE Report
  BY <1>4, StatusTyped DEF Report, LoopTyped, rule
<1>5. CASE ScanRecovered \/ Overflow \/ NoCommand \/ StableFiles
  BY <1>5 DEF ScanRecovered, Overflow, NoCommand, StableFiles, LoopTyped, rule
<1>6. CASE Events
  <2>1. UNCHANGED <<due, on, paused, reported, seen, faults, commands>> /\ pc' = "overflow"
    BY <1>6 DEF Events, rule
  <2>2. ErrorSeen \/ UNCHANGED <<runtime, retry>>
    BY <1>6, Zenon DEF Events
  <2>3. runtime' \in Runtimes /\ retry' \in BOOLEAN
    BY <2>2 DEF ErrorSeen, LoopTyped, Runtimes
  <2> QED
    BY <2>1, <2>3 DEF LoopTyped
<1>7. CASE SetRules \/ PauseRule \/ ResumeRule \/ CreateFolder
  <2>1. Commanded
    BY <1>7 DEF SetRules, PauseRule, ResumeRule, CreateFolder
  <2>2. /\ commands' \in 0..MaxCommands /\ pc' = "files"
        /\ UNCHANGED <<due, reported, seen, faults>>
    BY <2>1, WatchAssumption DEF Commanded, LoopTyped
  <2>3. (runtime' = NoRuntime /\ retry' = TRUE) \/ UNCHANGED <<runtime, retry>>
    BY <1>7, Zenon DEF SetRules, PauseRule, ResumeRule, CreateFolder, ResetWatcher
  <2>4. on' \in BOOLEAN /\ paused' \in BOOLEAN
    BY <1>7, Zenon DEF SetRules, PauseRule, ResumeRule, CreateFolder, LoopTyped, rule
  <2> QED
    BY <2>2, <2>3, <2>4, NoRuntimeTyped DEF LoopTyped
<1>8. CASE Tick \/ RetryTick
  BY <1>8 DEF Tick, RetryTick, LoopTyped, rule
<1>9. CASE WatchError
  BY <1>9, WatchAssumption DEF WatchError, LoopTyped, rule
<1> QED
  BY <1>1, <1>2, <1>3, <1>4, <1>5, <1>6, <1>7, <1>8, <1>9, Zenon
     DEF Next, Loop, Environment, vars, Unregister, Arrive, QueryRemove, RemoveFailed,
         RemoveComplete, Returns, ReleaseRetired, Released, DestinationChanges, Outside

LEMMA SendTyped ==
  ASSUME QueueTyped, NEW event \in File \cup {"error"}, Send(event), UNCHANGED pending
  PROVE  QueueTyped'
<1>1. CASE HasRoom
  <2>1. queue' = Append(queue, event) /\ UNCHANGED <<overflowed, deaf, pending>>
    BY <1>1 DEF Send
  <2>2. queue' \in Seq(File \cup {"error"}) /\ Len(queue') <= Capacity
    BY <1>1, <2>1, WatchAssumption DEF QueueTyped, HasRoom
  <2> QED
    BY <2>1, <2>2 DEF QueueTyped
<1>2. CASE ~HasRoom
  <2>1. UNCHANGED <<queue, pending>> /\ overflowed' = TRUE /\ deaf' = (deaf \/ event = "error")
    BY <1>2 DEF Send
  <2>2. deaf' \in BOOLEAN
    BY <2>1, Zenon
  <2> QED
    BY <2>1, <2>2 DEF QueueTyped
<1> QED
  BY <1>1, <1>2

LEMMA QueueStep == ASSUME QueueTyped, [Next]_vars PROVE QueueTyped'
<1>1. CASE UNCHANGED <<channel, pending>>
  BY <1>1 DEF QueueTyped, channel
<1>2. CASE ScanRecovered
  <2>1. pending' = Noticed(pending, File, on, paused) /\ UNCHANGED channel
    BY <1>2 DEF ScanRecovered
  <2> QED
    BY <2>1, NoticedTyped DEF QueueTyped, channel
<1>3. CASE Events
  <2>1. PICK k : /\ k = (IF Len(queue) < PerTick THEN Len(queue) ELSE PerTick)
                 /\ queue' = SubSeq(queue, k + 1, Len(queue))
                 /\ pending' = Noticed(pending, {queue[n] : n \in 1..k}, on, paused)
    BY <1>3, Zenon DEF Events
  <2>2. k \in 0..Len(queue) /\ Len(queue) \in Nat /\ Capacity \in Nat
    BY <2>1, WatchAssumption DEF QueueTyped
  <2>3. queue' \in Seq(File \cup {"error"}) /\ Len(queue') <= Capacity
    BY <2>1, <2>2 DEF QueueTyped
  <2>4. pending' \in Tables
    BY <2>1, NoticedTyped DEF QueueTyped
  <2>5. UNCHANGED <<overflowed, deaf>>
    BY <1>3 DEF Events
  <2> QED
    BY <2>3, <2>4, <2>5 DEF QueueTyped
<1>4. CASE Overflow
  <2>1. /\ overflowed' = FALSE /\ UNCHANGED <<queue, deaf>>
        /\ pending' = Noticed(pending, File, on, paused) \/ pending' = pending
    BY <1>4, Zenon DEF Overflow
  <2> QED
    BY <2>1, NoticedTyped DEF QueueTyped
<1>5. CASE SetRules \/ PauseRule \/ ResumeRule \/ CreateFolder
  <2>1. UNCHANGED channel
    BY <1>5 DEF SetRules, PauseRule, ResumeRule, CreateFolder, Commanded
  <2>2. pending' \in Tables
    <3>1. [f \in File |-> "no"] \in Tables /\ pending \in Tables
      BY DEF QueueTyped, Tables
    <3>2. CASE SetRules
      <4>1. PICK enabled \in BOOLEAN, changed \in BOOLEAN :
              pending' = IF changed THEN Noticed([f \in File |-> "no"], File, enabled, paused')
                         ELSE pending
        BY <3>2, Zenon DEF SetRules
      <4> QED
        BY <3>1, <4>1, NoticedTyped
    <3>3. CASE PauseRule
      BY <3>1, <3>3 DEF PauseRule
    <3>4. CASE ResumeRule
      BY <3>1, <3>4, NoticedTyped DEF ResumeRule
    <3>5. CASE CreateFolder
      BY <3>1, <3>5, NoticedTyped DEF CreateFolder
    <3> QED
      BY <1>5, <3>2, <3>3, <3>4, <3>5
  <2> QED
    BY <2>1, <2>2 DEF QueueTyped, channel
<1>6. CASE StableFiles
  BY <1>6 DEF StableFiles, QueueTyped, channel, Tables
<1>7. CASE Tick
  BY <1>7 DEF Tick, QueueTyped, channel, Tables
<1>8. ASSUME NEW f \in File, Arrive(f) PROVE QueueTyped'
  <2>1. UNCHANGED pending /\ (Send(f) \/ UNCHANGED channel)
    BY <1>8, Zenon DEF Arrive
  <2> QED
    BY <2>1, <1>1, SendTyped
<1>9. CASE WatchError
  BY <1>9, SendTyped DEF WatchError
<1> QED
  BY <1>1, <1>2, <1>3, <1>4, <1>5, <1>6, <1>7, <1>8, <1>9, Zenon
     DEF Next, Loop, Environment, vars, Check, Configure, Unregister, Report, NoCommand, RetryTick,
         QueryRemove, RemoveFailed, RemoveComplete, Returns, ReleaseRetired, Released,
         DestinationChanges, Outside

\* Every variable has its type, the queue of watch events is never longer than
\* the channel, and no native watch is counted on while the volume is suspended
\* (watcher.rs, configure_watcher; retired.rs).
THEOREM WatchTypeOK == Spec => []TypeOK
<1>1. Init => TypesKept
  BY TypesInit
<1>2. TypesKept /\ [Next]_vars => TypesKept'
  BY WorldStep, PnpStep, LoopStep, QueueStep DEF TypesKept
<1> QED
  BY <1>1, <1>2, TypesOK, PTL DEF Spec
=============================================================================
