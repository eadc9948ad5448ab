------------------------- MODULE OrganizerConflicts -------------------------
(***************************************************************************)
(* The conflicts of a rule with the policy "ask".  A file of the source    *)
(* folder is to be moved to the destination under its own name; while that *)
(* name is taken, a row in the database asks the user, who has one of the  *)
(* two files renamed or cancels.  The organizer thread and the worker of   *)
(* every running process register conflicts in one database, a thread      *)
(* resolves them under a claim, and a process that starts settles the      *)
(* claims of processes that are gone.                                      *)
(*                                                                         *)
(* A file is known by its snapshot, which every write changes.  A process  *)
(* runs once: one that is started again is another process.  Of the four   *)
(* workers of a process one is modelled: the claims on names keep their    *)
(* paths apart.                                                            *)
(***************************************************************************)
EXTENDS Naturals, FiniteSets

CONSTANTS
  Proc,
  Name,          \* file names
  Matched,       \* those the rule matches
  Initial,       \* places of the files that are there at first
  MaxConflicts,  \* bound: rows of organizer_conflicts
  MaxCommands,   \* bound: commands about conflicts
  MaxMishaps,    \* bound: what the user does to files, and failing calls
  NONE

Folder == {"source", "home"}
Place == Folder \X Name
Snap == Folder \X Name \X Nat
Conflict == 1..MaxConflicts

ASSUME ConflictAssumption ==
  /\ IsFiniteSet(Proc) /\ IsFiniteSet(Name) /\ Matched \subseteq Name /\ Initial \subseteq Place
  /\ MaxConflicts \in Nat /\ MaxCommands \in Nat /\ MaxMishaps \in Nat
  /\ NONE \notin Name /\ NONE \notin Snap /\ NONE \notin Conflict
  /\ NONE \notin [owner : Proc, at : Place, to : Name, snap : Snap]
  /\ NONE \notin [at : Place, snap : Snap, still : BOOLEAN, ours : BOOLEAN]

VARIABLES
  disk,       \* [Place -> the file there, or NONE]
  conflicts,  \* organizer_conflicts
  claims,     \* organizer_conflict_resolutions, by conflict
  phase,      \* [Proc -> "new", "start" (OrganizerState::new), "run" or "dead"]
  events,     \* [Proc -> places the watcher has reported]
  pending,    \* [Proc -> [Name -> the file that waits to be stable, or NONE]]
  thread,     \* [Proc -> what the organizer thread, or the start, is at]
  listed,     \* [Proc -> the claims a start has read and not settled]
  moves,      \* [Proc -> [Name -> the operation in flight for the file]]
  open,       \* [Proc -> moves that are done and whose rows are not closed]
  used,       \* how often each bound has been used up
  placed      \* ghost: [Conflict -> where its file went while it was claimed, or was
              \* seen by a start that had read the claim]

tables == <<conflicts, claims>>
worker == <<moves, open>>
vars == <<disk, tables, phase, events, pending, thread, listed, worker, used, placed>>

NoRow == [status |-> "none", name |-> NONE, snap |-> NONE, home |-> NONE]
Idle == [pc |-> "idle", name |-> NONE, snap |-> NONE, home |-> NONE,
         con |-> NONE, claim |-> NONE, verdict |-> "none"]
NoMove == [pc |-> "none", snap |-> NONE, home |-> NONE]
NoFiles == [n \in Name |-> NONE]
NoClaims == [c \in Conflict |-> NONE]

Init ==
  /\ disk = [x \in Place |-> IF x \in Initial THEN <<x[1], x[2], 0>> ELSE NONE]
  /\ conflicts = [c \in Conflict |-> NoRow] /\ claims = NoClaims
  /\ phase = [p \in Proc |-> "new"]
  /\ events = [p \in Proc |-> {}] /\ pending = [p \in Proc |-> NoFiles]
  /\ thread = [p \in Proc |-> Idle] /\ listed = [p \in Proc |-> NoClaims]
  /\ moves = [p \in Proc |-> [n \in Name |-> NoMove]]
  /\ open = [p \in Proc |-> {}]
  /\ used = [commands |-> 0, mishaps |-> 0]
  /\ placed = NoClaims

Mishap == used.mishaps < MaxMishaps /\ used' = [used EXCEPT !.mishaps = @ + 1]

\* A database call or a file operation fails.
Fault == Mishap

----------------------------------------------------------------------------
(* Files and what the watchers report of them.                             *)

Source(n) == disk[<<"source", n>>]
Home(n) == disk[<<"home", n>>]
Target(k) == <<k.at[1], k.to>>

\* Where the file of a claimed conflict went, given the disk and the claims, and
\* whether its resolution has put it there (and no other claim was settled instead).
Track(d, k, by) == [c \in Conflict |->
  IF placed[c] # NONE /\ placed[c].still /\ d[placed[c].at] = placed[c].snap
    THEN placed[c]
  ELSE IF k[c] # NONE /\ d[Target(k[c])] = k[c].snap
    THEN [at |-> Target(k[c]), snap |-> k[c].snap, still |-> TRUE, ours |-> c = by]
  ELSE IF placed[c] = NONE THEN NONE
  ELSE [placed[c] EXCEPT !.still = FALSE]]

\* The disk changes, by a resolution or otherwise, and every running organizer
\* hears of it.
DiskBecomes(d, by) ==
  /\ disk' = d
  /\ events' = [p \in Proc |-> events[p] \cup
       IF phase[p] = "run" THEN {x \in Folder \X Matched : d[x] # disk[x]} ELSE {}]
  /\ placed' = Track(d, claims, by)

\* The user writes, deletes or moves a file.
UserWrite(x) ==
  /\ Mishap
  /\ DiskBecomes([disk EXCEPT ![x] = <<x[1], x[2], used.mishaps + 1>>], NONE)
  /\ UNCHANGED <<tables, phase, pending, thread, listed, worker>>

UserDelete(x) ==
  /\ Mishap
  /\ disk[x] # NONE
  /\ DiskBecomes([disk EXCEPT ![x] = NONE], NONE)
  /\ UNCHANGED <<tables, phase, pending, thread, listed, worker>>

UserMove(x, y) ==
  /\ Mishap
  /\ disk[x] # NONE /\ disk[y] = NONE
  /\ DiskBecomes([disk EXCEPT ![x] = NONE, ![y] = disk[x]], NONE)
  /\ UNCHANGED <<tables, phase, pending, thread, listed, worker>>

----------------------------------------------------------------------------
(* The tables.                                                             *)

Pending(n) == {c \in Conflict : conflicts[c].status = "pending" /\ conflicts[c].name = n}

\* obsolete_previous_path_conflicts
WithoutPending(n) ==
  [c \in Conflict |-> IF c \in Pending(n) THEN [conflicts[c] EXCEPT !.status = "obsolete"]
                      ELSE conflicts[c]]

\* matching_conflict
Matching(n, snap, home, st) ==
  {c \in Conflict : conflicts[c] = [status |-> st, name |-> n, snap |-> snap, home |-> home]}

\* Ids are handed out in order.
FreeId(c) == \A q \in Conflict : conflicts[q].status = "none" <=> q >= c

\* Mutant: other open rows of the file stay open.
RegisterBeside(n, snap, home) ==
  IF Matching(n, snap, home, "cancelled") # {} THEN UNCHANGED conflicts
  ELSE IF Matching(n, snap, home, "pending") # {} THEN UNCHANGED conflicts
  ELSE \E c \in Conflict :
         /\ FreeId(c)
         /\ conflicts' = [conflicts EXCEPT ![c] =
              [status |-> "pending", name |-> n, snap |-> snap, home |-> home]]

\* record_terminal_organizer_conflict and create_organizer_conflict
Register(n, snap, home) ==
  IF Matching(n, snap, home, "cancelled") # {} THEN conflicts' = WithoutPending(n)
  ELSE IF Matching(n, snap, home, "pending") # {} THEN UNCHANGED conflicts
  ELSE \E c \in Conflict :
         /\ FreeId(c)
         /\ conflicts' = [WithoutPending(n) EXCEPT ![c] =
              [status |-> "pending", name |-> n, snap |-> snap, home |-> home]]

\* Mutant: a claimed conflict can be cancelled.
CloseClaimed(c, st) ==
  IF conflicts[c].status = "pending"
    THEN /\ conflicts' = [conflicts EXCEPT ![c].status = st]
         /\ claims' = [claims EXCEPT ![c] = NONE]
    ELSE UNCHANGED tables

\* finish_organizer_conflict
Close(c, st) ==
  IF conflicts[c].status = "pending" /\ (st = "cancelled" => claims[c] = NONE)
    THEN /\ conflicts' = [conflicts EXCEPT ![c].status = st]
         /\ claims' = [claims EXCEPT ![c] = NONE]
    ELSE UNCHANGED tables

----------------------------------------------------------------------------
(* The organizer thread: files.                                            *)

Free(p) == phase[p] = "run" /\ thread[p] = Idle

\* queue_matching_path
Queued(p, N) == [pending EXCEPT ![p] =
  [n \in Name |-> IF n \in N \cap Matched /\ Source(n) # NONE THEN Source(n) ELSE @[n]]]

InFlight(p, n) == moves[p][n].pc # "none"

\* process_watcher_event
TakeEvent(p, x) ==
  /\ Free(p) /\ x \in events[p]
  /\ events' = [events EXCEPT ![p] = @ \ {x}]
  /\ pending' = Queued(p, IF x[1] = "source" \/ disk[x] = NONE THEN {x[2]} ELSE {})
  /\ UNCHANGED <<disk, tables, phase, thread, listed, worker, used, placed>>

\* process_stable_files, up to the look at the destination.
TakeStable(p, n) ==
  /\ Free(p) /\ pending[p][n] # NONE
  /\ \/ /\ Source(n) # pending[p][n]
        /\ pending' = [pending EXCEPT ![p][n] = Source(n)]
        /\ UNCHANGED <<thread, moves, used>>
     \/ /\ Source(n) = pending[p][n] /\ ~InFlight(p, n)
        /\ Home(n) # NONE
        /\ thread' = [thread EXCEPT ![p] = [Idle EXCEPT !.pc = "occupied", !.name = n,
                                                        !.snap = Source(n)]]
        /\ pending' = [pending EXCEPT ![p][n] = NONE]
        /\ UNCHANGED <<moves, used>>
     \/ /\ Source(n) = pending[p][n] /\ ~InFlight(p, n)
        /\ Home(n) = NONE
        /\ moves' = [moves EXCEPT ![p][n] = [NoMove EXCEPT !.pc = "queued", !.snap = Source(n)]]
        /\ pending' = [pending EXCEPT ![p][n] = NONE]
        /\ UNCHANGED <<thread, used>>
  /\ UNCHANGED <<disk, tables, phase, events, listed, open, placed>>

At(p, pc) == phase[p] = "run" /\ thread[p].pc = pc
Goto(p, pc) == thread' = [thread EXCEPT ![p].pc = pc]
Done(p) == thread' = [thread EXCEPT ![p] = Idle]

SeeDestination(p) ==
  /\ At(p, "occupied")
  /\ thread' = [thread EXCEPT ![p].pc = "register", ![p].home = Home(thread[p].name)]
  /\ UNCHANGED <<disk, tables, phase, events, pending, listed, worker, used, placed>>

Ask(p) ==
  LET t == thread[p]
  IN /\ At(p, "register")
     /\ \/ Register(t.name, t.snap, t.home) /\ UNCHANGED <<pending, used>>
        \/ /\ Fault
           /\ pending' = [pending EXCEPT ![p][t.name] = t.snap]
           /\ UNCHANGED conflicts
     /\ Done(p)
     /\ UNCHANGED <<disk, claims, phase, events, listed, worker, placed>>

----------------------------------------------------------------------------
(* The organizer thread: commands about a conflict.                        *)

Command(p) == Free(p) /\ used.commands < MaxCommands /\ used' = [used EXCEPT !.commands = @ + 1]

Con(p) == thread[p].con
Claim(p) == thread[p].claim
Other(f) == IF f = "source" THEN "home" ELSE "source"

\* resolve_conflict, rename_conflict_source and rename_conflict_destination up
\* to the claim
Resolve(p, c, f, t) ==
  LET row == conflicts[c]
  IN /\ Command(p)
     /\ row.status = "pending"
     /\ t # row.name /\ disk[<<f, t>>] = NONE
     /\ thread' = [thread EXCEPT ![p] =
          [Idle EXCEPT !.pc = "claim", !.name = row.name, !.snap = row.snap, !.home = row.home,
             !.con = c,
             !.claim = [owner |-> p, at |-> <<f, row.name>>, to |-> t,
                        snap |-> IF f = "source" THEN row.snap ELSE row.home]]]
     /\ UNCHANGED <<disk, tables, phase, events, pending, listed, worker, placed>>

\* Mutant: a claim is not refused because there is one.
TakeClaimOver(p) ==
  /\ At(p, "claim")
  /\ IF /\ conflicts[Con(p)].status = "pending"
        /\ Claim(p).snap # NONE
       THEN /\ claims' = [claims EXCEPT ![Con(p)] = Claim(p)]
            /\ Goto(p, "check")
       ELSE Done(p) /\ UNCHANGED claims
  /\ placed' = Track(disk, claims', NONE)
  /\ UNCHANGED <<disk, conflicts, phase, events, pending, listed, worker, used>>

\* claim_organizer_conflict_resolution
TakeClaim(p) ==
  /\ At(p, "claim")
  /\ \/ /\ IF /\ conflicts[Con(p)].status = "pending"
              /\ Claim(p).snap # NONE /\ claims[Con(p)] = NONE
             THEN /\ claims' = [claims EXCEPT ![Con(p)] = Claim(p)]
                  /\ Goto(p, "check")
             ELSE Done(p) /\ UNCHANGED claims
        /\ UNCHANGED used
     \/ Fault /\ Done(p) /\ UNCHANGED claims
  /\ placed' = Track(disk, claims', NONE)
  /\ UNCHANGED <<disk, conflicts, phase, events, pending, listed, worker>>

\* current_conflict_state
Check(p) ==
  LET t == thread[p]
      same == Source(t.name) = t.snap /\ Home(t.name) # NONE
  IN /\ At(p, "check")
     /\ \/ same /\ t.home = NONE /\ Goto(p, "release")
        \/ same /\ t.home = Home(t.name) /\ Goto(p, "guard")
        \/ /\ ~same \/ t.home \notin {NONE, Home(t.name)}
           /\ thread' = [thread EXCEPT ![p].pc = "obsolete", ![p].verdict = "release"]
     /\ UNCHANGED <<disk, tables, phase, events, pending, listed, worker, used, placed>>

\* move_organizer_file_without_replace_guarded_by: the file that stays is looked
\* at.  Its handle asks for attributes only, so it keeps nobody out.
Guard(p) ==
  LET t == thread[p]
      stays == disk[<<Other(t.claim.at[1]), t.name>>]
      shown == IF t.claim.at[1] = "source" THEN t.home ELSE t.snap
  IN /\ At(p, "guard")
     /\ Goto(p, IF stays = shown THEN "rename" ELSE IF stays = NONE THEN "look" ELSE "obsolete")
     /\ UNCHANGED <<disk, tables, phase, events, pending, listed, worker, used, placed>>

\* The rest of it: the file that is renamed is opened, compared and renamed.
Rename(p) ==
  LET k == Claim(p)
      x == k.at
  IN /\ At(p, "rename")
     /\ \/ /\ disk[x] \notin {NONE, k.snap}
           /\ Goto(p, "obsolete")
           /\ UNCHANGED <<disk, events, placed, used>>
        \/ /\ disk[x] = k.snap /\ disk[Target(k)] # NONE
           /\ Goto(p, "release")
           /\ UNCHANGED <<disk, events, placed, used>>
        \/ /\ disk[x] = k.snap /\ disk[Target(k)] = NONE
           /\ DiskBecomes([disk EXCEPT ![x] = NONE, ![Target(k)] = k.snap], Con(p))
           /\ Goto(p, "finish")
           /\ UNCHANGED used
        \/ /\ (disk[x] = NONE /\ UNCHANGED used) \/ Fault
           /\ Goto(p, "look")
           /\ UNCHANGED <<disk, events, placed>>
     /\ UNCHANGED <<tables, phase, pending, listed, worker>>

\* What is queued after a resolution.
Freed(p) == {IF Claim(p).at[1] = "source" THEN Claim(p).to ELSE thread[p].name}

\* finish_conflict_after_rename, up to its reconciliation
Finish(p) ==
  /\ At(p, "finish")
  /\ \/ /\ conflicts[Con(p)].status = "pending"
        /\ Close(Con(p), "resolved")
        /\ pending' = Queued(p, Freed(p))
        /\ Done(p)
        /\ UNCHANGED used
     \/ /\ conflicts[Con(p)].status # "pending"
        /\ Goto(p, "look")
        /\ UNCHANGED <<tables, pending, used>>
     \/ Fault /\ Goto(p, "look") /\ UNCHANGED <<tables, pending>>
  /\ UNCHANGED <<disk, phase, events, listed, worker, placed>>

\* mark_conflict_obsolete, after which current_conflict_state's caller releases
MarkObsolete(p) ==
  /\ At(p, "obsolete")
  /\ \/ Close(Con(p), "obsolete") /\ UNCHANGED used
     \/ Fault /\ UNCHANGED tables
  /\ IF thread[p].verdict = "release" THEN Goto(p, "release") ELSE Done(p)
  /\ UNCHANGED <<disk, phase, events, pending, listed, worker, placed>>

Unclaimed(c, q) == IF claims[c] # NONE /\ claims[c].owner = q
                   THEN [claims EXCEPT ![c] = NONE] ELSE claims

\* release_organizer_conflict_resolution
Release(p) ==
  /\ At(p, "release")
  /\ \/ claims' = Unclaimed(Con(p), p) /\ UNCHANGED used
     \/ Fault /\ UNCHANGED claims
  /\ Done(p)
  /\ UNCHANGED <<disk, conflicts, phase, events, pending, listed, worker, placed>>

\* cancel_conflict
Cancel(p, c) ==
  /\ Command(p)
  /\ conflicts[c].status = "pending"
  /\ Close(c, "cancelled")
  /\ UNCHANGED <<disk, phase, events, pending, thread, listed, worker, placed>>

----------------------------------------------------------------------------
(* Reconciliation of claims: of the thread's own after an error, and of    *)
(* those that a start has found.                                           *)

\* Mutant: whatever stands at the new name was put there by the resolution.
VerdictByTarget(k) ==
  IF disk[k.at] = NONE /\ disk[Target(k)] # NONE THEN "resolved"
  ELSE IF disk[k.at] = k.snap /\ disk[Target(k)] = NONE THEN "free"
  ELSE "obsolete"

\* The look at the files of reconcile_organizer_conflict_resolution_rows
Verdict(k) ==
  IF disk[k.at] = NONE /\ disk[Target(k)] = k.snap THEN "resolved"
  ELSE IF disk[k.at] = k.snap /\ disk[Target(k)] = NONE THEN "free"
  ELSE "obsolete"

Look(p) ==
  /\ At(p, "look")
  /\ \/ /\ thread' = [thread EXCEPT ![p].pc = "apply", ![p].verdict = Verdict(Claim(p))]
        /\ UNCHANGED used
     \/ Fault /\ Done(p)
  /\ UNCHANGED <<disk, tables, phase, events, pending, listed, worker, placed>>

\* The transaction at its end: nothing happens unless the claim is still there.
Apply(c, q, verdict) ==
  IF claims[c] = NONE \/ claims[c].owner # q THEN UNCHANGED tables
  ELSE /\ claims' = [claims EXCEPT ![c] = NONE]
       /\ conflicts' = IF verdict # "free" /\ conflicts[c].status = "pending"
                         THEN [conflicts EXCEPT ![c].status = verdict] ELSE conflicts

ApplyOwn(p) ==
  /\ At(p, "apply")
  /\ \/ /\ Apply(Con(p), p, thread[p].verdict)
        /\ pending' = IF conflicts'[Con(p)].status = "resolved" THEN Queued(p, Freed(p))
                      ELSE pending
        /\ UNCHANGED used
     \/ Fault /\ UNCHANGED <<tables, pending>>
  /\ Done(p)
  /\ UNCHANGED <<disk, phase, events, listed, worker, placed>>

\* OrganizerState::new
Start(p) ==
  /\ phase[p] = "new"
  /\ phase' = [phase EXCEPT ![p] = "start"]
  /\ \/ listed' = [listed EXCEPT ![p] = claims] /\ UNCHANGED used
     \/ Fault /\ UNCHANGED listed
  /\ UNCHANGED <<disk, tables, events, pending, thread, worker, placed>>

\* One row of the list: process_owner_is_active, the look and the transaction.
LookAtRow(p, c) ==
  LET k == listed[p][c]
  IN /\ phase[p] = "start" /\ thread[p] = Idle
     /\ k # NONE
     /\ listed' = [listed EXCEPT ![p][c] = NONE]
     /\ IF phase[k.owner] # "dead" THEN UNCHANGED <<thread, placed>>
        ELSE /\ thread' = [thread EXCEPT ![p] =
                  [Idle EXCEPT !.pc = "apply", !.con = c, !.claim = k, !.verdict = Verdict(k)]]
             /\ placed' = Track(disk, [claims EXCEPT ![c] = k], NONE)
     /\ UNCHANGED <<disk, tables, phase, events, pending, worker, used>>

\* The claim that was read has given way to another one of the same process.
Replaced(p) == LET k == claims[Con(p)]
               IN k \notin {NONE, Claim(p)} /\ k.owner = Claim(p).owner

\* The transaction asks for a claim of that process, not for the one it has read.
ApplyRow(p) ==
  /\ phase[p] = "start" /\ thread[p].pc = "apply"
  /\ \/ /\ Apply(Con(p), Claim(p).owner, thread[p].verdict)
        /\ placed' = IF placed[Con(p)] # NONE /\ Replaced(p)
                     THEN [placed EXCEPT ![Con(p)].ours = FALSE] ELSE placed
        /\ UNCHANGED <<listed, used>>
     \/ Fault /\ listed' = [listed EXCEPT ![p] = NoClaims] /\ UNCHANGED <<tables, placed>>
  /\ Done(p)
  /\ UNCHANGED <<disk, phase, events, pending, worker>>

\* reconcile_started_organizer_operations, as far as it closes conflicts, and the
\* start of the organizer, which scans the source folder.
Begin(p) ==
  LET gone == {q \in Proc : phase[q] = "dead"}
      done == {m[1] : m \in {o \in UNION {open[q] : q \in gone} : Home(o[1]) = o[2]}}
  IN /\ phase[p] = "start" /\ thread[p] = Idle /\ listed[p] = NoClaims
     /\ phase' = [phase EXCEPT ![p] = "run"]
     /\ pending' = Queued(p, Name)
     /\ conflicts' = [c \in Conflict |->
          IF conflicts[c].status = "pending" /\ conflicts[c].name \in done
          THEN [conflicts[c] EXCEPT !.status = "obsolete"] ELSE conflicts[c]]
     /\ open' = [q \in Proc |-> IF q \in gone THEN {} ELSE open[q]]
     /\ UNCHANGED <<disk, claims, events, thread, listed, moves, used, placed>>

----------------------------------------------------------------------------
(* The worker: handle_organizer_move, one request at a time.               *)

Working(p, n, pc) == phase[p] = "run" /\ moves[p][n].pc = pc
MoveTo(p, n, pc) == moves' = [moves EXCEPT ![p][n].pc = pc]
EndMove(p, n) == moves' = [moves EXCEPT ![p][n] = NoMove]

TakeMove(p, n) ==
  /\ Working(p, n, "queued")
  /\ \A m \in Name : moves[p][m].pc \in {"none", "queued"}
  /\ \/ Source(n) = NONE /\ EndMove(p, n)
     \/ Source(n) # NONE /\ Home(n) # NONE /\ MoveTo(p, n, "occupied")
     \/ Source(n) # NONE /\ Home(n) = NONE /\ MoveTo(p, n, "move")
  /\ UNCHANGED <<disk, tables, phase, events, pending, thread, listed, open, used, placed>>

\* create_organizer_conflict, up to its transaction
SeeCollision(p, n) ==
  /\ Working(p, n, "occupied")
  /\ IF Source(n) # moves[p][n].snap THEN EndMove(p, n)
     ELSE moves' = [moves EXCEPT ![p][n].pc = "register", ![p][n].home = Home(n)]
  /\ UNCHANGED <<disk, tables, phase, events, pending, thread, listed, open, used, placed>>

AskInstead(p, n) ==
  LET m == moves[p][n]
  IN /\ Working(p, n, "register")
     /\ \/ Register(n, m.snap, m.home) /\ EndMove(p, n) /\ UNCHANGED used
        \/ Fault /\ EndMove(p, n) /\ UNCHANGED conflicts
     /\ UNCHANGED <<disk, claims, phase, events, pending, thread, listed, open, placed>>

\* move_organizer_file_without_replace_journaled
Move(p, n) ==
  LET m == moves[p][n]
  IN /\ Working(p, n, "move")
     /\ \/ /\ Source(n) # m.snap
           /\ EndMove(p, n) /\ UNCHANGED <<disk, events, placed, used>>
        \/ Fault /\ EndMove(p, n) /\ UNCHANGED <<disk, events, placed>>
        \/ /\ Source(n) = m.snap /\ Home(n) # NONE
           /\ MoveTo(p, n, "occupied") /\ UNCHANGED <<disk, events, placed, used>>
        \/ /\ Source(n) = m.snap /\ Home(n) = NONE
           /\ DiskBecomes([disk EXCEPT ![<<"source", n>>] = NONE, ![<<"home", n>>] = m.snap], NONE)
           /\ MoveTo(p, n, "close") /\ UNCHANGED used
     /\ UNCHANGED <<tables, phase, pending, thread, listed, open>>

\* finish_organizer_operation of a completed move
CloseMove(p, n) ==
  /\ Working(p, n, "close")
  /\ \/ conflicts' = WithoutPending(n) /\ UNCHANGED <<open, used>>
     \/ Fault /\ open' = [open EXCEPT ![p] = @ \cup {<<n, moves[p][n].snap>>}]
              /\ UNCHANGED conflicts
  /\ EndMove(p, n)
  /\ UNCHANGED <<disk, claims, phase, events, pending, thread, listed, placed>>

\* The process ends or dies; another one is left to go on.
Crash(p) ==
  /\ phase[p] \in {"start", "run"}
  /\ \E q \in Proc \ {p} : phase[q] # "dead"
  /\ phase' = [phase EXCEPT ![p] = "dead"]
  /\ events' = [events EXCEPT ![p] = {}] /\ pending' = [pending EXCEPT ![p] = NoFiles]
  /\ thread' = [thread EXCEPT ![p] = Idle] /\ listed' = [listed EXCEPT ![p] = NoClaims]
  /\ open' = [open EXCEPT ![p] = @ \cup
       {<<n, moves[p][n].snap>> : n \in {m \in Name : moves[p][m].pc = "close"}}]
  /\ moves' = [moves EXCEPT ![p] = [n \in Name |-> NoMove]]
  /\ UNCHANGED <<disk, tables, used, placed>>

----------------------------------------------------------------------------
ResolveStep(p) == TakeClaim(p) \/ Check(p) \/ Guard(p) \/ Rename(p) \/ Finish(p)
                    \/ MarkObsolete(p) \/ Release(p) \/ Look(p) \/ ApplyOwn(p)
ThreadStep(p) == \/ SeeDestination(p) \/ Ask(p) \/ ResolveStep(p)
                 \/ \E x \in Place : TakeEvent(p, x)
                 \/ \E n \in Name : TakeStable(p, n)
StartStep(p) == \/ Start(p) \/ ApplyRow(p) \/ Begin(p)
                \/ \E c \in Conflict : LookAtRow(p, c)
WorkerStep(p) == \E n \in Name : \/ TakeMove(p, n) \/ SeeCollision(p, n) \/ AskInstead(p, n)
                                 \/ Move(p, n) \/ CloseMove(p, n)

User == \/ \E x \in Place : UserWrite(x) \/ UserDelete(x) \/ \E y \in Place : UserMove(x, y)
        \/ \E p \in Proc, c \in Conflict :
             Cancel(p, c) \/ \E f \in Folder, t \in Name : Resolve(p, c, f, t)

Next == \/ User
        \/ \E p \in Proc : ThreadStep(p) \/ StartStep(p) \/ WorkerStep(p) \/ Crash(p)

Spec == Init /\ [][Next]_vars

----------------------------------------------------------------------------
(* Properties.                                                             *)

\* A file is asked about once, whichever threads and processes find it in the way of
\* another at once, and not again after the user has cancelled while both files stay
\* as they are (the test cancelled_identity_is_suppressed_until_a_snapshot_changes).
AskedOnce ==
  \A c, q \in Conflict :
    /\ c # q /\ conflicts[c].status = "pending" /\ conflicts[q].name = conflicts[c].name
    => /\ conflicts[q].status # "pending"
       /\ conflicts[q].status = "cancelled" =>
            conflicts[q] # [conflicts[c] EXCEPT !.status = "cancelled"]

Resolving == {"check", "guard", "rename", "finish", "obsolete", "look"}
\* One thread at a time works on the files of a conflict: the one that its claim
\* names, whatever else is registered, closed or reconciled meanwhile.
OneResolver ==
  \A p \in Proc :
    phase[p] = "run" /\ thread[p].pc \in Resolving => claims[Con(p)] = Claim(p)

\* The row tells what has become of the rename, whatever failed or crashed: it is
\* resolved only when the file it was about to rename was seen at the new name, and while
\* that file is where the resolution put it, it is neither cancelled nor open to another
\* resolution (reconcile_organizer_conflict_resolution_rows; the tests
\* reconciliation_rejects_an_unrelated_file_at_the_claimed_target and
\* startup_reconciliation_recovers_a_claim_from_a_stopped_owner).
RenameIsRecorded ==
  \A c \in Conflict :
    /\ conflicts[c].status = "resolved" => placed[c] # NONE
    /\ placed[c] # NONE /\ placed[c].still /\ placed[c].ours =>
         \/ conflicts[c].status \in {"resolved", "obsolete"}
         \/ conflicts[c].status = "pending" /\ claims[c] # NONE
=============================================================================
