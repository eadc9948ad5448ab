------------------------- MODULE OrganizerCommands -------------------------
(***************************************************************************)
(* The organizer manager of one running instance: the user interface sends *)
(* commands over a channel to the organizer thread and reads answers and   *)
(* rule statuses from another one; the thread hands moves to the file      *)
(* operation worker together with an activation flag, which a later pause  *)
(* or rule change lowers.  The manager may be dropped, and the thread may  *)
(* panic or hang in a file call, at any moment.                            *)
(*                                                                         *)
(* One rule is modelled, with its switch and a version that stands for its *)
(* other fields.  What a move does to the files and the database belongs   *)
(* to OrganizerMove; undo and the resolution of a conflict, which use no   *)
(* flag of a rule, are not among the commands here.                        *)
(***************************************************************************)
EXTENDS Naturals, FiniteSets, Sequences

CONSTANTS
  File,         \* files in the rule's source folder
  Version,      \* what a rule may say besides being switched on
  Start,        \* the rules that may be stored in the database at the start
  Requests,     \* the commands the interface may send
  MaxId,        \* bound: the width of the counter of command ids
  BatchSize,    \* MAX_COMMANDS_PER_TICK
  MaxFaults,    \* bound: panics and calls that never return
  NONE          \* "no value"

Rule == [on : BOOLEAN, version : Version]
Id == 1..MaxId
Flag == Nat        \* activation flags, numbered as they are made
Pending == [flag : Flag, version : Version, ripe : BOOLEAN]

\* The commands; "invalid" is a set of rules that the thread's validation
\* refuses.
Commands ==
  [kind : {"set", "invalid"}, rule : Rule, file : {NONE}]
    \cup [kind : {"retry"}, rule : {NONE}, file : File]
    \cup [kind : {"pause", "resume", "folder"}, rule : {NONE}, file : {NONE}]

ASSUME CommandsAssumption ==
  /\ MaxId \in Nat \ {0}
  /\ BatchSize \in Nat \ {0}
  /\ MaxFaults \in Nat
  /\ Start \subseteq Rule /\ Requests \subseteq Commands
  /\ NONE \notin File \cup Rule \cup Flag \cup Pending

VARIABLES
  manager,     \* OrganizerManager: "up", "flagged", "stopped" or "gone"
  shutdown,    \* the flag shared by manager, thread and worker
  counter,     \* NEXT_COMMAND_ID
  running,     \* PendingCommandState::running
  registered,  \* PendingCommandState::command_ids
  channel,     \* commands sent to the thread
  events,      \* answers and statuses sent to the interface
  ui,          \* rule and status shown, rules sent and not yet answered
  thread,      \* where run_organizer stands, and what it has in hand
  rule,        \* the thread's rule
  paused,      \* the rule is in paused_rules
  reported,    \* the status last sent
  flag,        \* the activation flag in activation_flags
  fresh,       \* number of flags made so far
  raised,      \* flags that are up
  pending,     \* [File -> NONE or the flag and version it was noticed with,
               \* and whether STABILITY_DELAY is over]
  inFlight,    \* OrganizerInFlightRegistry
  queue,       \* requests to the worker
  worker,      \* its current request and how far it is
  retryable,   \* files with a cancelled or failed operation in the history
  moved,       \* files that have left the source folder
  faults,
  sent,        \* ghost: [Id -> answers sent]
  accepted,    \* ghost: ids of commands the manager has accepted
  stray,       \* ghost: flags a second resume replaced while they were up
  stored       \* ghost: "refused" while the thread runs a stored rule that its
               \* validation refused, "accepted" otherwise

idVars == <<counter, running, registered>>
ruleVars == <<rule, paused, flag, fresh, raised, stray, stored>>
fileVars == <<pending, inFlight, queue, worker, retryable, moved>>
vars == <<manager, shutdown, idVars, channel, events, ui, thread, ruleVars,
          reported, fileVars, faults, sent, accepted>>

Statuses == {"starting", "active", "paused", "disabled"}
NoPlace == [pc |-> "top", command |-> NONE, done |-> 0, ready |-> {}]
NoWork == [pc |-> "idle", file |-> NONE, flag |-> NONE, version |-> NONE]

\* The interface shows the stored rule as it is.  The thread validates it
\* first: one that is refused it switches off, and sends an error that names
\* no command and changes nothing that is shown.
InForceAs(shown) == rule = IF stored = "refused" THEN [shown EXCEPT !.on = FALSE] ELSE shown

Init ==
  /\ manager = "up" /\ shutdown = FALSE
  /\ counter = 1 /\ running = TRUE /\ registered = {}
  /\ channel = << >> /\ events = << >>
  /\ \E r \in Start :
       ui = [rule |-> r, status |-> "starting", sets |-> [i \in Id |-> NONE]]
  /\ stored \in {"accepted", "refused"}
  /\ InForceAs(ui.rule)
  /\ paused = FALSE
  /\ thread = NoPlace
  /\ reported = "starting"
  /\ flag = 0 /\ fresh = 0 /\ raised = (IF rule.on THEN {0} ELSE {})
  \* queue_rule_paths of every enabled rule
  /\ pending = [f \in File |->
       IF rule.on THEN [flag |-> 0, version |-> rule.version, ripe |-> FALSE] ELSE NONE]
  /\ inFlight = {} /\ queue = << >> /\ worker = NoWork
  /\ retryable = {} /\ moved = {}
  /\ faults = 0
  /\ sent = [i \in Id |-> 0] /\ accepted = {} /\ stray = {}

----------------------------------------------------------------------------
(* The manager, on the interface's thread.                                 *)

\* Mutant: a counter without width.
FollowingForever(n) == n + 1

\* allocate_command_id: an unsigned counter that starts at one; zero means
\* that it has wrapped around.
Allocable == counter # 0
Following(n) == (n + 1) % (MaxId + 1)

\* What the settings offer: pause while the rule is shown active, resume
\* while it is shown paused, retry in the history of an ended operation.
Offered(c) ==
  CASE c.kind = "pause" -> ui.rule.on /\ ui.status = "active"
    [] c.kind = "resume" -> ui.rule.on /\ ui.status = "paused"
    [] c.kind = "retry" -> c.file \in retryable
    [] OTHER -> TRUE

\* enqueue with register_and_send; `send` cannot fail while running is set,
\* the receiver outlives the guard that clears it.
Enqueue(c) ==
  /\ manager = "up"
  /\ Allocable
  /\ Offered(c)
  /\ counter' = Following(counter)
  /\ IF running
       THEN /\ registered' = registered \cup {counter}
            /\ channel' = Append(channel, [id |-> counter, do |-> c])
            /\ accepted' = accepted \cup {counter}
            /\ ui' = [ui EXCEPT !.sets[counter] = c.rule]
       ELSE UNCHANGED <<registered, channel, accepted, ui>>
  /\ UNCHANGED <<manager, shutdown, running, events, thread, ruleVars, reported,
                 fileVars, faults, sent>>

\* Mutant: a refused set of rules is shown all the same.
ConfirmsAlways(e) == TRUE
Confirms(e) == e.says = "ok"

\* process_organizer_events: every event that has come in; the last status
\* and the last set of rules that was accepted are the ones that are shown.
LastOf(S) == CHOOSE n \in S : \A m \in S : m <= n
ReadEvents ==
  /\ manager = "up"
  /\ events # << >>
  /\ events' = << >>
  /\ LET statuses == {n \in DOMAIN events : events[n].id = 0}
         answered == {events[n].id : n \in DOMAIN events} \ {0}
         confirmed == {n \in DOMAIN events \ statuses :
                         ui.sets[events[n].id] # NONE /\ Confirms(events[n])}
     IN ui' = [rule |-> IF confirmed = {} THEN ui.rule
                        ELSE ui.sets[events[LastOf(confirmed)].id],
               status |-> IF statuses = {} THEN ui.status
                          ELSE events[LastOf(statuses)].says,
               sets |-> [i \in Id |-> IF i \in answered THEN NONE ELSE ui.sets[i]]]
  /\ UNCHANGED <<manager, shutdown, idVars, channel, thread, ruleVars, reported,
                 fileVars, faults, sent, accepted>>

\* Drop of the manager: the flag, stop(), then the thread is joined when it
\* has finished, and left to itself when it has not.  The message Shutdown
\* only wakes the thread up: the flag is read before a command is.  Nobody
\* reads events any more; they are left out from here on.
DropFlag ==
  /\ manager = "up"
  /\ manager' = "flagged" /\ shutdown' = TRUE
  /\ events' = << >>
  /\ ui' = [ui EXCEPT !.sets = [i \in Id |-> NONE]]
  /\ UNCHANGED <<idVars, channel, thread, ruleVars, reported, fileVars, faults,
                 sent, accepted>>

DropStop ==
  /\ manager = "flagged"
  /\ manager' = "stopped" /\ running' = FALSE /\ registered' = {}
  /\ UNCHANGED <<shutdown, counter, channel, events, ui, thread, ruleVars,
                 reported, fileVars, faults, sent, accepted>>

\* Mutant: drop always joins.
JoinsAlways == TRUE
Joins == thread.pc = "ended"

DropEnd ==
  /\ manager = "stopped"
  /\ Joins => thread.pc = "ended"
  /\ manager' = "gone"
  /\ UNCHANGED <<shutdown, idVars, channel, events, ui, thread, ruleVars, reported,
                 fileVars, faults, sent, accepted>>

----------------------------------------------------------------------------
(* The organizer thread.                                                   *)

Place(pc, command, done, ready) ==
  [pc |-> pc, command |-> command, done |-> done, ready |-> ready]
Leave == Place("leaving", NONE, 0, {})
Ripe == {f \in File : pending[f] # NONE /\ pending[f].ripe}

StatusOf == IF ~rule.on THEN "disabled" ELSE IF paused THEN "paused" ELSE "active"

\* The top of the loop.  Its health check comes once per interval, and the
\* delay of a pending file is longer than the interval: a file becomes stable
\* only after a check that followed its notice.
HealthCheck ==
  /\ thread.pc = "top"
  /\ ~shutdown
  /\ StatusOf # reported \/ \E f \in File : pending[f] # NONE /\ ~pending[f].ripe
  /\ reported' = StatusOf
  /\ events' = IF StatusOf # reported /\ manager = "up"
                 THEN Append(events, [id |-> 0, says |-> StatusOf]) ELSE events
  /\ pending' = [f \in File |-> IF pending[f] = NONE THEN NONE
                                ELSE [pending[f] EXCEPT !.ripe = TRUE]]
  /\ UNCHANGED <<manager, shutdown, idVars, channel, ui, thread, ruleVars, inFlight,
                 queue, worker, retryable, moved, faults, sent, accepted>>

\* recv_timeout between two looks at the shutdown flag; a round that finds
\* neither a command nor a stable file changes nothing.
Receive ==
  /\ thread.pc = "top"
  /\ IF shutdown \/ (channel = << >> /\ manager = "gone")
       THEN thread' = Leave /\ UNCHANGED channel
     ELSE IF channel # << >>
       THEN thread' = Place("command", Head(channel), 0, {}) /\ channel' = Tail(channel)
     ELSE /\ Ripe # {}
          /\ thread' = Place("files", NONE, 0, Ripe)
          /\ UNCHANGED channel
  /\ UNCHANGED <<manager, shutdown, idVars, events, ui, ruleVars, reported,
                 fileVars, faults, sent, accepted>>

\* Mutant: the answered id stays registered.
Unsettled(i) == registered

\* respond: the answer is sent, then the id forgotten; without a receiver the
\* loop ends.
Settled(i) == registered \ {i}

Respond(says) ==
  LET i == thread.command.id IN
  IF manager = "gone"
    THEN thread' = Leave /\ UNCHANGED <<events, registered, sent, channel>>
    ELSE /\ events' = IF manager = "up" THEN Append(events, [id |-> i, says |-> says])
                      ELSE events
         /\ sent' = [sent EXCEPT ![i] = @ + 1]
         /\ registered' = Settled(i)
         \* the next command of the batch, or the stable files
         /\ IF channel # << >> /\ thread.done + 1 < BatchSize
              THEN /\ thread' = Place("command", Head(channel), thread.done + 1, {})
                   /\ channel' = Tail(channel)
              ELSE thread' = Place("files", NONE, 0, Ripe') /\ UNCHANGED channel

\* The thread is about to process a command of this kind and shutdown is
\* not set.
Processing(kind) ==
  /\ thread.pc = "command"
  /\ ~shutdown
  /\ thread.command.do.kind = kind
  /\ UNCHANGED <<manager, shutdown, counter, running, ui, reported, faults, accepted>>

LeaveBatch ==
  /\ thread.pc = "command"
  /\ shutdown
  /\ thread' = Leave
  /\ UNCHANGED <<manager, shutdown, idVars, channel, events, ui, ruleVars, reported,
                 fileVars, faults, sent, accepted>>

\* queue_rule_paths under rule r and flag g: what is pending gets the new
\* flag and rule and keeps its time.
Scanned(table, r, g) == [f \in File |->
  IF f \in moved THEN table[f]
  ELSE [flag |-> g, version |-> r.version,
        ripe |-> table[f] # NONE /\ table[f].ripe]]

\* Mutant: the old flags stay up.
LoweredByNobody == raised

\* update_activation_flags: every flag goes down, one new flag per rule.
LoweredBySet == raised \ {flag}

SetRules ==
  /\ Processing("set")
  /\ LET new == thread.command.do.rule IN
     /\ rule' = new
     /\ IF new = rule THEN UNCHANGED <<flag, fresh, raised>>
        ELSE /\ fresh' = fresh + 1
             /\ flag' = fresh + 1
             /\ raised' = LoweredBySet \cup (IF new.on THEN {fresh + 1} ELSE {})
     /\ paused' = (paused /\ new.on)
     \* pending.retain on the flags, then the scan of changed rules
     /\ LET kept == [f \in File |->
              IF pending[f] # NONE /\ pending[f].flag \in raised' THEN pending[f] ELSE NONE]
        IN pending' = IF new # rule /\ new.on /\ ~paused'
                        THEN Scanned(kept, new, flag') ELSE kept
  /\ stored' = "accepted"
  /\ Respond("ok")
  /\ UNCHANGED <<inFlight, queue, worker, retryable, moved, stray>>

\* validate_runtime_rules refuses.
RejectRules ==
  /\ Processing("invalid")
  /\ UNCHANGED <<ruleVars, fileVars>>
  /\ Respond("error")

\* create_folder also resets the watcher, see OrganizerWatch.
CreateFolder ==
  /\ Processing("folder")
  /\ \E ok \in BOOLEAN :
       /\ pending' = IF ok /\ rule.on /\ ~paused THEN Scanned(pending, rule, flag) ELSE pending
       /\ Respond(IF ok THEN "ok" ELSE "error")
  /\ UNCHANGED <<ruleVars, inFlight, queue, worker, retryable, moved>>

LoweredByPause == raised \ {flag}

PauseRule ==
  /\ Processing("pause")
  /\ IF rule.on
       THEN /\ raised' = LoweredByPause
            /\ fresh' = fresh + 1 /\ flag' = fresh + 1
            /\ paused' = TRUE
            /\ pending' = [f \in File |-> NONE]
            /\ Respond("ok")
       ELSE /\ UNCHANGED <<raised, fresh, flag, paused, pending>>
            /\ Respond("error")
  /\ UNCHANGED <<rule, stray, stored, inFlight, queue, worker, retryable, moved>>

\* The flag that is replaced is not lowered.
ResumeRule ==
  /\ Processing("resume")
  /\ IF rule.on
       THEN /\ fresh' = fresh + 1 /\ flag' = fresh + 1
            /\ raised' = raised \cup {fresh + 1}
            /\ stray' = stray \cup ({flag} \cap raised)
            /\ paused' = FALSE
            /\ pending' = Scanned(pending, rule, flag')
            /\ Respond("ok")
       ELSE /\ UNCHANGED <<raised, fresh, flag, paused, pending, stray>>
            /\ Respond("error")
  /\ UNCHANGED <<rule, stored, inFlight, queue, worker, retryable, moved>>

Request(f, g, v) == [pc |-> "idle", file |-> f, flag |-> g, version |-> v]

\* A cancelled operation starts again under the current rule and flag.
RetryOperation ==
  /\ Processing("retry")
  /\ UNCHANGED <<ruleVars, pending, worker, retryable, moved>>
  /\ LET f == thread.command.do.file IN
     IF rule.on /\ ~paused /\ f \in retryable /\ f \notin moved \cup inFlight
       THEN /\ inFlight' = inFlight \cup {f}
            /\ queue' = Append(queue, Request(f, flag, rule.version))
            /\ Respond("ok")
       ELSE /\ UNCHANGED <<inFlight, queue>>
            /\ Respond("error")

\* process_stable_files, one file; the loop goes on to the top at the end.
StableFile(f) ==
  /\ thread.pc = "files"
  /\ ~shutdown
  /\ f \in thread.ready
  /\ thread' = [thread EXCEPT !.ready = @ \ {f}]
  /\ IF \/ paused
        \/ f \in moved
        \/ pending[f].flag \notin raised
       THEN pending' = [pending EXCEPT ![f] = NONE] /\ UNCHANGED <<inFlight, queue>>
     ELSE IF f \in inFlight THEN UNCHANGED <<pending, inFlight, queue>>
     ELSE /\ pending' = [pending EXCEPT ![f] = NONE]
          /\ inFlight' = inFlight \cup {f}
          /\ queue' = Append(queue, Request(f, pending[f].flag, pending[f].version))
  /\ UNCHANGED <<manager, shutdown, idVars, channel, events, ui, ruleVars, reported,
                 worker, retryable, moved, faults, sent, accepted>>

FilesDone ==
  /\ thread.pc = "files"
  /\ thread.ready = {} \/ shutdown
  /\ thread' = NoPlace
  /\ UNCHANGED <<manager, shutdown, idVars, channel, events, ui, ruleVars, reported,
                 fileVars, faults, sent, accepted>>

\* A command or a file of the loop panics, or a call never comes back.
Panic ==
  /\ thread.pc \in {"top", "command", "files"}
  /\ faults < MaxFaults
  /\ faults' = faults + 1
  /\ thread' = Leave
  /\ UNCHANGED <<manager, shutdown, idVars, channel, events, ui, ruleVars, reported,
                 fileVars, sent, accepted>>

Hang ==
  /\ thread.pc \in {"command", "files"}
  /\ faults < MaxFaults
  /\ faults' = faults + 1
  /\ thread' = [thread EXCEPT !.pc = "hanging"]
  /\ UNCHANGED <<manager, shutdown, idVars, channel, events, ui, ruleVars, reported,
                 fileVars, sent, accepted>>

\* Mutant: stop only drains.
RunningOn == running

\* PendingCommandFailureGuard: what is still registered is answered, in any
\* order, and nothing is accepted any more.  The thread's own state is gone.
StillRunning == FALSE

Unwind ==
  /\ thread.pc = "leaving"
  /\ running' = StillRunning
  /\ registered' = {}
  /\ sent' = [i \in Id |-> IF i \in registered THEN sent[i] + 1 ELSE sent[i]]
  /\ \E order \in {s \in [1..Cardinality(registered) -> registered] :
                     \A i \in registered : \E n \in DOMAIN s : s[n] = i} :
       events' = IF manager # "up" THEN events
                 ELSE events \o [n \in DOMAIN order |-> [id |-> order[n], says |-> "gone"]]
  /\ thread' = Place("ended", NONE, 0, {})
  /\ channel' = << >> /\ pending' = [f \in File |-> NONE]
  /\ UNCHANGED <<manager, shutdown, counter, ui, ruleVars, reported, inFlight, queue,
                 worker, retryable, moved, faults, accepted>>

----------------------------------------------------------------------------
(* The file operation worker.                                              *)

Allowed(r) == ~shutdown /\ r.flag \in raised

\* The first look, when the request is taken up.
WorkerTakes ==
  /\ worker.pc = "idle"
  /\ queue # << >>
  /\ queue' = Tail(queue)
  /\ LET r == Head(queue) IN
     IF Allowed(r)
       THEN worker' = [r EXCEPT !.pc = "checked"] /\ UNCHANGED <<inFlight, retryable>>
       ELSE /\ inFlight' = inFlight \ {r.file}
            /\ retryable' = retryable \cup {r.file}
            /\ UNCHANGED worker
  /\ UNCHANGED <<manager, shutdown, idVars, channel, events, ui, thread, ruleVars,
                 reported, pending, moved, faults, sent, accepted>>

\* The second look, behind the checks of the paths.
WorkerRechecks ==
  /\ worker.pc = "checked"
  /\ IF Allowed(worker)
       THEN worker' = [worker EXCEPT !.pc = "cleared"] /\ UNCHANGED <<inFlight, retryable>>
       ELSE /\ inFlight' = inFlight \ {worker.file}
            /\ retryable' = retryable \cup {worker.file}
            /\ worker' = NoWork
  /\ UNCHANGED <<manager, shutdown, idVars, channel, events, ui, thread, ruleVars,
                 reported, pending, queue, moved, faults, sent, accepted>>

WorkerMoves ==
  /\ worker.pc = "cleared"
  /\ \/ moved' = moved \cup {worker.file} /\ UNCHANGED retryable
     \/ retryable' = retryable \cup {worker.file} /\ UNCHANGED moved
  /\ inFlight' = inFlight \ {worker.file}
  /\ worker' = NoWork
  /\ UNCHANGED <<manager, shutdown, idVars, channel, events, ui, thread, ruleVars,
                 reported, pending, queue, faults, sent, accepted>>

----------------------------------------------------------------------------
Interface == (\E c \in Requests : Enqueue(c)) \/ ReadEvents \/ DropFlag
Dropping == DropStop \/ DropEnd
Command ==
  \/ SetRules \/ PauseRule \/ ResumeRule \/ CreateFolder \/ RetryOperation
  \/ RejectRules
Loop ==
  \/ HealthCheck \/ Receive \/ Command \/ LeaveBatch
  \/ \E f \in File : StableFile(f)
  \/ FilesDone \/ Unwind
Worker == WorkerTakes \/ WorkerRechecks \/ WorkerMoves

Next == Interface \/ Dropping \/ Loop \/ Worker \/ Panic \/ Hang

Spec == Init /\ [][Next]_vars

\* The thread and the drop of the manager run on; nobody has to use the
\* interface and the worker may be busy with other operations.
FairSpec == Spec /\ WF_vars(Loop) /\ WF_vars(Dropping)

----------------------------------------------------------------------------
(* Properties.                                                             *)

Message == [id : Id, do : Requests]
Says == Statuses \cup {"ok", "error", "gone"}
Event == [id : 0..MaxId, says : Says]
Work == [pc : {"idle", "checked", "cleared"}, file : File, flag : Flag, version : Version]

\* Every variable has its type, and the thread has in hand what it works on: a
\* command, or stable files that are still pending.
TypeOK ==
  /\ manager \in {"up", "flagged", "stopped", "gone"}
  /\ shutdown \in BOOLEAN
  /\ counter \in 0..MaxId
  /\ running \in BOOLEAN
  /\ registered \subseteq Id
  /\ channel \in Seq(Message)
  /\ events \in Seq(Event)
  /\ ui \in [rule : Rule, status : Says, sets : [Id -> Rule \cup {NONE}]]
  /\ thread \in [pc : {"top", "command", "files", "leaving", "hanging", "ended"},
                 command : Message \cup {NONE}, done : Nat, ready : SUBSET File]
  /\ thread.pc = "command" => thread.command \in Message
  /\ thread.pc = "files" => \A f \in thread.ready : pending[f] # NONE
  /\ rule \in Rule
  /\ paused \in BOOLEAN /\ stored \in {"accepted", "refused"}
  /\ flag \in Flag /\ fresh \in Flag
  /\ raised \subseteq Flag /\ stray \subseteq Flag
  /\ reported \in Statuses
  /\ pending \in [File -> Pending \cup {NONE}]
  /\ inFlight \subseteq File /\ retryable \subseteq File /\ moved \subseteq File
  /\ queue \in Seq(Work)
  /\ worker \in Work \cup {NoWork}
  /\ worker.pc \in {"checked", "cleared"} => worker \in Work
  /\ faults \in 0..MaxFaults
  /\ sent \in [Id -> Nat]
  /\ accepted \subseteq Id

\* A command is answered at most once, whoever answers it: the thread, or the
\* guard that runs when the thread ends (manager_tests.rs looks for the answer
\* of one command at a time).
AnsweredOnce == \A i \in Id : sent[i] <= 1

\* When nothing is under way the interface shows the rule that is in force.
\* The one exception is a stored rule that was refused at the start: until a
\* set of rules is accepted it is shown as it was stored, switched on, while
\* the thread runs it switched off, and never in any other form.
ShownIsInForce ==
  channel = << >> /\ events = << >> /\ thread.pc = "top" /\ manager = "up"
    => InForceAs(ui.rule)

\* A file that passes the worker's last check belongs to a rule that is in
\* force at that moment, in the version that matched it: a pause, a rule change
\* and the shutdown revoke what was dispatched before, in the queue and in
\* hand.  Flags that a second resume replaced are left out.
ClearedInForce(w) ==
  /\ rule.on /\ ~paused /\ ~shutdown
  /\ w.version = rule.version
RevokedIsNotStarted ==
  [][worker.pc = "checked" /\ worker'.pc = "cleared" /\ worker.flag \notin stray
       => ClearedInForce(worker)]_vars

\* Every accepted command is answered in the end, unless the interface
\* closes or the thread hangs.
AnsweredInTheEnd ==
  []<>((\A i \in accepted : sent[i] > 0) \/ manager # "up" \/ thread.pc = "hanging")

\* Dropping the manager returns, also when the thread hangs; a thread that
\* does not hang ends by itself.
DropEnds ==
  manager = "flagged" ~> manager = "gone" /\ thread.pc \in {"ended", "hanging"}
=============================================================================
