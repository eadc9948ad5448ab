---------------------------- MODULE SessionExit ----------------------------
(***************************************************************************)
(* Leaving the application with several main windows, each a process of    *)
(* its own.  A window that is closed saves its session as the one record   *)
(* of the next start; the tray's "exit all" asks every window for its live *)
(* session, saves them as a group and only then closes the windows, the    *)
(* owner of the tray icon last.  A cold start opens the saved group again. *)
(*                                                                         *)
(* Window is the set of processes that may ever be started: a window       *)
(* handle and process id are not used twice.                               *)
(***************************************************************************)
EXTENDS Naturals, Sequences, FiniteSets, FiniteSetsExt

CONSTANTS
  Window,
  MinimizeToTray,  \* windows whose close button hides them in the tray
  Restored,        \* sessions in the record of an earlier run
  MaxExits,        \* bound: global exits
  MaxFaults,       \* bound: timeouts, failing writes and starts, crashes
  NONE

ASSUME SessionAssumption ==
  /\ IsFiniteSet(Window) /\ MinimizeToTray \subseteq Window /\ NONE \notin Window
  /\ Restored \in Nat \ {0}
  /\ MaxExits \in Nat /\ MaxFaults \in Nat

VARIABLES
  life,     \* "off", "up" (the UI thread takes messages), in handle_exit
            \* "down", "free" (the tray is released) and "saved" or "left", then
            \* "gone"
  ui,       \* the state of each UI thread
  inbox,    \* messages that were sent to a window and not handled yet
  worker,   \* the session-exit thread of each process
  restore,  \* the restore-instances thread: sessions left, the child that is
            \* being started, and a ghost, all it has started
  tray,     \* the process with the tray mutex, or NONE
  icon,     \* the window with the TrayOwner property, or NONE
  record,   \* the preference instance_sessions, with a ghost, the last group that
            \* was written into it
  saved,    \* ghost: [exit -> the windows whose sessions were saved for it]
  token,    \* global exits so far
  faults

vars == <<life, ui, inbox, worker, restore, tray, icon, record, saved,
          token, faults>>

NewUi == [
  ready |-> FALSE,          \* READY, State.ready of session_exit
  exiting |-> FALSE,        \* property MTT.FileManager.Exiting, tray_exit_requested
  closing |-> FALSE,        \* a close is on its way to the UI
  order |-> 0,              \* close_order; 0 for none
  group |-> FALSE,          \* group_exit
  prepared |-> <<NONE, 0>>, \* the window and the exit that has our session
  busy |-> FALSE,
  pending |-> 0,            \* Pending: its exit, the windows that have not
  expected |-> {},          \* replied, and those that have
  replies |-> {},
  actions |-> << >>]        \* PENDING_ACTIONS

NoRestore == [left |-> 0, child |-> NONE, children |-> {}]

NoWorker == [pc |-> "none", exit |-> 0, group |-> {}, todo |-> {}, order |-> 0]

Init ==
  /\ life = [w \in Window |-> "off"]
  /\ ui = [w \in Window |-> NewUi]
  /\ inbox = [w \in Window |-> << >>]
  /\ worker = [w \in Window |-> NoWorker]
  /\ restore = [w \in Window |-> NoRestore]
  /\ tray = NONE /\ icon = NONE
  /\ record = [order |-> 0, count |-> Restored, sessions |-> {},
               group |-> [order |-> 0, windows |-> {}]]
  /\ saved = [e \in 1 .. MaxExits |-> {}]
  /\ token = 0 /\ faults = 0

----------------------------------------------------------------------------
(* Windows, orders and messages.                                           *)

\* WindowRef::capture and is_current: a main window that is not exiting.
Current(w) == life[w] = "up" /\ ~ui[w].exiting

\* exit_order: later than every order that was given out.
NextOrder == 1 + Max({record.order} \cup {ui[w].order : w \in Window}
                       \cup {worker[w].order : w \in Window})

\* A child process is still being started.
Restoring(w) == restore[w].left > 0

\* queue_action for anything but Exit.
Queues(w) == \A i \in DOMAIN ui[w].actions : ui[w].actions[i].kind # "exit"

Fault == faults < MaxFaults /\ faults' = faults + 1

\* What windows send, and what their UI threads put off: a kind, a sender, and
\* the token of a global exit.
Message(kind, from, e) == [kind |-> kind, from |-> from, exit |-> e]

\* coordinator::request_exit: the first request posts WM_CLOSE, takes the order
\* of this close and replaces whatever is queued.
Exiting(u) ==
  IF u.exiting THEN u
  ELSE [u EXCEPT !.exiting = TRUE, !.closing = TRUE,
                 !.order = IF @ = 0 THEN NextOrder ELSE @,
                 !.actions = <<Message("exit", NONE, 0)>>]

\* Mutant: a restored child may still be on its way.
ReadyOnly(w) == ui[w].ready

\* What request_all and request_capture ask of a window.
TakesPart(w) == ui[w].ready /\ ~Restoring(w)

\* receive_reply
Expects(u, m) == u.pending = m.exit /\ m.from \in u.expected /\ Current(m.from)

\* protocol::receive and the handlers' conditions: does w acknowledge m?
Accepts(w, m) ==
  \/ m.kind = "exit"
  \/ /\ Current(m.from)
     /\ \/ m.kind = "request" /\ TakesPart(w) /\ Queues(w)
        \/ m.kind = "reply" /\ Expects(ui[w], m)
        \/ m.kind = "close" /\ ui[w].prepared = <<m.from, m.exit>>
        \/ m.kind = "failed" /\ ui[w].pending = m.exit

\* Mutant: the exit stays busy.
FailedBusy(u) ==
  [u EXCEPT !.pending = 0, !.expected = {}, !.replies = {}, !.prepared = <<NONE, 0>>]

\* finish
FailedExit(u) ==
  [u EXCEPT !.pending = 0, !.expected = {}, !.replies = {}, !.prepared = <<NONE, 0>>,
            !.busy = FALSE]

\* What they make of its state: request_capture, receive_reply, close,
\* finish and request_exit.
Handled(w, m) ==
  LET u == ui[w] IN
  CASE m.kind = "request" ->
         [u EXCEPT !.actions = Append(@, Message("capture", m.from, m.exit))]
    [] m.kind = "reply" ->
         [u EXCEPT !.expected = @ \ {m.from}, !.replies = @ \cup {m.from}]
    [] m.kind = "close" -> [Exiting(u) EXCEPT !.group = TRUE]
    [] m.kind = "failed" -> FailedExit(u)
    [] m.kind = "exit" -> Exiting(u)

Received(w, m) == IF Accepts(w, m) THEN Handled(w, m) ELSE ui[w]

\* A message whose answer the sender waits for.  A timeout leaves open whether
\* it is handled later.
Send(to, m, ok) ==
  \/ /\ life[to] = "up" /\ inbox[to] = << >>
     /\ ok = Accepts(to, m)
     /\ ui' = [ui EXCEPT ![to] = Received(to, m)]
     /\ UNCHANGED <<inbox, faults>>
  \/ /\ ~ok /\ life[to] = "up"
     /\ Fault
     /\ \/ UNCHANGED inbox
        \/ inbox' = [inbox EXCEPT ![to] = Append(@, m)]
     /\ UNCHANGED ui
  \/ /\ ~ok /\ life[to] # "up"
     /\ UNCHANGED <<ui, inbox, faults>>

\* A message whose answer nobody looks at: it may be lost.
Post(to, m, arrives) ==
  \/ /\ arrives /\ life[to] = "up"
     /\ inbox' = [inbox EXCEPT ![to] = Append(@, m)]
     /\ UNCHANGED faults
  \/ /\ ~arrives /\ life[to] = "up"
     /\ Fault
     /\ UNCHANGED inbox
  \/ /\ ~arrives /\ life[to] # "up"
     /\ UNCHANGED <<inbox, faults>>

Deliver(w) ==
  /\ life[w] = "up" /\ inbox[w] # << >>
  /\ ui' = [ui EXCEPT ![w] = Received(w, Head(inbox[w]))]
  /\ inbox' = [inbox EXCEPT ![w] = Tail(@)]
  /\ UNCHANGED <<life, worker, restore, tray, icon, record, saved, token, faults>>

----------------------------------------------------------------------------
(* Starting windows.                                                       *)

\* handle_exit begins: individual_close_order, and the window is exiting and no
\* longer takes messages.
Leaves(w) ==
  /\ life' = [life EXCEPT ![w] = "down"]
  /\ ui' = [ui EXCEPT ![w].exiting = TRUE, ![w].order = IF @ = 0 THEN NextOrder ELSE @,
                      ![w].actions = << >>, ![w].closing = FALSE]
  /\ inbox' = [inbox EXCEPT ![w] = << >>]
  /\ icon' = IF icon = w THEN NONE ELSE icon

\* The process of w ends, with all its threads; what it wrote into the socket of
\* its parent stays there.
Vanishes(w) ==
  /\ ui' = [ui EXCEPT ![w] = [NewUi EXCEPT !.ready = ui[w].ready]]
  /\ life' = [life EXCEPT ![w] = "gone"]
  /\ inbox' = [inbox EXCEPT ![w] = << >>]
  /\ worker' = [worker EXCEPT ![w] = NoWorker]
  /\ tray' = IF tray = w THEN NONE ELSE tray
  /\ icon' = IF icon = w THEN NONE ELSE icon

\* Mutant: the mutex is taken whoever has it.
OwnerAlways(w) == w

\* coordinator::tick: the first to get the mutex owns the tray.
Owner(w) == IF tray = NONE THEN w ELSE tray

\* A window registers under the startup mutex and joins the tray.  Without
\* another window it is a cold start: prepare_startup takes the sessions.
Launch(w, left) ==
  /\ life[w] = "off"
  /\ left \in {0, IF \A v \in Window : life[v] \in {"off", "gone"} THEN record.count - 1 ELSE 0}
  /\ life' = [life EXCEPT ![w] = "up"]
  /\ restore' = [restore EXCEPT ![w].left = left]
  /\ tray' = Owner(w) /\ icon' = IF tray = NONE THEN w ELSE icon
  /\ UNCHANGED <<ui, inbox, worker, record, saved, token, faults>>

\* confirm_startup
Confirm(w) ==
  /\ Current(w) /\ ~ui[w].ready
  /\ ui' = [ui EXCEPT ![w].ready = TRUE]
  /\ UNCHANGED <<life, inbox, worker, restore, tray, icon, record, saved, token, faults>>

\* restore-instances: launch_payload starts a child ...
RestoreChild(w, c) ==
  /\ life[w] # "gone" /\ ui[w].ready /\ Restoring(w) /\ restore[w].child = NONE
  /\ life[c] = "off"
  /\ life' = [life EXCEPT ![c] = "up"]
  /\ restore' = [restore EXCEPT ![w].child = c, ![w].children = @ \cup {c}]
  /\ tray' = Owner(c) /\ icon' = IF tray = NONE THEN c ELSE icon
  /\ UNCHANGED <<ui, inbox, worker, record, saved, token, faults>>

\* ... and waits until it is ready.
ChildReady(w) ==
  /\ life[w] # "gone" /\ restore[w].child # NONE /\ ui[restore[w].child].ready
  /\ restore' = [restore EXCEPT ![w].left = @ - 1, ![w].child = NONE]
  /\ UNCHANGED <<life, ui, inbox, worker, tray, icon, record, saved, token, faults>>

\* A child that cannot be started or does not answer is killed, the rest of the
\* sessions is given up.
RestoreFails(w) ==
  /\ life[w] # "gone" /\ ui[w].ready /\ Restoring(w)
  /\ Fault
  /\ restore' = [restore EXCEPT ![w].left = 0, ![w].child = NONE]
  /\ IF restore[w].child = NONE THEN UNCHANGED <<life, ui, inbox, worker, tray, icon>>
     ELSE Vanishes(restore[w].child)
  /\ UNCHANGED <<record, saved, token>>

\* READY cannot be written, the parent is gone: the child closes again.
ConfirmFails(w) ==
  /\ Current(w) /\ ~ui[w].ready
  /\ \E r \in Window : life[r] = "gone" /\ w \in restore[r].children
  /\ Leaves(w)
  /\ UNCHANGED <<worker, restore, tray, record, saved, token, faults>>

Tick(w) ==
  /\ Current(w) /\ tray = NONE
  /\ tray' = w /\ icon' = w
  /\ UNCHANGED <<life, ui, inbox, worker, restore, record, saved, token, faults>>

----------------------------------------------------------------------------
(* Closing one window.                                                     *)

\* close_routes_to_tray, and coordinator::available after its tick
HidesInTray(w) ==
  /\ w \in MinimizeToTray /\ ~ui[w].exiting
  /\ tray = NONE \/ icon # NONE

\* request_window_close, or a WM_CLOSE of the system, which does not take the
\* order of the close.
RequestClose(w) ==
  /\ life[w] = "up" /\ ~ui[w].closing
  /\ \/ /\ ~HidesInTray(w)
        /\ ui' = [ui EXCEPT ![w].closing = TRUE, ![w].order = IF @ = 0 THEN NextOrder ELSE @]
     \/ ui' = [ui EXCEPT ![w].closing = TRUE]
  /\ UNCHANGED <<life, inbox, worker, restore, tray, icon, record, saved, token, faults>>

\* handle_tray_and_close_events: the window is hidden, and the close cancelled,
\* ...
CancelClose(w) ==
  /\ life[w] = "up" /\ ui[w].closing /\ HidesInTray(w)
  /\ ui' = [ui EXCEPT ![w].closing = FALSE]
  /\ tray' = Owner(w) /\ icon' = IF tray = NONE THEN w ELSE icon
  /\ UNCHANGED <<life, inbox, worker, restore, record, saved, token, faults>>

\* ... or handle_exit begins, and coordinator::shutdown takes the window off the
\* tray.
HandleExit(w) ==
  /\ life[w] = "up" /\ ui[w].closing /\ ~HidesInTray(w)
  /\ Leaves(w)
  /\ UNCHANGED <<worker, restore, tray, record, saved, token, faults>>

\* coordinator::shutdown lets go of the mutex.
Release(w) ==
  /\ life[w] = "down"
  /\ life' = [life EXCEPT ![w] = "free"]
  /\ tray' = IF tray = w THEN NONE ELSE tray
  /\ UNCHANGED <<ui, inbox, worker, restore, icon, record, saved, token, faults>>

\* Mutant: the record of a later close is replaced.
ReplacesAny(order) == TRUE

\* save_at: only a record that is not later is replaced.
Replaces(order) == order >= record.order

Record(order, sessions, group) ==
  [order |-> order, count |-> Cardinality(sessions), sessions |-> sessions, group |-> group]

\* Mutant: the session of a window that leaves with a group is saved as well.
WritesReady(w) == ui[w].ready

\* save_individual: nothing is saved for a window that never was ready, or that
\* leaves with a group.
Writes(w) == ui[w].ready /\ ~ui[w].group

SaveIndividual(w) ==
  /\ life[w] = "free"
  /\ IF ~Writes(w)
       THEN /\ life' = [life EXCEPT ![w] = "left"]
            /\ UNCHANGED <<record, faults>>
       ELSE \/ /\ life' = [life EXCEPT ![w] = "saved"]
               /\ record' = IF Replaces(ui[w].order)
                             THEN Record(ui[w].order, {w}, record.group) ELSE record
               /\ UNCHANGED faults
            \/ /\ Fault
               /\ life' = [life EXCEPT ![w] = "left"]
               /\ UNCHANGED record
  /\ UNCHANGED <<ui, inbox, worker, restore, tray, icon, saved, token>>

End(w) ==
  /\ life[w] \in {"saved", "left"}
  /\ Vanishes(w)
  /\ UNCHANGED <<restore, record, saved, token, faults>>

Crash(w) ==
  /\ life[w] \notin {"off", "gone"}
  /\ Fault
  /\ Vanishes(w)
  /\ UNCHANGED <<restore, record, saved, token>>

----------------------------------------------------------------------------
(* The global exit: the UI threads.                                        *)

\* menu.rs: the owner of the icon asks one window to exit ...
TrayExit(o, w) ==
  /\ icon = o /\ Current(o) /\ Current(w)
  /\ IF o = w
       THEN ui' = [ui EXCEPT ![w] = Exiting(@)] /\ UNCHANGED <<inbox, faults>>
       ELSE \E ok \in BOOLEAN : Send(w, Message("exit", o, 0), ok)
  /\ UNCHANGED <<life, worker, restore, tray, icon, record, saved, token>>

\* ... or, request_all, all of them.
RequestAll(o) ==
  /\ icon = o /\ Current(o) /\ TakesPart(o) /\ ~ui[o].busy /\ Queues(o)
  /\ token < MaxExits
  /\ token' = token + 1
  /\ ui' = [ui EXCEPT ![o].busy = TRUE,
                      ![o].actions = Append(@, Message("exitall", o, token'))]
  /\ UNCHANGED <<life, inbox, worker, restore, tray, icon, record, saved, faults>>

\* session_exit::begin, with the windows there are now.
Begin(o) ==
  LET action == Head(ui[o].actions) IN
  /\ life[o] = "up" /\ ui[o].actions # << >> /\ action.kind = "exitall"
  /\ \/ /\ Current(o)
        /\ LET group == {w \in Window : Current(w)} IN
           /\ ui' = [ui EXCEPT ![o].actions = Tail(@), ![o].prepared = <<o, action.exit>>,
                               ![o].pending = action.exit, ![o].expected = group \ {o},
                               ![o].replies = {o}]
           /\ worker' = [worker EXCEPT ![o] =
                [pc |-> "start", exit |-> action.exit, group |-> group, todo |-> {}, order |-> 0]]
        /\ UNCHANGED faults
     \/ /\ IF Current(o) THEN Fault ELSE UNCHANGED faults
        /\ ui' = [ui EXCEPT ![o].actions = Tail(@), ![o].busy = FALSE,
                            ![o].prepared = IF Current(o) THEN <<NONE, 0>> ELSE @]
        /\ UNCHANGED worker
  /\ UNCHANGED <<life, inbox, restore, tray, icon, record, saved, token>>

\* session_exit::reply
Reply(w) ==
  LET action == Head(ui[w].actions) IN
  /\ life[w] = "up" /\ ui[w].actions # << >> /\ action.kind = "capture"
  /\ IF Current(action.from)
       THEN /\ ui' = [ui EXCEPT ![w].actions = Tail(@),
                                ![w].prepared = <<action.from, action.exit>>]
            /\ \E arrives \in BOOLEAN :
                 Post(action.from, Message("reply", w, action.exit), arrives)
       ELSE /\ ui' = [ui EXCEPT ![w].actions = Tail(@)]
            /\ UNCHANGED <<inbox, faults>>
  /\ UNCHANGED <<life, worker, restore, tray, icon, record, saved, token>>

----------------------------------------------------------------------------
(* The global exit: the session-exit thread of the owner.                  *)

At(o, pc) == life[o] # "gone" /\ worker[o].pc = pc

AllCurrent(o) == \A w \in worker[o].group : Current(w)

\* The windows are looked at again before they are asked.
Identify(o) ==
  /\ At(o, "start")
  /\ worker' = [worker EXCEPT ![o].todo = worker[o].group \ {o},
       ![o].pc = IF ~AllCurrent(o) THEN "fail" ELSE IF worker[o].group = {o} THEN "wait" ELSE "ask"]
  /\ UNCHANGED <<life, ui, inbox, restore, tray, icon, record, saved, token, faults>>

Ask(o, w) ==
  /\ At(o, "ask") /\ w \in worker[o].todo
  /\ \E ok \in BOOLEAN :
       /\ Send(w, Message("request", o, worker[o].exit), ok)
       /\ worker' = [worker EXCEPT ![o].todo = @ \ {w},
            ![o].pc = IF ~ok THEN "fail" ELSE IF worker[o].todo = {w} THEN "wait" ELSE @]
  /\ UNCHANGED <<life, restore, tray, icon, record, saved, token>>

AllReplied(o) == ui[o].replies = worker[o].group

Collect(o) ==
  /\ At(o, "wait") /\ AllReplied(o)
  /\ worker' = IF AllCurrent(o)
                 THEN [worker EXCEPT ![o].pc = "save", ![o].order = NextOrder]
                 ELSE [worker EXCEPT ![o].pc = "fail"]
  /\ UNCHANGED <<life, ui, inbox, restore, tray, icon, record, saved, token, faults>>

\* The ten seconds are over; replies that have not been taken are not looked at.
WaitTimesOut(o) ==
  /\ At(o, "wait") /\ worker[o].group # {o}
  /\ worker' = [worker EXCEPT ![o].pc = "fail"]
  /\ UNCHANGED <<life, ui, inbox, restore, tray, icon, record, saved, token, faults>>

\* Mutant: the windows are closed whether or not their sessions were saved.
CloseAnyway(ok) == "exit"

AfterSave(ok) == IF ok THEN "exit" ELSE "fail"

\* instance_sessions::save
SaveGroup(o) ==
  /\ At(o, "save")
  /\ \E ok \in BOOLEAN :
       /\ IF ok THEN Replaces(worker[o].order) /\ UNCHANGED faults
          ELSE IF Replaces(worker[o].order) THEN Fault ELSE UNCHANGED faults
       /\ record' = IF ok THEN Record(worker[o].order, ui[o].replies,
                                     [order |-> worker[o].order, windows |-> ui[o].replies])
                          ELSE record
       /\ saved' = IF ok THEN [saved EXCEPT ![worker[o].exit] = worker[o].group] ELSE saved
       /\ worker' = [worker EXCEPT ![o].pc = AfterSave(ok), ![o].todo = worker[o].group \ {o}]
  /\ UNCHANGED <<life, ui, inbox, restore, tray, icon, token>>

\* Mutant: a window that does not answer does not stop the exit.
NextWindow(ok) == "exit"

AfterClose(ok) == IF ok THEN "exit" ELSE "fail"

\* exit_windows: the others first; one that has gone meanwhile is passed over, ...
CloseWindow(o, w) ==
  /\ At(o, "exit") /\ w \in worker[o].todo
  /\ IF Current(w)
       THEN \E ok \in BOOLEAN :
              /\ Send(w, Message("close", o, worker[o].exit), ok)
              /\ worker' = [worker EXCEPT ![o].todo = @ \ {w}, ![o].pc = AfterClose(ok)]
       ELSE /\ worker' = [worker EXCEPT ![o].todo = @ \ {w}]
            /\ UNCHANGED <<ui, inbox, faults>>
  /\ UNCHANGED <<life, restore, tray, icon, record, saved, token>>

\* ... and the owner last.
CloseOwner(o) ==
  /\ At(o, "exit") /\ worker[o].todo = {}
  /\ \E ok \in BOOLEAN :
       /\ Send(o, Message("close", o, worker[o].exit), ok)
       /\ worker' = [worker EXCEPT ![o] = IF ok THEN NoWorker ELSE [@ EXCEPT !.pc = "fail"]]
  /\ UNCHANGED <<life, restore, tray, icon, record, saved, token>>

\* SessionExitFailed to the own window.
Fail(o) ==
  /\ At(o, "fail")
  /\ \E arrives \in BOOLEAN :
       /\ Post(o, Message("failed", o, worker[o].exit), arrives)
       /\ worker' = [worker EXCEPT ![o] = IF arrives THEN NoWorker ELSE [@ EXCEPT !.pc = "lost"]]
  /\ UNCHANGED <<life, ui, restore, tray, icon, record, saved, token>>

----------------------------------------------------------------------------
Next ==
  \/ \E w \in Window :
       \/ (\E left \in 0 .. record.count : Launch(w, left)) \/ Confirm(w) \/ ConfirmFails(w)
       \/ ChildReady(w) \/ RestoreFails(w) \/ Tick(w)
       \/ RequestClose(w) \/ CancelClose(w) \/ HandleExit(w)
       \/ Release(w) \/ SaveIndividual(w) \/ End(w) \/ Crash(w)
       \/ RequestAll(w) \/ Begin(w) \/ Reply(w) \/ Deliver(w)
       \/ Identify(w) \/ Collect(w) \/ WaitTimesOut(w) \/ SaveGroup(w) \/ CloseOwner(w) \/ Fail(w)
  \/ \E v, w \in Window :
       RestoreChild(v, w) \/ TrayExit(v, w) \/ Ask(v, w) \/ CloseWindow(v, w)

Spec == Init /\ [][Next]_vars

\* What the UI thread of w does next, and its session-exit thread.
UiStep(w) ==
  Deliver(w) \/ Begin(w) \/ Reply(w) \/ HandleExit(w) \/ Release(w) \/ SaveIndividual(w) \/ End(w)
WorkerStep(o) ==
  \/ Identify(o) \/ Collect(o) \/ WaitTimesOut(o) \/ SaveGroup(o) \/ CloseOwner(o) \/ Fail(o)
  \/ \E w \in Window : Ask(o, w) \/ CloseWindow(o, w)

\* Both threads go on: the UI's loop takes messages and runs frames, and the
\* waits of the session-exit thread are bounded.
FairSpec == Spec /\ \A w \in Window : WF_vars(UiStep(w) \/ WorkerStep(w))

----------------------------------------------------------------------------
(* Properties.                                                             *)

Kinds == {"request", "reply", "close", "failed", "exit"}

\* Every variable has its type; only the process with the mutex shows the icon,
\* and a session-exit thread belongs to an exit that has not been answered.
TypeOK ==
  /\ life \in [Window -> {"off", "up", "down", "free", "saved", "left", "gone"}]
  /\ \A w \in Window :
       /\ ui[w].order \in Nat /\ ui[w].pending \in 0 .. MaxExits
       /\ ui[w].expected \subseteq Window /\ ui[w].replies \subseteq Window
       /\ \A i \in DOMAIN inbox[w] : inbox[w][i].kind \in Kinds
       /\ worker[w].pc \notin {"none", "lost"} => ui[w].busy /\ ui[w].pending = worker[w].exit
       /\ restore[w].left \in Nat /\ restore[w].children \subseteq Window
  /\ icon \in {NONE, tray}
  /\ record.order \in Nat /\ record.count \in Nat \ {0}
  /\ token \in 0 .. MaxExits /\ faults \in 0 .. MaxFaults

\* The exits at which the owner has left with its group.
LeftWith(o) == IF ui[o].group /\ ui[o].prepared[1] = o THEN saved[ui[o].prepared[2]] ELSE {}

\* A window that leaves without saving its own session, because it leaves with
\* a group, is in a group whose sessions were written: whatever failed, timed
\* out or came late (session_exit.rs, close; worker.rs, capture_and_close).
ClosedIsSaved ==
  \A w \in Window : ui[w].group => \E e \in 1 .. token : w \in saved[e]

\* Of the windows that are closed each by itself the last is the record, in the
\* order in which the closes were asked for and not in that in which they were
\* written (instance_sessions.rs:1, "last individual close"; record/tests.rs,
\* an_earlier_close_finishing_late_cannot_replace_the_last_closed_instance).  It
\* is not said of a window of the last group that was saved: there the README of
\* the program says that the group is kept.
LastCloseIsKept ==
  \A w \in Window : life[w] = "saved" /\ w \notin record.group.windows =>
    /\ record.order >= ui[w].order
    /\ record.order = ui[w].order => record.sessions = {w}

\* Once the sessions of a group are saved they stay the record of the next start,
\* however many closes were under way: neither a close that was asked for before
\* nor the teardown of a window that leaves with a group replaces them
\* (README.md:44; session_exit.rs:255, "Individual teardown must not overwrite the
\* saved group"; record/tests.rs, an_old_individual_close_cannot_overwrite_a_newer_
\* global_exit).  The exception is a window that leaves by itself, without the
\* group, and whose close got its order after the group had; where that window is
\* one of the group the exception is against the README's words.
GroupIsKept ==
  record.group.windows # {} =>
    \/ record.order = record.group.order /\ record.sessions = record.group.windows
    \/ /\ record.order > record.group.order
       /\ \E w \in Window : /\ record.sessions = {w} /\ ~ui[w].group
                            /\ life[w] \notin {"off", "up"}

\* What a next start opens is the last window that was closed by itself, or the
\* whole group of a global exit (instance_sessions.rs:1, "Explicit restart policy").
RestartPolicy == LastCloseIsKept /\ GroupIsKept

\* When the owner of the tray leaves with its group, no window of the group
\* stays behind without it, each has accepted its exit or is gone (commands.rs,
\* exit_windows: "Keep the tray owner alive until every peer has accepted"), and
\* none that was restored for one of them stays outside it (session_exit.rs,
\* request_all: "Do not accept a partial global-exit set and leave a new child
\* outside it").
OwnerLeavesLast ==
  \A o \in Window : \A w \in LeftWith(o) :
    \A c \in {w} \cup restore[w].children : ~Current(c)

\* A global exit comes to an end: the process leaves, or it can be asked for
\* again, unless the notice of its failure does not reach its own window.
ExitEnds ==
  \A o \in Window : ui[o].busy ~> ~ui[o].busy \/ life[o] = "gone" \/ worker[o].pc = "lost"
=============================================================================
