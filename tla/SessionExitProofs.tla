------------------------- MODULE SessionExitProofs -------------------------
(***************************************************************************)
(* Theorems about SessionExit, for any number of windows, restored         *)
(* sessions, global exits and faults.                                      *)
(***************************************************************************)
EXTENDS SessionExit, SequenceTheorems, FiniteSetTheorems, WellFoundedInduction, TLAPS

----------------------------------------------------------------------------
(* The first invariant: types, and what is true of a window in each phase. *)

Mail == [kind : Kinds, from : Window, exit : 0 .. MaxExits]
Actions == [kind : {"capture", "exitall"}, from : Window, exit : 0 .. MaxExits]
             \cup {Message("exit", NONE, 0)}
Life == {"off", "up", "down", "free", "saved", "left", "gone"}

Uis == [ready : BOOLEAN, exiting : BOOLEAN, closing : BOOLEAN, order : Nat, group : BOOLEAN,
        prepared : (Window \cup {NONE}) \X (0 .. MaxExits), busy : BOOLEAN,
        pending : 0 .. MaxExits, expected : SUBSET Window, replies : SUBSET Window,
        actions : Seq(Actions)]
Workers == [pc : {"none", "start", "ask", "wait", "save", "exit", "fail", "lost"},
            exit : 0 .. MaxExits, group : SUBSET Window, todo : SUBSET Window, order : Nat]
Restores == [left : Nat, child : Window \cup {NONE}, children : SUBSET Window]
Groups == [order : Nat, windows : SUBSET Window]
Records == [order : Nat, count : Nat \ {0}, sessions : SUBSET Window, group : Groups]

Typed ==
  /\ life \in [Window -> Life] /\ ui \in [Window -> Uis] /\ inbox \in [Window -> Seq(Mail)]
  /\ worker \in [Window -> Workers] /\ restore \in [Window -> Restores]
  /\ tray \in Window \cup {NONE} /\ icon \in Window \cup {NONE}
  /\ record \in Records /\ saved \in [1 .. MaxExits -> SUBSET Window]
  /\ token \in 0 .. MaxExits /\ faults \in 0 .. MaxFaults

\* Some number is beyond every order that was given out.
OrdersBounded == \E n \in Nat :
  record.order <= n /\ \A w \in Window : ui[w].order <= n /\ worker[w].order <= n

IsExitAll(w, i) == ui[w].actions[i].kind = "exitall"
IsFailed(w, i) == inbox[w][i].kind = "failed"

\* What a window holds in each phase of its life.
Phase(w) ==
  /\ life[w] # "up" => ui[w].actions = << >> /\ inbox[w] = << >>
  /\ life[w] = "off" => ui[w] = NewUi /\ worker[w] = NoWorker /\ restore[w] = NoRestore
  /\ life[w] = "gone" => ui[w] = [NewUi EXCEPT !.ready = ui[w].ready] /\ worker[w] = NoWorker
  /\ life[w] \in {"down", "free", "saved", "left"} => ui[w].exiting /\ ui[w].order # 0
  /\ life[w] = "up" /\ ui[w].exiting => ui[w].actions = <<Message("exit", NONE, 0)>>
  /\ ui[w].group => ui[w].exiting

Active(w) == worker[w].pc \notin {"none", "lost"}

\* A process has one global exit at a time: it waits among the actions of the UI,
\* is with the session-exit thread, or its failure is on the way back.
OneExit(w) ==
  /\ Active(w) => /\ ui[w].busy /\ worker[w].exit \in 1 .. token
                  /\ ui[w].pending = worker[w].exit /\ w \in ui[w].replies
  /\ ui[w].pending # 0 => ui[w].busy /\ \A i \in DOMAIN ui[w].actions : ~IsExitAll(w, i)
  /\ \A i \in DOMAIN ui[w].actions : IsExitAll(w, i) =>
       /\ ui[w].busy /\ ui[w].actions[i].exit \in 1 .. token
       /\ \A j \in DOMAIN ui[w].actions : IsExitAll(w, j) => i = j
  /\ \A i \in DOMAIN inbox[w] : IsFailed(w, i) =>
       /\ ui[w].pending = inbox[w][i].exit /\ inbox[w][i].exit # 0 /\ ~Active(w)
       /\ \A j \in DOMAIN inbox[w] : IsFailed(w, j) => i = j

\* The tray belongs to a process that runs, the icon to a window that takes
\* messages, and a process that restores windows has the tray while it runs.
TrayKept ==
  /\ icon \in {NONE, tray}
  /\ tray # NONE => life[tray] \in {"up", "down"}
  /\ icon # NONE => life[icon] = "up"

RestoreKept(w) ==
  /\ (restore[w].left > 0 \/ restore[w].children # {}) /\ life[w] \in {"up", "down"} => tray = w
  /\ restore[w].child # NONE => restore[w].left > 0
  /\ \A c \in restore[w].children : life[c] # "off"

TypeInv == Typed /\ OrdersBounded /\ TrayKept
           /\ \A w \in Window : Phase(w) /\ OneExit(w) /\ RestoreKept(w)

(* The second: an order belongs to one close.                              *)

\* The record is that of the latest close that was written.
LaterIsKept ==
  \A w \in Window : life[w] = "saved" =>
    /\ record.order >= ui[w].order
    /\ record.order = ui[w].order => record.sessions = {w}

\* The order of the last group is nobody else's, and no later than the record's.
GroupApart ==
  /\ record.order >= record.group.order
  /\ \A w \in Window : ui[w].order # 0 => ui[w].order # record.group.order

OrderInv ==
  /\ \A v, w \in Window : ui[v].order # 0 /\ ui[v].order = ui[w].order => v = w
  /\ \A v, w \in Window : worker[v].order # 0 => worker[v].order # ui[w].order
  /\ \A v \in Window : worker[v].pc = "save" => worker[v].order # 0
  /\ LaterIsKept /\ GroupApart

(* The third: who is in a group, and who has left.                         *)

Settled(w) == life[w] # "off" /\ ~Current(w)

\* w restores no windows, and has restored none.
Alone(w) == life[w] # "off" /\ restore[w].left = 0 /\ restore[w].children = {}

\* No window that belongs to those of the group is or will be outside it.
Closed(o, group) ==
  /\ o \in group /\ \A v \in group \ {o} : Alone(v)
  /\ life[o] # "off" /\ restore[o].left = 0
  /\ \A c \in restore[o].children : c \in group \/ Settled(c)

\* The sessions of the exit were saved and all but o have left.
OnlyOwnerLeft(o, e) == Closed(o, saved[e]) /\ \A v \in saved[e] \ {o} : Settled(v)

Unsaved(o, e) ==
  \/ worker[o].pc \in {"start", "ask", "wait", "save"} /\ worker[o].exit = e
  \/ \E i \in DOMAIN ui[o].actions : IsExitAll(o, i) /\ ui[o].actions[i].exit = e

\* A global exit belongs to one process and is saved once.
ExitsApart ==
  /\ \A o \in Window : \A e \in 1 .. token : Unsaved(o, e) =>
       saved[e] = {} /\ \A v \in Window : Unsaved(v, e) => v = o
  /\ \A e \in 1 .. MaxExits : e > token => saved[e] = {}

\* What the thread of o says of its group: it is closed; at the close, it was
\* saved, and the windows that are no longer to be closed have left.
GroupClosed(o) == Active(o) =>
  Closed(o, worker[o].group) /\ worker[o].todo \subseteq worker[o].group \ {o}
ExitSaved(o) == worker[o].pc = "exit" =>
  /\ saved[worker[o].exit] = worker[o].group
  /\ \A v \in worker[o].group \ ({o} \cup worker[o].todo) : Settled(v)
\* A global exit that waits for its frame is that of the owner of the tray.
ExitWaits(o) ==
  (\E i \in DOMAIN ui[o].actions : IsExitAll(o, i)) => tray = o /\ restore[o].left = 0

Grouped(o) == GroupClosed(o) /\ ExitSaved(o) /\ ExitWaits(o)

\* A close says that the window's session is saved, and the one to the owner,
\* that all others have left.
Sound(w, m) == m.kind = "close" =>
  /\ m.exit \in 1 .. token /\ w \in saved[m.exit]
  /\ m.from = w => OnlyOwnerLeft(w, m.exit)

Left(w) == ui[w].group =>
  /\ \E e \in 1 .. token : w \in saved[e]
  /\ ui[w].prepared[1] = w => Sound(w, Message("close", w, ui[w].prepared[2]))

LeaveInv == ExitsApart /\ \A w \in Window :
  Grouped(w) /\ Left(w) /\ \A i \in DOMAIN inbox[w] : Sound(w, inbox[w][i])

----------------------------------------------------------------------------
\* A set of naturals with a bound has a greatest element.
LEMMA Greatest ==
  ASSUME NEW S \in SUBSET Nat, S # {}, NEW n \in Nat, \A y \in S : y <= n
  PROVE  Max(S) \in S /\ \A y \in S : Max(S) >= y
<1> DEFINE T == {m \in Nat : \A y \in S : y <= m}
<1> DEFINE R == OpToRel(<, Nat)
<1>1. PICK m \in T : \A k \in T : ~ (<<k, m>> \in R)
  <2>1. n \in T /\ T \subseteq Nat
    OBVIOUS
  <2> HIDE DEF T
  <2> QED
    BY <2>1, NatLessThanWellFounded, WFMin
<1>2. \A k \in T : ~ (k < m)
  BY <1>1 DEF OpToRel
<1>3. m \in S
  <2> SUFFICES ASSUME m \notin S PROVE FALSE
    OBVIOUS
  <2>1. \A y \in S : y \in Nat /\ y <= m /\ y # m
    OBVIOUS
  <2>2. \A y \in S : y < m
    BY <2>1
  <2>3. m \in Nat
    OBVIOUS
  <2> HIDE DEF T
  <2>4. PICK y \in S : TRUE
    OBVIOUS
  <2>5. m - 1 \in Nat
    BY <2>1, <2>2, <2>3, <2>4
  <2>6. \A x \in S : x <= m - 1
    BY <2>1, <2>2, <2>3
  <2>7. m - 1 \in T
    BY <2>5, <2>6 DEF T
  <2> QED
    BY <1>2, <2>3, <2>7
<1>4. \A y \in S : m >= y
  OBVIOUS
<1> QED
  BY <1>3, <1>4 DEF Max

\* An order that is given out is later than every other.
LEMMA FreshOrder ==
  ASSUME Typed, OrdersBounded
  PROVE  /\ NextOrder \in Nat /\ NextOrder # 0
         /\ NextOrder > record.order
         /\ \A w \in Window : NextOrder > ui[w].order /\ NextOrder > worker[w].order
<1> DEFINE S == {record.order} \cup {ui[w].order : w \in Window}
                  \cup {worker[w].order : w \in Window}
<1>1. /\ record.order \in Nat
      /\ \A w \in Window : ui[w].order \in Nat /\ worker[w].order \in Nat
  BY DEF Typed, Uis, Workers, Records
<1>2. S \in SUBSET Nat /\ S # {}
  BY <1>1
<1>3. PICK n \in Nat : \A y \in S : y <= n
  BY DEF OrdersBounded
<1>4. Max(S) \in S /\ \A y \in S : Max(S) >= y
  <2> HIDE DEF S
  <2> QED
    BY <1>2, <1>3, Greatest
<1>5. NextOrder = 1 + Max(S)
  BY DEF NextOrder
<1>6. Max(S) \in Nat /\ Max(S) >= record.order
      /\ \A w \in Window : Max(S) >= ui[w].order /\ Max(S) >= worker[w].order
  <2>1. record.order \in S /\ \A w \in Window : ui[w].order \in S /\ worker[w].order \in S
    OBVIOUS
  <2> HIDE DEF S
  <2> QED
    BY <1>2, <1>4, <2>1
<1> HIDE DEF S
<1> QED
  BY <1>1, <1>5, <1>6

(* What the handlers make of the state of a window.                        *)

LEMMA ExitingTyped ==
  ASSUME Typed, OrdersBounded, NEW u \in Uis
  PROVE  Exiting(u) \in Uis
<1>1. NextOrder \in Nat
  BY FreshOrder
<1>2. Message("exit", NONE, 0) \in Actions
  BY SessionAssumption DEF Message, Actions
<1>3. <<Message("exit", NONE, 0)>> \in Seq(Actions)
  BY <1>2
<1> QED
  BY <1>1, <1>3 DEF Exiting, Uis

LEMMA HandledTyped ==
  ASSUME Typed, OrdersBounded, NEW w \in Window, NEW m \in Mail
  PROVE  Received(w, m) \in Uis
<1>1. ui[w] \in Uis
  BY DEF Typed
<1>2. m.kind \in Kinds /\ m.from \in Window /\ m.exit \in 0 .. MaxExits
  BY DEF Mail
<1>3. CASE m.kind = "request"
  <2>1. Message("capture", m.from, m.exit) \in Actions
    BY <1>2 DEF Message, Actions
  <2>2. Append(ui[w].actions, Message("capture", m.from, m.exit)) \in Seq(Actions)
    BY <1>1, <2>1 DEF Uis
  <2> QED
    BY <1>1, <1>3, <2>2 DEF Received, Handled, Uis
<1>4. CASE m.kind = "reply"
  BY <1>1, <1>2, <1>4 DEF Received, Handled, Uis
<1>5. CASE m.kind = "close"
  <2>1. Exiting(ui[w]) \in Uis
    BY <1>1, ExitingTyped
  <2> QED
    BY <1>1, <1>5, <2>1 DEF Received, Handled, Uis
<1>6. CASE m.kind = "failed"
  <2>1. FailedExit(ui[w]) \in Uis
    <3>1. 0 \in 0 .. MaxExits
      BY SessionAssumption
    <3>2. <<NONE, 0>> \in (Window \cup {NONE}) \X (0 .. MaxExits)
      BY <3>1
    <3> QED
      BY <1>1, <3>1, <3>2 DEF FailedExit, Uis
  <2> QED
    BY <1>1, <1>6, <2>1 DEF Received, Handled
<1>7. CASE m.kind = "exit"
  BY <1>1, <1>7, ExitingTyped DEF Received, Handled
<1> QED
  BY <1>2, <1>3, <1>4, <1>5, <1>6, <1>7 DEF Kinds

LEMMA NewTyped == NewUi \in Uis /\ NoWorker \in Workers /\ NoRestore \in Restores
<1>1. << >> \in Seq(Actions)
  OBVIOUS
<1> QED
  BY <1>1, SessionAssumption DEF NewUi, NoWorker, NoRestore, Uis, Workers, Restores

LEMMA OfWindow ==
  ASSUME Typed, NEW w \in Window
  PROVE  /\ ui[w] \in Uis /\ worker[w] \in Workers /\ restore[w] \in Restores
         /\ inbox[w] \in Seq(Mail) /\ life[w] \in Life
BY DEF Typed

(* Every step keeps the types.                                             *)

LEMMA FaultTyped ==
  ASSUME Typed, Fault \/ UNCHANGED faults
  PROVE  faults' \in 0 .. MaxFaults
BY SessionAssumption DEF Typed, Fault

\* The part of the state that the windows hold.
WindowsTyped ==
  /\ life \in [Window -> Life] /\ ui \in [Window -> Uis] /\ inbox \in [Window -> Seq(Mail)]
  /\ worker \in [Window -> Workers]
  /\ tray \in Window \cup {NONE} /\ icon \in Window \cup {NONE}

LEMMA VanishesTyped ==
  ASSUME Typed, NEW w \in Window, Vanishes(w)
  PROVE  WindowsTyped'
<1>1. ui[w].ready \in BOOLEAN
  BY DEF Typed, Uis
<1>2. [NewUi EXCEPT !.ready = ui[w].ready] \in Uis
  BY <1>1, NewTyped DEF Uis
<1>3. ui' = [ui EXCEPT ![w] = [NewUi EXCEPT !.ready = ui[w].ready]]
  BY DEF Vanishes
<1>4. ui' \in [Window -> Uis]
  BY <1>2, <1>3 DEF Typed
<1>5. worker' \in [Window -> Workers]
  BY NewTyped DEF Vanishes, Typed
<1>6. inbox' \in [Window -> Seq(Mail)]
  BY DEF Vanishes, Typed
<1> QED
  BY <1>4, <1>5, <1>6 DEF Vanishes, Typed, WindowsTyped, Life

LEMMA LeavesTyped ==
  ASSUME Typed, OrdersBounded, NEW w \in Window, Leaves(w)
  PROVE  /\ life' \in [Window -> Life] /\ ui' \in [Window -> Uis]
         /\ inbox' \in [Window -> Seq(Mail)] /\ icon' \in Window \cup {NONE}
<1>1. ui'[w] \in Uis /\ ui' = [ui EXCEPT ![w] = ui'[w]]
  <2>1. NextOrder \in Nat /\ ui[w] \in Uis /\ << >> \in Seq(Actions)
    BY FreshOrder DEF Typed
  <2> DEFINE u == [ui[w] EXCEPT !.exiting = TRUE, !.order = IF @ = 0 THEN NextOrder ELSE @,
                                !.actions = << >>, !.closing = FALSE]
  <2>2. ui' = [ui EXCEPT ![w] = u]
    BY DEF Leaves
  <2>3. u \in Uis
    BY <2>1 DEF Uis
  <2> HIDE DEF u
  <2> QED
    BY <2>2, <2>3 DEF Typed
<1>2. ui' \in [Window -> Uis]
  BY <1>1 DEF Typed
<1>3. inbox' \in [Window -> Seq(Mail)]
  BY DEF Leaves, Typed
<1> QED
  BY <1>2, <1>3 DEF Leaves, Typed, Life

LEMMA SendTyped ==
  ASSUME Typed, OrdersBounded, NEW to \in Window, NEW m \in Mail, NEW ok \in BOOLEAN,
         Send(to, m, ok)
  PROVE  /\ ui' \in [Window -> Uis] /\ inbox' \in [Window -> Seq(Mail)]
         /\ faults' \in 0 .. MaxFaults
<1>1. Received(to, m) \in Uis
  BY HandledTyped
<1>2. Append(inbox[to], m) \in Seq(Mail)
  BY DEF Typed
<1>3. ui' = ui \/ ui' = [ui EXCEPT ![to] = Received(to, m)]
  BY DEF Send
<1>4. inbox' = inbox \/ inbox' = [inbox EXCEPT ![to] = Append(inbox[to], m)]
  BY DEF Send
<1>5. faults' \in 0 .. MaxFaults
  BY FaultTyped DEF Send
<1> QED
  BY <1>1, <1>2, <1>3, <1>4, <1>5 DEF Typed

LEMMA PostTyped ==
  ASSUME Typed, NEW to \in Window, NEW m \in Mail, NEW arrives \in BOOLEAN,
         Post(to, m, arrives)
  PROVE  inbox' \in [Window -> Seq(Mail)] /\ faults' \in 0 .. MaxFaults
<1>1. Append(inbox[to], m) \in Seq(Mail)
  BY DEF Typed
<1>2. inbox' = inbox \/ inbox' = [inbox EXCEPT ![to] = Append(inbox[to], m)]
  BY DEF Post
<1>3. faults' \in 0 .. MaxFaults
  BY FaultTyped DEF Post
<1> QED
  BY <1>1, <1>2, <1>3 DEF Typed

\* What the session-exit thread sends and the owner of the icon.
LEMMA MailTyped ==
  ASSUME NEW kind \in Kinds, NEW o \in Window, NEW e \in 0 .. MaxExits
  PROVE  Message(kind, o, e) \in Mail
BY DEF Message, Mail

LEMMA InitTyped == Init => Typed
<1> SUFFICES ASSUME Init PROVE Typed
  OBVIOUS
<1>1. [w \in Window |-> << >>] \in [Window -> Seq(Mail)]
  OBVIOUS
<1> QED
  BY <1>1, NewTyped, SessionAssumption DEF Init, Typed, Life, Records, Groups

LEMMA StartsTyped ==
  ASSUME Typed, OrdersBounded, NEW w \in Window, RestoreKept(w),
         \/ \E left \in 0 .. record.count : Launch(w, left)
         \/ \E v \in Window : RestoreChild(v, w)
         \/ Confirm(w) \/ ConfirmFails(w) \/ ChildReady(w) \/ RestoreFails(w) \/ Tick(w)
  PROVE  Typed'
<1>1. ASSUME NEW left \in 0 .. record.count, Launch(w, left) PROVE Typed'
  <2>1. restore[w] \in Restores /\ left \in Nat
    BY DEF Typed, Records
  <2>2. [restore[w] EXCEPT !.left = left] \in Restores
    BY <2>1 DEF Restores
  <2>3. restore' = [restore EXCEPT ![w] = [restore[w] EXCEPT !.left = left]]
    BY <1>1 DEF Launch
  <2>4. restore' \in [Window -> Restores]
    BY <2>2, <2>3 DEF Typed
  <2> QED
    BY <1>1, <2>4 DEF Launch, Typed, Life, Owner
<1>2. ASSUME NEW v \in Window, RestoreChild(v, w) PROVE Typed'
  <2>1. restore[v] \in Restores
    BY DEF Typed
  <2> DEFINE r == [restore[v] EXCEPT !.child = w, !.children = @ \cup {w}]
  <2>2. r \in Restores /\ restore' = [restore EXCEPT ![v] = r]
    BY <1>2, <2>1 DEF RestoreChild, Restores
  <2>3. restore' \in [Window -> Restores]
    BY <2>2 DEF Typed
  <2> QED
    BY <1>2, <2>3 DEF RestoreChild, Typed, Life, Owner
<1>3. CASE Confirm(w)
  <2>1. ui[w] \in Uis
    BY OfWindow
  <2>2. [ui[w] EXCEPT !.ready = TRUE] \in Uis
    BY <2>1 DEF Uis
  <2> QED
    BY <1>3, <2>2 DEF Confirm, Typed
<1>4. CASE ConfirmFails(w)
  BY <1>4, LeavesTyped DEF ConfirmFails, Typed
<1>5. CASE ChildReady(w)
  <2>1. [restore[w] EXCEPT !.left = @ - 1, !.child = NONE] \in Restores
    <3>1. restore[w] \in Restores /\ restore[w].left > 0
      BY <1>5, OfWindow DEF ChildReady, RestoreKept
    <3>2. restore[w].left - 1 \in Nat
      BY <3>1 DEF Restores
    <3> QED
      BY <3>1, <3>2 DEF Restores
  <2> QED
    BY <1>5, <2>1 DEF ChildReady, Typed
<1>6. CASE RestoreFails(w)
  <2>1. [restore[w] EXCEPT !.left = 0, !.child = NONE] \in Restores
    BY OfWindow DEF Restores
  <2>2. WindowsTyped'
    <3>1. CASE restore[w].child = NONE
      BY <1>6, <3>1 DEF RestoreFails, Typed, WindowsTyped
    <3>2. CASE restore[w].child # NONE
      BY <1>6, <3>2, VanishesTyped DEF RestoreFails, Typed, Restores
    <3> QED
      BY <3>1, <3>2
  <2> QED
    BY <1>6, <2>1, <2>2, FaultTyped DEF RestoreFails, Typed, WindowsTyped
<1>7. CASE Tick(w)
  BY <1>7 DEF Tick, Typed
<1> QED
  BY <1>1, <1>2, <1>3, <1>4, <1>5, <1>6, <1>7

LEMMA ClosesTyped ==
  ASSUME Typed, OrdersBounded, NEW w \in Window,
         \/ RequestClose(w) \/ CancelClose(w) \/ HandleExit(w) \/ Release(w)
         \/ SaveIndividual(w) \/ End(w) \/ Crash(w)
  PROVE  Typed'
<1>1. CASE RequestClose(w)
  <2>1. ui[w] \in Uis /\ NextOrder \in Nat
    BY OfWindow, FreshOrder
  <2>2. [ui[w] EXCEPT !.closing = TRUE, !.order = IF @ = 0 THEN NextOrder ELSE @] \in Uis
        /\ [ui[w] EXCEPT !.closing = TRUE] \in Uis
    BY <2>1 DEF Uis
  <2>3. ui' \in [Window -> Uis]
    BY <1>1, <2>2 DEF RequestClose, Typed
  <2> QED
    BY <1>1, <2>3 DEF RequestClose, Typed
<1>2. CASE CancelClose(w)
  <2>1. ui[w] \in Uis
    BY OfWindow
  <2>2. [ui[w] EXCEPT !.closing = FALSE] \in Uis
    BY <2>1 DEF Uis
  <2> QED
    BY <1>2, <2>2 DEF CancelClose, Typed, Owner
<1>3. CASE HandleExit(w)
  BY <1>3, LeavesTyped DEF HandleExit, Typed
<1>4. CASE Release(w)
  BY <1>4 DEF Release, Typed, Life
<1>5. CASE SaveIndividual(w)
  <2>1. Record(ui[w].order, {w}, record.group) \in Records
    <3>1. Cardinality({w}) = 1
      BY FS_Singleton
    <3>2. record.group \in Groups
      BY DEF Typed, Records
    <3> QED
      BY <3>1, <3>2, OfWindow DEF Record, Records, Uis
  <2>2. record' \in Records /\ life' \in [Window -> Life]
    BY <1>5, <2>1 DEF SaveIndividual, Typed, Life
  <2>3. faults' \in 0 .. MaxFaults
    BY <1>5, FaultTyped DEF SaveIndividual
  <2> QED
    BY <1>5, <2>2, <2>3 DEF SaveIndividual, Typed
<1>6. CASE End(w)
  BY <1>6, VanishesTyped DEF End, Typed, WindowsTyped
<1>7. CASE Crash(w)
  BY <1>7, VanishesTyped, FaultTyped DEF Crash, Typed, WindowsTyped
<1> QED
  BY <1>1, <1>2, <1>3, <1>4, <1>5, <1>6, <1>7

LEMMA FramesTyped ==
  ASSUME Typed, OrdersBounded, NEW w \in Window,
         RequestAll(w) \/ Begin(w) \/ Reply(w) \/ Deliver(w)
  PROVE  Typed'
<1>0. ui[w] \in Uis /\ inbox[w] \in Seq(Mail)
  BY OfWindow
<1>1. CASE RequestAll(w)
  <2>1. token' \in 0 .. MaxExits
    BY <1>1, SessionAssumption DEF RequestAll, Typed
  <2>2. Message("exitall", w, token') \in Actions
    BY <2>1 DEF Message, Actions
  <2>3. Append(ui[w].actions, Message("exitall", w, token')) \in Seq(Actions)
    BY <1>0, <2>2 DEF Uis
  <2>4. [ui[w] EXCEPT !.busy = TRUE, !.actions = Append(@, Message("exitall", w, token'))] \in Uis
    BY <1>0, <2>3 DEF Uis
  <2> QED
    BY <1>1, <2>1, <2>4 DEF RequestAll, Typed
<1>2. CASE Begin(w)
  <2> DEFINE a == Head(ui[w].actions)
             g == {v \in Window : Current(v)}
             u == [ui[w] EXCEPT !.actions = Tail(@), !.prepared = <<w, a.exit>>,
                                !.pending = a.exit, !.expected = g \ {w}, !.replies = {w}]
             n == [ui[w] EXCEPT !.actions = Tail(@), !.busy = FALSE,
                                !.prepared = IF Current(w) THEN <<NONE, 0>> ELSE @]
             k == [pc |-> "start", exit |-> a.exit, group |-> g, todo |-> {}, order |-> 0]
  <2>1. a \in Actions /\ Tail(ui[w].actions) \in Seq(Actions)
    <3>1. ui[w].actions \in Seq(Actions) /\ ui[w].actions # << >>
      BY <1>0, <1>2 DEF Begin, Uis
    <3> QED
      BY <3>1, HeadTailProperties
  <2>2. a.exit \in 0 .. MaxExits /\ 0 \in 0 .. MaxExits
    BY <2>1, SessionAssumption DEF Actions, Message
  <2>3. <<w, a.exit>> \in (Window \cup {NONE}) \X (0 .. MaxExits)
        /\ <<NONE, 0>> \in (Window \cup {NONE}) \X (0 .. MaxExits)
    BY <2>2
  <2>4. g \in SUBSET Window
    OBVIOUS
  <2> HIDE DEF a, g
  <2>5. u \in Uis /\ n \in Uis
    BY <1>0, <2>1, <2>2, <2>3, <2>4 DEF Uis
  <2>6. k \in Workers
    BY <2>2, <2>4 DEF Workers
  <2>7. \/ ui' = [ui EXCEPT ![w] = u] /\ worker' = [worker EXCEPT ![w] = k]
        \/ ui' = [ui EXCEPT ![w] = n] /\ worker' = worker
    BY <1>2 DEF Begin, a, g
  <2> HIDE DEF u, n, k
  <2>8. ui' \in [Window -> Uis] /\ worker' \in [Window -> Workers]
    BY <2>5, <2>6, <2>7 DEF Typed
  <2>9. faults' \in 0 .. MaxFaults
    BY <1>2, FaultTyped DEF Begin
  <2> QED
    BY <1>2, <2>8, <2>9 DEF Begin, Typed
<1>3. CASE Reply(w)
  <2> DEFINE a == Head(ui[w].actions)
  <2>1. a \in Actions /\ Tail(ui[w].actions) \in Seq(Actions)
    <3>1. ui[w].actions \in Seq(Actions) /\ ui[w].actions # << >>
      BY <1>0, <1>3 DEF Reply, Uis
    <3> QED
      BY <3>1, HeadTailProperties
  <2>2. a.exit \in 0 .. MaxExits /\ a.from \in Window
    BY <1>3, <2>1 DEF Reply, Actions, Message
  <2> HIDE DEF a
  <2>3. <<a.from, a.exit>> \in (Window \cup {NONE}) \X (0 .. MaxExits)
    BY <2>2
  <2>4. [ui[w] EXCEPT !.actions = Tail(@)] \in Uis
        /\ [ui[w] EXCEPT !.actions = Tail(@), !.prepared = <<a.from, a.exit>>] \in Uis
    BY <1>0, <2>1, <2>3 DEF Uis
  <2>5. ui' \in [Window -> Uis]
    BY <1>3, <2>4 DEF Reply, Typed, a
  <2>6. inbox' \in [Window -> Seq(Mail)] /\ faults' \in 0 .. MaxFaults
    <3>1. CASE Current(a.from)
      <4>1. PICK arrives \in BOOLEAN : Post(a.from, Message("reply", w, a.exit), arrives)
        BY <1>3, <3>1 DEF Reply, a
      <4>2. Message("reply", w, a.exit) \in Mail
        BY <2>2 DEF Message, Mail, Kinds
      <4> QED
        BY <2>2, <4>1, <4>2, PostTyped
    <3>2. CASE ~Current(a.from)
      BY <1>3, <3>2 DEF Reply, a, Typed
    <3> QED
      BY <2>2, <3>1, <3>2
  <2> QED
    BY <1>3, <2>5, <2>6 DEF Reply, Typed
<1>4. CASE Deliver(w)
  <2>1. inbox[w] \in Seq(Mail) /\ inbox[w] # << >>
    BY <1>0, <1>4 DEF Deliver
  <2>2. Head(inbox[w]) \in Mail /\ Tail(inbox[w]) \in Seq(Mail)
    BY <2>1, HeadTailProperties
  <2>3. Received(w, Head(inbox[w])) \in Uis
    BY <2>2, HandledTyped
  <2> QED
    BY <1>4, <2>2, <2>3 DEF Deliver, Typed
<1> QED
  BY <1>1, <1>2, <1>3, <1>4

LEMMA WorkersTyped ==
  ASSUME Typed, OrdersBounded, NEW o \in Window, OneExit(o),
         \/ \E w \in Window : TrayExit(o, w) \/ Ask(o, w) \/ CloseWindow(o, w)
         \/ Identify(o) \/ Collect(o) \/ WaitTimesOut(o) \/ SaveGroup(o) \/ CloseOwner(o) \/ Fail(o)
  PROVE  Typed'
<1>0. /\ worker[o] \in Workers /\ ui[o] \in Uis /\ worker[o].exit \in 0 .. MaxExits
      /\ worker[o].group \in SUBSET Window /\ worker[o].todo \in SUBSET Window
      /\ 0 \in 0 .. MaxExits
  BY OfWindow, SessionAssumption DEF Workers
<1>1. \A kind \in Kinds : /\ Message(kind, o, worker[o].exit) \in Mail
                          /\ Message(kind, o, 0) \in Mail
  BY <1>0 DEF Message, Mail
<1>2. ASSUME NEW w \in Window, TrayExit(o, w) PROVE Typed'
  <2>1. CASE o = w
    <3>1. Exiting(ui[w]) \in Uis
      BY <1>0, <2>1, ExitingTyped
    <3> QED
      BY <1>2, <2>1, <3>1 DEF TrayExit, Typed
  <2>2. CASE o # w
    <3>1. PICK ok \in BOOLEAN : Send(w, Message("exit", o, 0), ok)
      BY <1>2, <2>2 DEF TrayExit
    <3>2. Message("exit", o, 0) \in Mail
      BY <1>1 DEF Kinds
    <3> QED
      BY <1>2, <3>1, <3>2, SendTyped DEF TrayExit, Typed
  <2> QED
    BY <2>1, <2>2
<1>3. ASSUME NEW w \in Window, Ask(o, w) PROVE Typed'
  <2>1. PICK ok \in BOOLEAN :
          /\ Send(w, Message("request", o, worker[o].exit), ok)
          /\ worker' = [worker EXCEPT ![o].todo = @ \ {w},
               ![o].pc = IF ~ok THEN "fail" ELSE IF worker[o].todo = {w} THEN "wait" ELSE @]
    BY <1>3 DEF Ask
  <2>2. Message("request", o, worker[o].exit) \in Mail
    BY <1>1 DEF Kinds
  <2>3. [worker[o] EXCEPT !.todo = @ \ {w},
           !.pc = IF ~ok THEN "fail" ELSE IF worker[o].todo = {w} THEN "wait" ELSE @] \in Workers
    BY <1>0 DEF Workers
  <2>4. worker' \in [Window -> Workers]
    BY <2>1, <2>3 DEF Typed
  <2>5. /\ ui' \in [Window -> Uis] /\ inbox' \in [Window -> Seq(Mail)]
        /\ faults' \in 0 .. MaxFaults
    BY <2>1, <2>2, SendTyped
  <2> QED
    BY <1>3, <2>4, <2>5 DEF Ask, Typed
<1>4. ASSUME NEW w \in Window, CloseWindow(o, w) PROVE Typed'
  <2>1. CASE ~Current(w)
    <3>1. [worker[o] EXCEPT !.todo = @ \ {w}] \in Workers
      BY <1>0 DEF Workers
    <3> QED
      BY <1>4, <2>1, <3>1 DEF CloseWindow, Typed
  <2>2. CASE Current(w)
    <3>1. PICK ok \in BOOLEAN :
            /\ Send(w, Message("close", o, worker[o].exit), ok)
            /\ worker' = [worker EXCEPT ![o].todo = @ \ {w}, ![o].pc = AfterClose(ok)]
      BY <1>4, <2>2 DEF CloseWindow
    <3>2. Message("close", o, worker[o].exit) \in Mail
      BY <1>1 DEF Kinds
    <3>3. [worker[o] EXCEPT !.todo = @ \ {w}, !.pc = AfterClose(ok)] \in Workers
      BY <1>0 DEF Workers, AfterClose
    <3>4. worker' \in [Window -> Workers]
      BY <3>1, <3>3 DEF Typed
    <3>5. /\ ui' \in [Window -> Uis] /\ inbox' \in [Window -> Seq(Mail)]
          /\ faults' \in 0 .. MaxFaults
      BY <3>1, <3>2, SendTyped
    <3> QED
      BY <1>4, <3>4, <3>5 DEF CloseWindow, Typed
  <2> QED
    BY <2>1, <2>2
<1>5. CASE Identify(o)
  <2> DEFINE k == [worker[o] EXCEPT !.todo = worker[o].group \ {o},
       !.pc = IF ~AllCurrent(o) THEN "fail" ELSE IF worker[o].group = {o} THEN "wait" ELSE "ask"]
  <2>1. k \in Workers
    BY <1>0 DEF Workers
  <2>2. worker' = [worker EXCEPT ![o] = k]
    BY <1>5 DEF Identify
  <2> HIDE DEF k
  <2> QED
    BY <1>5, <2>1, <2>2 DEF Identify, Typed
<1>6. CASE Collect(o)
  <2>1. NextOrder \in Nat
    BY FreshOrder
  <2>2. [worker[o] EXCEPT !.pc = "save", !.order = NextOrder] \in Workers
        /\ [worker[o] EXCEPT !.pc = "fail"] \in Workers
    BY <1>0, <2>1 DEF Workers
  <2> QED
    BY <1>6, <2>2 DEF Collect, Typed
<1>7. CASE WaitTimesOut(o)
  <2>1. [worker[o] EXCEPT !.pc = "fail"] \in Workers
    BY <1>0 DEF Workers
  <2> QED
    BY <1>7, <2>1 DEF WaitTimesOut, Typed
<1>8. CASE SaveGroup(o)
  <2>1. PICK ok \in BOOLEAN :
       /\ IF ok THEN Replaces(worker[o].order) /\ UNCHANGED faults
          ELSE IF Replaces(worker[o].order) THEN Fault ELSE UNCHANGED faults
       /\ record' = IF ok THEN Record(worker[o].order, ui[o].replies,
                                     [order |-> worker[o].order, windows |-> ui[o].replies])
                          ELSE record
       /\ saved' = IF ok THEN [saved EXCEPT ![worker[o].exit] = worker[o].group] ELSE saved
       /\ worker' = [worker EXCEPT ![o].pc = AfterSave(ok), ![o].todo = worker[o].group \ {o}]
    BY <1>8 DEF SaveGroup
  <2>2. [worker[o] EXCEPT !.pc = AfterSave(ok), !.todo = worker[o].group \ {o}] \in Workers
    BY <1>0 DEF Workers, AfterSave
  <2>3. worker' \in [Window -> Workers]
    BY <2>1, <2>2 DEF Typed
  <2>4. Record(worker[o].order, ui[o].replies,
               [order |-> worker[o].order, windows |-> ui[o].replies]) \in Records
    <3>1. ui[o].replies \in SUBSET Window /\ worker[o].order \in Nat
      BY <1>0 DEF Uis, Workers
    <3>2. IsFiniteSet(ui[o].replies)
      BY <3>1, FS_Subset, SessionAssumption
    <3>3. o \in ui[o].replies
      BY <1>8 DEF SaveGroup, At, OneExit, Active
    <3>4. Cardinality(ui[o].replies) \in Nat \ {0}
      BY <3>2, <3>3, FS_CardinalityType, FS_EmptySet
    <3> QED
      BY <3>1, <3>4 DEF Record, Records, Groups
  <2>5. saved' \in [1 .. MaxExits -> SUBSET Window]
    BY <1>0, <2>1 DEF Typed
  <2>6. faults' \in 0 .. MaxFaults
    BY <2>1, FaultTyped
  <2> QED
    BY <1>8, <2>1, <2>3, <2>4, <2>5, <2>6 DEF SaveGroup, Typed
<1>9. CASE CloseOwner(o)
  <2>1. PICK ok \in BOOLEAN :
          /\ Send(o, Message("close", o, worker[o].exit), ok)
          /\ worker' = [worker EXCEPT ![o] = IF ok THEN NoWorker ELSE [@ EXCEPT !.pc = "fail"]]
    BY <1>9 DEF CloseOwner
  <2>2. Message("close", o, worker[o].exit) \in Mail
    BY <1>1 DEF Kinds
  <2>3. [worker[o] EXCEPT !.pc = "fail"] \in Workers /\ NoWorker \in Workers
    BY <1>0, NewTyped DEF Workers
  <2>4. worker' \in [Window -> Workers]
    BY <2>1, <2>3 DEF Typed
  <2> QED
    BY <1>9, <2>1, <2>2, <2>4, SendTyped DEF CloseOwner, Typed
<1>10. CASE Fail(o)
  <2>1. PICK arrives \in BOOLEAN :
         /\ Post(o, Message("failed", o, worker[o].exit), arrives)
         /\ worker' = [worker EXCEPT ![o] = IF arrives THEN NoWorker ELSE [@ EXCEPT !.pc = "lost"]]
    BY <1>10 DEF Fail
  <2>2. Message("failed", o, worker[o].exit) \in Mail
    BY <1>1 DEF Kinds
  <2>3. [worker[o] EXCEPT !.pc = "lost"] \in Workers /\ NoWorker \in Workers
    BY <1>0, NewTyped DEF Workers
  <2>4. worker' \in [Window -> Workers]
    BY <2>1, <2>3 DEF Typed
  <2> QED
    BY <1>10, <2>1, <2>2, <2>4, PostTyped DEF Fail, Typed
<1> QED
  BY <1>2, <1>3, <1>4, <1>5, <1>6, <1>7, <1>8, <1>9, <1>10

(* The tray, the icon and the windows that restore others.                 *)

TrayInv == TrayKept /\ \A w \in Window : RestoreKept(w) /\ Phase(w)

\* What TrayKept and RestoreKept say, once the lives are as they were but for one
\* window that leaves or ends.
LEMMA TrayFrame ==
  ASSUME TrayInv, UNCHANGED <<life, restore, tray, icon>>
  PROVE  TrayKept' /\ \A w \in Window : RestoreKept(w)'
BY DEF TrayInv, TrayKept, RestoreKept

LEMMA TrayStarts ==
  ASSUME Typed, TrayInv, NEW c \in Window, life[c] = "off",
         life' = [life EXCEPT ![c] = "up"],
         tray' = Owner(c), icon' = IF tray = NONE THEN c ELSE icon
  PROVE  /\ TrayKept'
         /\ \A v \in Window : life[v] \in {"up", "down"} /\ tray = v => tray' = v
<1>1. c # tray
  BY SessionAssumption DEF TrayInv, TrayKept
<1>2. tray' = IF tray = NONE THEN c ELSE tray
  BY DEF Owner
<1> QED
  BY <1>1, <1>2, SessionAssumption DEF TrayInv, TrayKept, Typed

LEMMA TrayLaunch ==
  ASSUME Typed, TrayInv, NEW w \in Window, NEW left \in 0 .. record.count, Launch(w, left)
  PROVE  TrayKept' /\ \A v \in Window : RestoreKept(v)'
<1>1. TrayKept' /\ \A v \in Window : life[v] \in {"up", "down"} /\ tray = v => tray' = v
  BY TrayStarts DEF Launch
<1>2. RestoreKept(w)'
  <2>1. restore[w] = NoRestore /\ restore'[w] = [NoRestore EXCEPT !.left = left]
    BY DEF Launch, TrayInv, Phase, Typed
  <2>2. restore'[w].left = left /\ restore'[w].child = NONE /\ restore'[w].children = {}
    BY <2>1 DEF NoRestore
  <2>3. left > 0 => tray' = w
    <3> SUFFICES ASSUME left > 0 PROVE tray' = w
      OBVIOUS
    <3>1. \A v \in Window : life[v] \in {"off", "gone"}
      BY DEF Launch
    <3>2. tray = NONE
      BY <3>1 DEF TrayInv, TrayKept, Typed
    <3> QED
      BY <3>2 DEF Launch, Owner
  <2> QED
    BY <2>2, <2>3 DEF RestoreKept
<1>3. ASSUME NEW v \in Window, v # w PROVE RestoreKept(v)'
  <2>1. restore'[v] = restore[v] /\ life'[v] = life[v]
        /\ \A c \in Window : life[c] # "off" => life'[c] # "off"
    BY <1>3 DEF Launch, Typed
  <2>2. restore[v].children \subseteq Window
    BY OfWindow DEF Restores
  <2>3. RestoreKept(v)
    BY DEF TrayInv
  <2> QED
    BY <1>1, <2>1, <2>2, <2>3 DEF RestoreKept
<1> QED
  BY <1>1, <1>2, <1>3

LEMMA TrayRestoreChild ==
  ASSUME Typed, TrayInv, NEW w \in Window, NEW c \in Window, RestoreChild(w, c)
  PROVE  TrayKept' /\ \A v \in Window : RestoreKept(v)'
<1>1. TrayKept' /\ \A v \in Window : life[v] \in {"up", "down"} /\ tray = v => tray' = v
  BY TrayStarts DEF RestoreChild
<1>2. w # c
  <2>1. restore[c] = NoRestore
    BY DEF RestoreChild, TrayInv, Phase
  <2> QED
    BY <2>1 DEF RestoreChild, Restoring, NoRestore
<1>3. life'[c] = "up" /\ \A v \in Window \ {c} : life'[v] = life[v]
  BY DEF RestoreChild, Typed
<1>4. restore' = [restore EXCEPT ![w] = [restore[w] EXCEPT !.child = c, !.children = @ \cup {c}]]
  BY DEF RestoreChild
<1>5. ASSUME NEW v \in Window PROVE RestoreKept(v)'
  <2>0. restore[v] \in Restores /\ restore[w] \in Restores
    BY OfWindow
  <2>1. /\ restore'[v].left = restore[v].left
        /\ restore'[v].children \in {restore[v].children, restore[v].children \cup {c}}
        /\ restore'[v].child # restore[v].child => v = w
        /\ v # w => restore'[v] = restore[v]
    BY <1>4, <2>0 DEF Typed, Restores
  <2>2. restore[w].left > 0
    BY DEF RestoreChild, Restoring
  <2>3. v = c => restore'[v] = NoRestore
    BY <1>2, <2>1 DEF RestoreChild, TrayInv, Phase
  <2>4. RestoreKept(v)
    BY DEF TrayInv
  <2>5. CASE v = c
    BY <2>3, <2>5 DEF RestoreKept, NoRestore
  <2>6. CASE v # c
    <3>1. life'[v] = life[v] /\ life[c] = "off"
      BY <1>3, <2>6 DEF RestoreChild
    <3>2. restore[v].children \subseteq Window
      BY <2>0 DEF Restores
    <3>3. \A b \in restore'[v].children : life'[b] # "off"
      BY <1>3, <2>1, <2>4, <3>2 DEF RestoreKept
    <3>4. restore'[v].left > 0 \/ restore'[v].children # {} =>
            restore[v].left > 0 \/ restore[v].children # {}
      BY <2>1, <2>2
    <3>5. restore'[v].child # NONE => restore'[v].left > 0
      BY <2>1, <2>2, <2>4 DEF RestoreKept
    <3> QED
      BY <1>1, <2>4, <3>1, <3>3, <3>4, <3>5 DEF RestoreKept
  <2> QED
    BY <2>5, <2>6
<1> QED
  BY <1>1, <1>5

\* A window that leaves, frees the tray or ends.
Ending(w) ==
  /\ \A v \in Window \ {w} : life'[v] = life[v]
  /\ life'[w] \in Life \ {"off"}
  /\ \/ /\ life[w] \in {"free", "saved", "left"} /\ life'[w] \in {"saved", "left"}
        /\ UNCHANGED <<tray, icon>>
     \/ /\ life[w] = "up" /\ life'[w] = "down" /\ UNCHANGED tray
        /\ icon' = IF icon = w THEN NONE ELSE icon
     \/ /\ life[w] = "down" /\ life'[w] = "free" /\ UNCHANGED icon
        /\ tray' = IF tray = w THEN NONE ELSE tray
     \/ /\ life'[w] = "gone" /\ tray' = (IF tray = w THEN NONE ELSE tray)
        /\ icon' = IF icon = w THEN NONE ELSE icon

RestoresEnd == \A v \in Window :
  /\ restore'[v].children = restore[v].children
  /\ restore'[v] = restore[v] \/ (restore'[v].left = 0 /\ restore'[v].child = NONE)

LEMMA RestoresSame ==
  ASSUME UNCHANGED restore
  PROVE  RestoresEnd
BY DEF RestoresEnd

LEMMA TrayEnds ==
  ASSUME Typed, TrayInv, NEW w \in Window, Ending(w), RestoresEnd
  PROVE  TrayKept' /\ \A v \in Window : RestoreKept(v)'
<1>1. TrayKept'
  BY SessionAssumption DEF Ending, TrayInv, TrayKept, Typed, Life
<1>2. ASSUME NEW v \in Window PROVE RestoreKept(v)'
  <2>1. RestoreKept(v) /\ restore[v].children \subseteq Window
    BY OfWindow DEF TrayInv, Restores
  <2>2. life'[v] \in {"up", "down"} => life[v] \in {"up", "down"} /\ (tray = v => tray' = v)
    BY SessionAssumption DEF Ending, TrayInv, TrayKept, Typed, Life
  <2>3. \A c \in Window : life[c] # "off" => life'[c] # "off"
    BY DEF Ending
  <2>4. restore'[v].children = restore[v].children
        /\ (restore'[v] = restore[v] \/ (restore'[v].left = 0 /\ restore'[v].child = NONE))
    BY DEF RestoresEnd
  <2> QED
    BY <2>1, <2>2, <2>3, <2>4 DEF RestoreKept
<1> QED
  BY <1>1, <1>2

GoneUi(u) == /\ u.order = 0 /\ ~u.exiting /\ ~u.group /\ ~u.busy /\ u.pending = 0
             /\ u.prepared = <<NONE, 0>> /\ u.actions = << >>

LEMMA VanishEffect ==
  ASSUME Typed, NEW w \in Window, Vanishes(w)
  PROVE  /\ ui'[w] = [NewUi EXCEPT !.ready = ui[w].ready] /\ GoneUi(ui'[w]) /\ life'[w] = "gone"
         /\ inbox'[w] = << >> /\ worker'[w] = NoWorker
         /\ \A v \in Window \ {w} : /\ ui'[v] = ui[v] /\ life'[v] = life[v]
                                    /\ inbox'[v] = inbox[v] /\ worker'[v] = worker[v]
         /\ tray' = IF tray = w THEN NONE ELSE tray
         /\ icon' = IF icon = w THEN NONE ELSE icon
<1>1. \A b : GoneUi([NewUi EXCEPT !.ready = b])
  BY DEF NewUi, GoneUi
<1>2. ui'[w] = [NewUi EXCEPT !.ready = ui[w].ready]
  BY DEF Vanishes, Typed
<1>3. GoneUi(ui'[w])
  BY <1>1, <1>2
<1> QED
  BY <1>2, <1>3 DEF Vanishes, Typed

LEMMA TrayWindows ==
  ASSUME Typed, TrayInv, NEW w \in Window,
         \/ ConfirmFails(w) \/ ChildReady(w) \/ RestoreFails(w) \/ Tick(w) \/ CancelClose(w)
         \/ HandleExit(w) \/ Release(w) \/ SaveIndividual(w) \/ End(w) \/ Crash(w)
  PROVE  TrayKept' /\ \A v \in Window : RestoreKept(v)'
<1>1. CASE ConfirmFails(w) \/ HandleExit(w)
  <2>1. Leaves(w) /\ life[w] = "up" /\ UNCHANGED <<tray, restore>>
    BY <1>1 DEF ConfirmFails, HandleExit, Current
  <2>2. life'[w] = "down" /\ \A v \in Window \ {w} : life'[v] = life[v]
    BY <2>1 DEF Leaves, Typed
  <2>3. icon' = IF icon = w THEN NONE ELSE icon
    BY <2>1 DEF Leaves
  <2>4. Ending(w)
    BY <2>1, <2>2, <2>3 DEF Ending, Life
  <2> QED
    BY <2>1, <2>4, RestoresSame, TrayEnds
<1>2. CASE ChildReady(w)
  <2>1. /\ UNCHANGED <<life, tray, icon>> /\ restore[w].left > 0
        /\ restore' = [restore EXCEPT ![w] = [restore[w] EXCEPT !.left = @ - 1, !.child = NONE]]
    BY <1>2 DEF ChildReady, TrayInv, RestoreKept
  <2>2. ASSUME NEW v \in Window PROVE RestoreKept(v)'
    <3>0. restore[v] \in Restores /\ restore[w] \in Restores
      BY OfWindow
    <3>1. restore'[v].children = restore[v].children
          /\ (restore'[v] = restore[v] \/ (v = w /\ restore'[v].child = NONE))
      <4> DEFINE r == [restore[w] EXCEPT !.left = @ - 1, !.child = NONE]
      <4>1. r.children = restore[w].children /\ r.child = NONE
        BY <3>0 DEF Restores
      <4>2. restore'[v] = IF v = w THEN r ELSE restore[v]
        BY <2>1 DEF Typed
      <4> HIDE DEF r
      <4> QED
        BY <4>1, <4>2
    <3>2. RestoreKept(v)
      BY DEF TrayInv
    <3> QED
      BY <2>1, <3>1, <3>2 DEF RestoreKept
  <2> QED
    BY <2>1, <2>2 DEF TrayInv, TrayKept
<1>3. CASE RestoreFails(w)
  <2>1. restore' = [restore EXCEPT ![w] = [restore[w] EXCEPT !.left = 0, !.child = NONE]]
    BY <1>3 DEF RestoreFails
  <2>2. RestoresEnd
    <3> SUFFICES ASSUME NEW v \in Window
          PROVE  /\ restore'[v].children = restore[v].children
                 /\ restore'[v] = restore[v] \/ (restore'[v].left = 0 /\ restore'[v].child = NONE)
      BY DEF RestoresEnd
    <3> DEFINE r == [restore[w] EXCEPT !.left = 0, !.child = NONE]
    <3>1. r.children = restore[w].children /\ r.child = NONE /\ r.left = 0
      BY OfWindow DEF Restores
    <3>2. restore'[v] = IF v = w THEN r ELSE restore[v]
      BY <2>1 DEF Typed
    <3> HIDE DEF r
    <3> QED
      BY <3>1, <3>2
  <2>3. CASE restore[w].child = NONE
    <3>1. UNCHANGED <<life, tray, icon>>
      BY <1>3, <2>3 DEF RestoreFails
    <3> QED
      BY <2>2, <3>1 DEF TrayInv, TrayKept, RestoreKept, RestoresEnd
  <2>4. CASE restore[w].child # NONE
    <3>1. restore[w].child \in Window /\ Vanishes(restore[w].child)
      BY <1>3, <2>4, OfWindow DEF RestoreFails, Restores
    <3>2. Ending(restore[w].child)
      BY <3>1, VanishEffect DEF Ending, Life
    <3> QED
      BY <2>2, <3>1, <3>2, TrayEnds
  <2> QED
    BY <2>3, <2>4
<1>4. CASE Tick(w)
  <2>1. UNCHANGED <<life, restore>> /\ tray = NONE /\ tray' = w /\ icon' = w /\ life[w] = "up"
    BY <1>4 DEF Tick, Current
  <2> QED
    BY <2>1, SessionAssumption DEF TrayInv, TrayKept, RestoreKept
<1>5. CASE CancelClose(w)
  <2>1. UNCHANGED <<life, restore>> /\ tray' = (IF tray = NONE THEN w ELSE tray)
        /\ icon' = (IF tray = NONE THEN w ELSE icon) /\ life[w] = "up"
    BY <1>5 DEF CancelClose, Owner
  <2> QED
    BY <2>1, SessionAssumption DEF TrayInv, TrayKept, RestoreKept
<1>6. CASE Release(w)
  <2>1. life'[w] = "free" /\ \A v \in Window \ {w} : life'[v] = life[v]
    BY <1>6 DEF Release, Typed
  <2>2. /\ life[w] = "down" /\ UNCHANGED <<icon, restore>>
        /\ tray' = IF tray = w THEN NONE ELSE tray
    BY <1>6 DEF Release
  <2>3. Ending(w)
    BY <2>1, <2>2 DEF Ending, Life
  <2> QED
    BY <2>2, <2>3, RestoresSame, TrayEnds
<1>7. CASE SaveIndividual(w)
  <2>1. life'[w] \in {"saved", "left"} /\ \A v \in Window \ {w} : life'[v] = life[v]
    BY <1>7 DEF SaveIndividual, Typed
  <2>2. life[w] = "free" /\ UNCHANGED <<tray, icon, restore>>
    BY <1>7 DEF SaveIndividual
  <2>3. Ending(w)
    BY <2>1, <2>2 DEF Ending, Life
  <2> QED
    BY <2>2, <2>3, RestoresSame, TrayEnds
<1>8. CASE End(w) \/ Crash(w)
  <2>1. Vanishes(w) /\ UNCHANGED restore
    BY <1>8 DEF End, Crash
  <2>2. Ending(w)
    BY <2>1, VanishEffect DEF Ending, Life
  <2> QED
    BY <2>1, <2>2, RestoresSame, TrayEnds
<1> QED
  BY <1>1, <1>2, <1>3, <1>4, <1>5, <1>6, <1>7, <1>8

LEMMA TrayStep ==
  ASSUME Typed, TrayInv, [Next]_vars
  PROVE  TrayKept' /\ \A w \in Window : RestoreKept(w)'
<1>1. ASSUME NEW w \in Window, NEW left \in 0 .. record.count, Launch(w, left)
      PROVE  TrayKept' /\ \A v \in Window : RestoreKept(v)'
  BY <1>1, TrayLaunch
<1>2. ASSUME NEW w \in Window, NEW c \in Window, RestoreChild(w, c)
      PROVE  TrayKept' /\ \A v \in Window : RestoreKept(v)'
  BY <1>2, TrayRestoreChild
<1>3. ASSUME NEW w \in Window,
        \/ ConfirmFails(w) \/ ChildReady(w) \/ RestoreFails(w) \/ Tick(w) \/ CancelClose(w)
        \/ HandleExit(w) \/ Release(w) \/ SaveIndividual(w) \/ End(w) \/ Crash(w)
      PROVE  TrayKept' /\ \A v \in Window : RestoreKept(v)'
  BY <1>3, TrayWindows
<1>4. ASSUME NEW w \in Window, NEW v \in Window,
        \/ Confirm(w) \/ RequestClose(w) \/ RequestAll(w) \/ Begin(w) \/ Reply(w) \/ Deliver(w)
        \/ Identify(w) \/ Collect(w) \/ WaitTimesOut(w) \/ SaveGroup(w) \/ CloseOwner(w) \/ Fail(w)
        \/ TrayExit(w, v) \/ Ask(w, v) \/ CloseWindow(w, v)
      PROVE  UNCHANGED <<life, restore, tray, icon>>
  BY <1>4 DEF Confirm, RequestClose, RequestAll, Begin, Reply, Deliver, Identify, Collect,
              WaitTimesOut, SaveGroup, CloseOwner, Fail, TrayExit, Ask, CloseWindow
<1>5. CASE UNCHANGED vars
  BY <1>5, TrayFrame DEF vars
<1> QED
  BY <1>1, <1>2, <1>3, <1>4, <1>5, TrayFrame DEF Next

----------------------------------------------------------------------------
(* What a message makes of a window.                                       *)

ExitOnly == <<Message("exit", NONE, 0)>>

\* u becomes r when the window is asked to exit.
Exits(u, r) ==
  /\ r.exiting /\ r.actions = IF u.exiting THEN u.actions ELSE ExitOnly
  /\ r.order = u.order \/ (~u.exiting /\ r.order = NextOrder)
  /\ r.ready = u.ready /\ r.busy = u.busy /\ r.pending = u.pending /\ r.replies = u.replies
  /\ r.prepared = u.prepared

LEMMA ExitingEffect ==
  ASSUME NEW u \in Uis
  PROVE  Exits(u, Exiting(u)) /\ Exiting(u).group = u.group
BY DEF Exiting, Exits, ExitOnly, Uis

\* u becomes r when m is handled.
Handles(w, m, u, r) ==
  \/ r = u
  \/ /\ m.kind = "request" /\ Queues(w)
     /\ r = [u EXCEPT !.actions = Append(@, Message("capture", m.from, m.exit))]
  \/ /\ m.kind = "reply"
     /\ r = [u EXCEPT !.expected = @ \ {m.from}, !.replies = @ \cup {m.from}]
  \/ /\ m.kind = "close" /\ Exits(u, r) /\ r.group /\ u.prepared = <<m.from, m.exit>>
  \/ /\ m.kind = "failed" /\ u.pending = m.exit /\ r = FailedExit(u)
  \/ /\ m.kind = "exit" /\ Exits(u, r) /\ r.group = u.group

LEMMA ReceivedEffect ==
  ASSUME Typed, NEW w \in Window, NEW m \in Mail
  PROVE  Handles(w, m, ui[w], Received(w, m))
<1>0. ui[w] \in Uis /\ m.kind \in Kinds
  BY OfWindow DEF Mail
<1>1. CASE ~Accepts(w, m)
  BY <1>1 DEF Received, Handles
<1>2. CASE Accepts(w, m) /\ m.kind = "request"
  BY <1>2 DEF Received, Accepts, Handled, Handles
<1>3. CASE Accepts(w, m) /\ m.kind = "reply"
  BY <1>3 DEF Received, Accepts, Handled, Handles
<1>4. CASE Accepts(w, m) /\ m.kind = "close"
  <2> DEFINE x == Exiting(ui[w])
             r == [x EXCEPT !.group = TRUE]
  <2>1. Received(w, m) = r /\ ui[w].prepared = <<m.from, m.exit>>
    BY <1>4 DEF Received, Accepts, Handled
  <2>2. Exits(ui[w], x) /\ x.group = ui[w].group
    BY <1>0, ExitingEffect
  <2>3. Exits(ui[w], r) /\ r.group
    BY <1>0, <2>2 DEF Exits, Uis, Exiting
  <2> QED
    BY <1>4, <2>1, <2>3 DEF Handles
<1>5. CASE Accepts(w, m) /\ m.kind = "failed"
  BY <1>5 DEF Received, Accepts, Handled, Handles
<1>6. CASE Accepts(w, m) /\ m.kind = "exit"
  <2>1. Received(w, m) = Exiting(ui[w])
    BY <1>6 DEF Received, Handled
  <2> QED
    BY <1>0, <1>6, <2>1, ExitingEffect DEF Handles
<1> QED
  BY <1>0, <1>1, <1>2, <1>3, <1>4, <1>5, <1>6 DEF Kinds

----------------------------------------------------------------------------
(* Orders: a step gives out at most one.                                   *)

UiOrderKept(w) == ui'[w].order \in {ui[w].order, 0}

WorkerOrderKept(w) ==
  /\ worker'[w].order \in {worker[w].order, 0}
  /\ worker'[w].pc = "save" => worker[w].pc = "save" /\ worker'[w].order = worker[w].order

OrdersStep ==
  \/ \A w \in Window : UiOrderKept(w) /\ WorkerOrderKept(w)
  \/ \E v \in Window : /\ ui'[v].order = NextOrder
                       /\ \A w \in Window \ {v} : UiOrderKept(w)
                       /\ \A w \in Window : WorkerOrderKept(w)
  \/ \E v \in Window : /\ worker'[v].order = NextOrder
                       /\ \A w \in Window : UiOrderKept(w)
                       /\ \A w \in Window \ {v} : WorkerOrderKept(w)

LEMMA OneUiMoves ==
  ASSUME Typed, NEW w \in Window, NEW u \in Uis,
         UNCHANGED ui \/ ui' = [ui EXCEPT ![w] = u],
         u.order \in {0, ui[w].order, NextOrder},
         \A v \in Window : WorkerOrderKept(v)
  PROVE  OrdersStep
<1>1. \A v \in Window \ {w} : UiOrderKept(v)
  BY DEF UiOrderKept, Typed
<1>2. UiOrderKept(w) \/ ui'[w].order = NextOrder
  BY DEF UiOrderKept, Typed
<1> QED
  BY <1>1, <1>2 DEF OrdersStep

LEMMA WorkerStays ==
  ASSUME UNCHANGED worker
  PROVE  \A v \in Window : WorkerOrderKept(v)
BY DEF WorkerOrderKept

LEMMA OneWorkerMoves ==
  ASSUME Typed, NEW o \in Window, NEW k,
         worker' = [worker EXCEPT ![o] = k],
         k.order \in {0, worker[o].order}, k.pc # "save"
  PROVE  \A v \in Window : WorkerOrderKept(v)
BY DEF WorkerOrderKept, Typed

LEMMA UiStays ==
  ASSUME UNCHANGED ui, \A v \in Window : WorkerOrderKept(v)
  PROVE  OrdersStep
BY DEF UiOrderKept, OrdersStep

LEMMA VanishOrders ==
  ASSUME Typed, NEW w \in Window, Vanishes(w)
  PROVE  OrdersStep
<1>1. ui'[w].order = 0 /\ worker'[w].order = 0 /\ worker'[w].pc = "none"
  <2>1. worker'[w] = NoWorker
    BY VanishEffect
  <2>2. ui'[w].order = 0
    BY VanishEffect DEF GoneUi
  <2> QED
    BY <2>1, <2>2 DEF NoWorker
<1>2. \A v \in Window \ {w} : ui'[v] = ui[v] /\ worker'[v] = worker[v]
  BY VanishEffect
<1>3. ASSUME NEW v \in Window PROVE UiOrderKept(v) /\ WorkerOrderKept(v)
  <2>1. CASE v = w
    BY <1>1, <2>1 DEF UiOrderKept, WorkerOrderKept
  <2>2. CASE v # w
    BY <1>2, <2>2 DEF UiOrderKept, WorkerOrderKept
  <2> QED
    BY <2>1, <2>2
<1> QED
  BY <1>3 DEF OrdersStep

LEMMA SendOrders ==
  ASSUME Typed, OrdersBounded, NEW to \in Window, NEW m \in Mail, NEW ok \in BOOLEAN,
         Send(to, m, ok), \A v \in Window : WorkerOrderKept(v)
  PROVE  OrdersStep
<1>1. CASE UNCHANGED ui
  BY <1>1, UiStays
<1>2. CASE ui' = [ui EXCEPT ![to] = Received(to, m)]
  <2>1. ui[to] \in Uis
    BY OfWindow
  <2>2. Received(to, m).order \in {ui[to].order, NextOrder}
    <3>1. Handles(to, m, ui[to], Received(to, m))
      BY ReceivedEffect
    <3>2. FailedExit(ui[to]).order = ui[to].order
      BY <2>1 DEF FailedExit, Uis
    <3> QED
      BY <2>1, <3>1, <3>2 DEF Handles, Exits, Uis
  <2> QED
    BY <1>2, <2>2, HandledTyped, OneUiMoves
<1> QED
  BY <1>1, <1>2 DEF Send

LEMMA LeavesOrders ==
  ASSUME Typed, OrdersBounded, NEW w \in Window, Leaves(w), UNCHANGED worker
  PROVE  OrdersStep
<1> DEFINE u == [ui[w] EXCEPT !.exiting = TRUE, !.order = IF @ = 0 THEN NextOrder ELSE @,
                              !.actions = << >>, !.closing = FALSE]
<1>1. ui[w] \in Uis
  BY OfWindow
<1>2. u.order \in {ui[w].order, NextOrder}
  BY <1>1 DEF Uis
<1>3. ui' = [ui EXCEPT ![w] = u]
  BY DEF Leaves
<1>4. u \in Uis
  <2>1. ui' \in [Window -> Uis]
    BY LeavesTyped
  <2>2. ui'[w] = u
    BY <1>3 DEF Typed
  <2> QED
    BY <2>1, <2>2
<1> HIDE DEF u
<1> QED
  BY <1>2, <1>3, <1>4, WorkerStays, OneUiMoves

LEMMA WindowOrders ==
  ASSUME Typed, OrdersBounded, Typed', NEW w \in Window,
         \/ Confirm(w) \/ ConfirmFails(w) \/ RestoreFails(w) \/ RequestClose(w) \/ CancelClose(w)
         \/ HandleExit(w) \/ End(w) \/ Crash(w) \/ RequestAll(w) \/ Reply(w) \/ Deliver(w)
  PROVE  OrdersStep
<1>0. ui[w] \in Uis /\ ui'[w] \in Uis
  BY OfWindow DEF Typed
<1>1. CASE \/ Confirm(w) \/ RequestClose(w) \/ CancelClose(w) \/ RequestAll(w) \/ Reply(w)
           \/ Deliver(w)
  <2>1. UNCHANGED worker /\ ui' = [ui EXCEPT ![w] = ui'[w]]
    BY <1>1 DEF Confirm, RequestClose, CancelClose, RequestAll, Reply, Deliver, Typed
  <2>2. ui'[w].order \in {ui[w].order, NextOrder}
    <3>1. CASE Confirm(w)
      BY <1>0, <3>1 DEF Confirm, Typed, Uis
    <3>2. CASE RequestClose(w)
      BY <1>0, <3>2 DEF RequestClose, Typed, Uis
    <3>3. CASE CancelClose(w)
      BY <1>0, <3>3 DEF CancelClose, Typed, Uis
    <3>4. CASE RequestAll(w)
      BY <1>0, <3>4 DEF RequestAll, Typed, Uis
    <3>5. CASE Reply(w)
      BY <1>0, <3>5 DEF Reply, Typed, Uis
    <3>6. CASE Deliver(w)
      <4>1. ui'[w] = Received(w, Head(inbox[w])) /\ Head(inbox[w]) \in Mail
        BY <3>6, HeadTailProperties, OfWindow DEF Deliver, Typed
      <4>2. Handles(w, Head(inbox[w]), ui[w], ui'[w])
        BY <4>1, ReceivedEffect
      <4>3. FailedExit(ui[w]).order = ui[w].order
        BY <1>0 DEF FailedExit, Uis
      <4> QED
        BY <1>0, <4>2, <4>3 DEF Handles, Exits, Uis
    <3> QED
      BY <1>1, <3>1, <3>2, <3>3, <3>4, <3>5, <3>6
  <2> QED
    BY <1>0, <2>1, <2>2, WorkerStays, OneUiMoves
<1>2. CASE ConfirmFails(w) \/ HandleExit(w)
  BY <1>2, LeavesOrders DEF ConfirmFails, HandleExit
<1>3. CASE End(w) \/ Crash(w)
  BY <1>3, VanishOrders DEF End, Crash
<1>4. CASE RestoreFails(w)
  <2>1. CASE restore[w].child = NONE
    BY <1>4, <2>1, WorkerStays, UiStays DEF RestoreFails
  <2>2. CASE restore[w].child # NONE
    BY <1>4, <2>2, VanishOrders, OfWindow DEF RestoreFails, Restores
  <2> QED
    BY <2>1, <2>2
<1> QED
  BY <1>1, <1>2, <1>3, <1>4

LEMMA ThreadOrders ==
  ASSUME Typed, OrdersBounded, Typed', NEW o \in Window,
         \/ \E w \in Window : TrayExit(o, w) \/ Ask(o, w) \/ CloseWindow(o, w)
         \/ Begin(o) \/ Identify(o) \/ Collect(o) \/ WaitTimesOut(o) \/ SaveGroup(o)
         \/ CloseOwner(o) \/ Fail(o)
  PROVE  OrdersStep
<1>0. /\ ui[o] \in Uis /\ ui'[o] \in Uis /\ worker[o] \in Workers
      /\ worker[o].exit \in 0 .. MaxExits
      /\ NoWorker.order = 0 /\ NoWorker.pc = "none"
  BY OfWindow DEF Typed, Workers, NoWorker
<1>1. \A kind \in Kinds : /\ Message(kind, o, worker[o].exit) \in Mail
                          /\ Message(kind, o, 0) \in Mail
  BY <1>0, SessionAssumption DEF Message, Mail
<1>2. ASSUME NEW w \in Window, TrayExit(o, w) PROVE OrdersStep
  <2>1. \A v \in Window : WorkerOrderKept(v)
    BY <1>2, WorkerStays DEF TrayExit
  <2>2. CASE o = w
    <3>1. Exits(ui[w], Exiting(ui[w]))
      BY <1>0, <2>2, ExitingEffect
    <3>2. ui' = [ui EXCEPT ![w] = Exiting(ui[w])]
      BY <1>2, <2>2 DEF TrayExit
    <3>3. Exiting(ui[w]) \in Uis
      BY <1>0, <2>2, ExitingTyped
    <3> QED
      BY <2>1, <3>1, <3>2, <3>3, OneUiMoves DEF Exits
  <2>3. CASE o # w
    <3>1. PICK ok \in BOOLEAN : Send(w, Message("exit", o, 0), ok)
      BY <1>2, <2>3 DEF TrayExit
    <3>2. Message("exit", o, 0) \in Mail
      BY <1>1 DEF Kinds
    <3> QED
      BY <2>1, <3>1, <3>2, SendOrders
  <2> QED
    BY <2>2, <2>3
<1>3. ASSUME NEW w \in Window, Ask(o, w) PROVE OrdersStep
  <2>1. PICK ok \in BOOLEAN :
          /\ Send(w, Message("request", o, worker[o].exit), ok)
          /\ worker' = [worker EXCEPT ![o].todo = @ \ {w},
               ![o].pc = IF ~ok THEN "fail" ELSE IF worker[o].todo = {w} THEN "wait" ELSE @]
    BY <1>3 DEF Ask
  <2>2. Message("request", o, worker[o].exit) \in Mail
    BY <1>1 DEF Kinds
  <2> DEFINE k == [worker[o] EXCEPT !.todo = @ \ {w},
               !.pc = IF ~ok THEN "fail" ELSE IF worker[o].todo = {w} THEN "wait" ELSE @]
  <2>3. k.order = worker[o].order /\ k.pc # "save"
    BY <1>0, <1>3 DEF Workers, Ask, At
  <2>4. worker' = [worker EXCEPT ![o] = k]
    BY <2>1
  <2> HIDE DEF k
  <2>5. \A v \in Window : WorkerOrderKept(v)
    BY <2>3, <2>4, OneWorkerMoves
  <2> QED
    BY <2>1, <2>2, <2>5, SendOrders
<1>4. ASSUME NEW w \in Window, CloseWindow(o, w) PROVE OrdersStep
  <2>1. CASE ~Current(w)
    <3> DEFINE k == [worker[o] EXCEPT !.todo = @ \ {w}]
    <3>1. worker' = [worker EXCEPT ![o] = k] /\ UNCHANGED ui
      BY <1>4, <2>1 DEF CloseWindow
    <3>2. k.order = worker[o].order /\ k.pc # "save"
      BY <1>0, <1>4 DEF Workers, CloseWindow, At
    <3> HIDE DEF k
    <3> QED
      BY <3>1, <3>2, OneWorkerMoves, UiStays
  <2>2. CASE Current(w)
    <3>1. PICK ok \in BOOLEAN :
            /\ Send(w, Message("close", o, worker[o].exit), ok)
            /\ worker' = [worker EXCEPT ![o].todo = @ \ {w}, ![o].pc = AfterClose(ok)]
      BY <1>4, <2>2 DEF CloseWindow
    <3>2. Message("close", o, worker[o].exit) \in Mail
      BY <1>1 DEF Kinds
    <3> DEFINE k == [worker[o] EXCEPT !.todo = @ \ {w}, !.pc = AfterClose(ok)]
    <3>3. k.order = worker[o].order /\ k.pc # "save"
      BY <1>0 DEF Workers, AfterClose
    <3>4. worker' = [worker EXCEPT ![o] = k]
      BY <3>1
    <3> HIDE DEF k
    <3>5. \A v \in Window : WorkerOrderKept(v)
      BY <3>3, <3>4, OneWorkerMoves
    <3> QED
      BY <3>1, <3>2, <3>5, SendOrders
  <2> QED
    BY <2>1, <2>2
<1>5. CASE Begin(o)
  <2>1. ui'[o].order = ui[o].order /\ ui' = [ui EXCEPT ![o] = ui'[o]]
    <3> DEFINE a == Head(ui[o].actions)
               g == {w \in Window : Current(w)}
               u == [ui[o] EXCEPT !.actions = Tail(@), !.prepared = <<o, a.exit>>,
                                  !.pending = a.exit, !.expected = g \ {o}, !.replies = {o}]
               n == [ui[o] EXCEPT !.actions = Tail(@), !.busy = FALSE,
                                  !.prepared = IF Current(o) THEN <<NONE, 0>> ELSE @]
    <3>1. u.order = ui[o].order /\ n.order = ui[o].order
      <4> HIDE DEF a, g
      <4> QED
        BY <1>0 DEF Uis
    <3>2. ui' = [ui EXCEPT ![o] = u] \/ ui' = [ui EXCEPT ![o] = n]
      BY <1>5 DEF Begin
    <3> HIDE DEF u, n
    <3> QED
      BY <3>1, <3>2 DEF Typed
  <2>2. \A v \in Window : WorkerOrderKept(v)
    <3> DEFINE k == [pc |-> "start", exit |-> Head(ui[o].actions).exit,
                     group |-> {w \in Window : Current(w)}, todo |-> {}, order |-> 0]
    <3>1. UNCHANGED worker \/ worker' = [worker EXCEPT ![o] = k]
      BY <1>5 DEF Begin
    <3>2. k.order = 0 /\ k.pc # "save"
      OBVIOUS
    <3> HIDE DEF k
    <3> QED
      BY <3>1, <3>2, WorkerStays, OneWorkerMoves
  <2> QED
    BY <1>0, <2>1, <2>2, OneUiMoves
<1>6. CASE Collect(o) /\ AllCurrent(o)
  <2>1. /\ worker' = [worker EXCEPT ![o].pc = "save", ![o].order = NextOrder]
        /\ UNCHANGED ui
    BY <1>6 DEF Collect
  <2>2. worker'[o].order = NextOrder /\ \A w \in Window \ {o} : worker'[w] = worker[w]
    BY <1>0, <2>1 DEF Typed, Workers
  <2>3. \A w \in Window \ {o} : WorkerOrderKept(w)
    BY <2>2 DEF WorkerOrderKept
  <2>4. \A w \in Window : UiOrderKept(w)
    BY <2>1 DEF UiOrderKept
  <2> QED
    BY <2>2, <2>3, <2>4 DEF OrdersStep
<1>7. ASSUME Identify(o) \/ WaitTimesOut(o) \/ SaveGroup(o) \/ (Collect(o) /\ ~AllCurrent(o))
      PROVE  OrdersStep
  <2>1. UNCHANGED ui
    BY <1>7 DEF Identify, WaitTimesOut, SaveGroup, Collect
  <2>2. CASE Identify(o)
    <3> DEFINE k == [worker[o] EXCEPT !.todo = worker[o].group \ {o},
       !.pc = IF ~AllCurrent(o) THEN "fail" ELSE IF worker[o].group = {o} THEN "wait" ELSE "ask"]
    <3>1. k.order = worker[o].order /\ k.pc # "save"
      BY <1>0 DEF Workers
    <3>2. worker' = [worker EXCEPT ![o] = k]
      BY <2>2 DEF Identify
    <3> HIDE DEF k
    <3> QED
      BY <2>1, <3>1, <3>2, OneWorkerMoves, UiStays
  <2>3. CASE WaitTimesOut(o) \/ (Collect(o) /\ ~AllCurrent(o))
    <3> DEFINE k == [worker[o] EXCEPT !.pc = "fail"]
    <3>1. k.order = worker[o].order /\ k.pc # "save"
      BY <1>0 DEF Workers
    <3>2. worker' = [worker EXCEPT ![o] = k]
      BY <2>3 DEF WaitTimesOut, Collect
    <3> HIDE DEF k
    <3> QED
      BY <2>1, <3>1, <3>2, OneWorkerMoves, UiStays
  <2>4. CASE SaveGroup(o)
    <3>1. PICK ok \in BOOLEAN :
        worker' = [worker EXCEPT ![o].pc = AfterSave(ok), ![o].todo = worker[o].group \ {o}]
      BY <2>4 DEF SaveGroup
    <3> DEFINE k == [worker[o] EXCEPT !.pc = AfterSave(ok), !.todo = worker[o].group \ {o}]
    <3>2. k.order = worker[o].order /\ k.pc # "save"
      BY <1>0 DEF Workers, AfterSave
    <3>3. worker' = [worker EXCEPT ![o] = k]
      BY <3>1
    <3> HIDE DEF k
    <3> QED
      BY <2>1, <3>2, <3>3, OneWorkerMoves, UiStays
  <2> QED
    BY <1>7, <2>2, <2>3, <2>4
<1>8. CASE CloseOwner(o)
  <2>1. PICK ok \in BOOLEAN :
          /\ Send(o, Message("close", o, worker[o].exit), ok)
          /\ worker' = [worker EXCEPT ![o] = IF ok THEN NoWorker ELSE [@ EXCEPT !.pc = "fail"]]
    BY <1>8 DEF CloseOwner
  <2>2. Message("close", o, worker[o].exit) \in Mail
    BY <1>1 DEF Kinds
  <2> DEFINE k == IF ok THEN NoWorker ELSE [worker[o] EXCEPT !.pc = "fail"]
  <2>3. k.order \in {0, worker[o].order} /\ k.pc # "save"
    BY <1>0 DEF Workers
  <2>4. worker' = [worker EXCEPT ![o] = k]
    BY <2>1
  <2> HIDE DEF k
  <2>5. \A v \in Window : WorkerOrderKept(v)
    BY <2>3, <2>4, OneWorkerMoves
  <2> QED
    BY <2>1, <2>2, <2>5, SendOrders
<1>9. CASE Fail(o)
  <2>1. PICK arrives \in BOOLEAN :
          worker' = [worker EXCEPT ![o] = IF arrives THEN NoWorker ELSE [@ EXCEPT !.pc = "lost"]]
    BY <1>9 DEF Fail
  <2> DEFINE k == IF arrives THEN NoWorker ELSE [worker[o] EXCEPT !.pc = "lost"]
  <2>2. k.order \in {0, worker[o].order} /\ k.pc # "save"
    BY <1>0 DEF Workers
  <2>3. worker' = [worker EXCEPT ![o] = k] /\ UNCHANGED ui
    BY <1>9, <2>1 DEF Fail
  <2> HIDE DEF k
  <2> QED
    BY <2>2, <2>3, OneWorkerMoves, UiStays
<1> QED
  BY <1>2, <1>3, <1>4, <1>5, <1>6, <1>7, <1>8, <1>9

LEMMA OrdersMove ==
  ASSUME Typed, OrdersBounded, Typed', [Next]_vars
  PROVE  OrdersStep
<1>1. ASSUME NEW w \in Window, NEW v \in Window,
         \/ \E left \in 0 .. record.count : Launch(w, left)
         \/ RestoreChild(w, v) \/ ChildReady(w) \/ Tick(w) \/ Release(w) \/ SaveIndividual(w)
      PROVE  UNCHANGED <<ui, worker>>
  BY <1>1 DEF Launch, RestoreChild, ChildReady, Tick, Release, SaveIndividual
<1>2. UNCHANGED <<ui, worker>> => OrdersStep
  BY WorkerStays, UiStays
<1>3. CASE UNCHANGED vars
  BY <1>2, <1>3 DEF vars
<1> QED
  BY <1>1, <1>2, <1>3, WindowOrders, ThreadOrders DEF Next

\* A window whose session is saved does nothing any more but end, and only one
\* that takes messages joins a group.
SavedStays ==
  /\ UNCHANGED record
  /\ \A w \in Window : life'[w] = "saved" => life[w] = "saved" /\ ui'[w] = ui[w]
  /\ \A w \in Window : life[w] # "up" /\ ui'[w].group => ui[w].group

LEMMA SavedUnderSend ==
  ASSUME Typed, NEW to \in Window, NEW m, NEW ok \in BOOLEAN, Send(to, m, ok),
         UNCHANGED <<life, record>>
  PROVE  SavedStays
<1>1. UNCHANGED ui \/ (life[to] = "up" /\ ui' = [ui EXCEPT ![to] = Received(to, m)])
  BY DEF Send
<1> QED
  BY <1>1 DEF SavedStays, Typed

LEMMA SavedUnderVanish ==
  ASSUME Typed, NEW w \in Window, Vanishes(w), UNCHANGED record
  PROVE  SavedStays
<1>1. \A v \in Window : life'[v] = "saved" => v # w
  BY VanishEffect
<1>2. \A v \in Window : ui'[v].group => ui[v].group
  BY VanishEffect DEF GoneUi
<1> QED
  BY <1>1, <1>2, VanishEffect DEF SavedStays

LEMMA SavedMove ==
  ASSUME Typed, [Next]_vars
  PROVE  SavedStays \/ \E w \in Window : SaveIndividual(w) \/ SaveGroup(w)
<1>1. ASSUME NEW w \in Window, NEW v \in Window,
         \/ \E left \in 0 .. record.count : Launch(w, left)
         \/ RestoreChild(v, w) \/ ChildReady(w) \/ Tick(w) \/ Release(w)
      PROVE  SavedStays
  <2>1. UNCHANGED <<ui, record>> /\ \A x \in Window : life'[x] = "saved" => life[x] = "saved"
    BY <1>1 DEF Launch, RestoreChild, ChildReady, Tick, Release, Typed
  <2> QED
    BY <2>1 DEF SavedStays
<1>2. ASSUME NEW w \in Window,
         \/ Confirm(w) \/ RequestClose(w) \/ CancelClose(w) \/ RequestAll(w) \/ Begin(w)
         \/ Reply(w) \/ Deliver(w)
      PROVE  SavedStays
  <2>1. UNCHANGED <<life, record>> /\ life[w] = "up" /\ \A x \in Window \ {w} : ui'[x] = ui[x]
    <3>1. CASE Confirm(w) \/ RequestClose(w) \/ CancelClose(w)
      BY <3>1 DEF Confirm, RequestClose, CancelClose, Current, Typed
    <3>2. CASE RequestAll(w)
      BY <3>2 DEF RequestAll, Current, Typed
    <3>3. CASE Begin(w)
      BY <3>3 DEF Begin, Typed
    <3>4. CASE Reply(w)
      BY <3>4 DEF Reply, Typed
    <3>5. CASE Deliver(w)
      BY <3>5 DEF Deliver, Typed
    <3> QED
      BY <1>2, <3>1, <3>2, <3>3, <3>4, <3>5
  <2> QED
    BY <2>1 DEF SavedStays
<1>3. ASSUME NEW w \in Window, ConfirmFails(w) \/ HandleExit(w) PROVE SavedStays
  <2>1. UNCHANGED record /\ Leaves(w) /\ life[w] = "up"
    BY <1>3 DEF ConfirmFails, HandleExit, Current
  <2>2. life'[w] = "down" /\ \A x \in Window \ {w} : life'[x] = life[x] /\ ui'[x] = ui[x]
    BY <2>1 DEF Leaves, Typed
  <2> QED
    BY <2>1, <2>2 DEF SavedStays
<1>4. ASSUME NEW w \in Window, End(w) \/ Crash(w) PROVE SavedStays
  BY <1>4, SavedUnderVanish DEF End, Crash
<1>5. ASSUME NEW w \in Window, RestoreFails(w) PROVE SavedStays
  <2>1. CASE restore[w].child = NONE
    BY <1>5, <2>1 DEF RestoreFails, SavedStays
  <2>2. CASE restore[w].child # NONE
    BY <1>5, <2>2, SavedUnderVanish, OfWindow DEF RestoreFails, Restores
  <2> QED
    BY <2>1, <2>2
<1>6. ASSUME NEW o \in Window, Identify(o) \/ Collect(o) \/ WaitTimesOut(o) \/ Fail(o)
      PROVE  SavedStays
  BY <1>6 DEF Identify, Collect, WaitTimesOut, Fail, SavedStays
<1>7. ASSUME NEW o \in Window, CloseOwner(o) PROVE SavedStays
  BY <1>7, SavedUnderSend DEF CloseOwner
<1>8. ASSUME NEW o \in Window, NEW w \in Window, TrayExit(o, w) PROVE SavedStays
  <2>1. CASE o = w
    BY <1>8, <2>1 DEF TrayExit, Current, SavedStays, Typed
  <2>2. CASE o # w
    BY <1>8, <2>2, SavedUnderSend DEF TrayExit
  <2> QED
    BY <2>1, <2>2
<1>9. ASSUME NEW o \in Window, NEW w \in Window, Ask(o, w) PROVE SavedStays
  BY <1>9, SavedUnderSend DEF Ask
<1>10. ASSUME NEW o \in Window, NEW w \in Window, CloseWindow(o, w) PROVE SavedStays
  <2>1. CASE Current(w)
    BY <1>10, <2>1, SavedUnderSend DEF CloseWindow
  <2>2. CASE ~Current(w)
    BY <1>10, <2>2 DEF CloseWindow, SavedStays
  <2> QED
    BY <2>1, <2>2
<1>11. CASE UNCHANGED vars
  BY <1>11 DEF vars, SavedStays
<1> QED
  BY <1>1, <1>2, <1>3, <1>4, <1>5, <1>6, <1>7, <1>8, <1>9, <1>10, <1>11 DEF Next

LEMMA BoundedStep ==
  ASSUME Typed, OrdersBounded, Typed', [Next]_vars
  PROVE  OrdersBounded'
<1>1. PICK n \in Nat :
        record.order <= n /\ \A w \in Window : ui[w].order <= n /\ worker[w].order <= n
  BY DEF OrdersBounded
<1>2. NextOrder \in Nat
  BY FreshOrder
<1>3. \A w \in Window : /\ ui'[w].order \in Nat /\ ui'[w].order \in {0, ui[w].order, NextOrder}
                        /\ worker'[w].order \in Nat
                        /\ worker'[w].order \in {0, worker[w].order, NextOrder}
  <2>1. OrdersStep
    BY OrdersMove
  <2>2. \A w \in Window : ui'[w].order \in Nat /\ worker'[w].order \in Nat
    BY DEF Typed, Uis, Workers
  <2> QED
    BY <2>1, <2>2 DEF OrdersStep, UiOrderKept, WorkerOrderKept
<1>4. /\ record'.order \in Nat
      /\ \/ record'.order = record.order
         \/ \E w \in Window : record'.order = ui[w].order \/ record'.order = worker[w].order
  <2>1. record'.order \in Nat
    BY DEF Typed, Records
  <2>2. CASE SavedStays
    BY <2>1, <2>2 DEF SavedStays
  <2>3. ASSUME NEW w \in Window, SaveIndividual(w)
        PROVE  record' = record \/ record'.order = ui[w].order
    BY <2>3 DEF SaveIndividual, Record
  <2>4. ASSUME NEW w \in Window, SaveGroup(w)
        PROVE  record' = record \/ record'.order = worker[w].order
    BY <2>4 DEF SaveGroup, Record
  <2> QED
    BY <2>1, <2>2, <2>3, <2>4, SavedMove
<1>5. PICK b \in Nat : b >= n /\ b >= NextOrder
  BY <1>1, <1>2
<1>6. \A w \in Window : ui[w].order \in Nat /\ worker[w].order \in Nat
  BY OfWindow DEF Uis, Workers
<1>7. \A w \in Window : ui'[w].order <= b /\ worker'[w].order <= b
  BY <1>1, <1>2, <1>3, <1>5, <1>6
<1>8. record'.order <= b
  BY <1>1, <1>4, <1>5, <1>6 DEF Typed, Records
<1> QED
  BY <1>5, <1>7, <1>8 DEF OrdersBounded

LEMMA OrdersApart ==
  ASSUME Typed, OrdersBounded, Typed', OrderInv, OrdersStep
  PROVE  /\ \A v, w \in Window : ui'[v].order # 0 /\ ui'[v].order = ui'[w].order => v = w
         /\ \A v, w \in Window : worker'[v].order # 0 => worker'[v].order # ui'[w].order
         /\ \A v \in Window : worker'[v].pc = "save" => worker'[v].order # 0
<1>1. NextOrder # 0 /\ \A w \in Window : NextOrder # ui[w].order /\ NextOrder # worker[w].order
  <2>1. \A w \in Window : ui[w].order \in Nat /\ worker[w].order \in Nat
    BY OfWindow DEF Uis, Workers
  <2> QED
    BY <2>1, FreshOrder
<1>2. /\ \A v, w \in Window : ui[v].order # 0 /\ ui[v].order = ui[w].order => v = w
      /\ \A v, w \in Window : worker[v].order # 0 => worker[v].order # ui[w].order
      /\ \A v \in Window : worker[v].pc = "save" => worker[v].order # 0
  BY DEF OrderInv
<1>3. CASE \A w \in Window : UiOrderKept(w) /\ WorkerOrderKept(w)
  BY <1>2, <1>3 DEF UiOrderKept, WorkerOrderKept
<1>4. ASSUME NEW x \in Window, ui'[x].order = NextOrder,
             \A w \in Window \ {x} : UiOrderKept(w), \A w \in Window : WorkerOrderKept(w)
      PROVE  /\ \A v, w \in Window : ui'[v].order # 0 /\ ui'[v].order = ui'[w].order => v = w
             /\ \A v, w \in Window : worker'[v].order # 0 => worker'[v].order # ui'[w].order
             /\ \A v \in Window : worker'[v].pc = "save" => worker'[v].order # 0
  BY <1>1, <1>2, <1>4 DEF UiOrderKept, WorkerOrderKept
<1>5. ASSUME NEW x \in Window, worker'[x].order = NextOrder,
             \A w \in Window : UiOrderKept(w), \A w \in Window \ {x} : WorkerOrderKept(w)
      PROVE  /\ \A v, w \in Window : ui'[v].order # 0 /\ ui'[v].order = ui'[w].order => v = w
             /\ \A v, w \in Window : worker'[v].order # 0 => worker'[v].order # ui'[w].order
             /\ \A v \in Window : worker'[v].pc = "save" => worker'[v].order # 0
  BY <1>1, <1>2, <1>5 DEF UiOrderKept, WorkerOrderKept
<1> QED
  BY <1>3, <1>4, <1>5 DEF OrdersStep

LEMMA OrderStep ==
  ASSUME Typed, OrdersBounded, Typed', OrderInv, \A w \in Window : Phase(w), [Next]_vars
  PROVE  OrderInv'
<1>1. /\ \A v, w \in Window : ui'[v].order # 0 /\ ui'[v].order = ui'[w].order => v = w
      /\ \A v, w \in Window : worker'[v].order # 0 => worker'[v].order # ui'[w].order
      /\ \A v \in Window : worker'[v].pc = "save" => worker'[v].order # 0
  BY OrdersMove, OrdersApart
<1>2. LaterIsKept'
  <2>0. record.order \in Nat
        /\ \A w \in Window : ui[w].order \in Nat /\ worker[w].order \in Nat
    BY DEF Typed, Uis, Workers, Records
  <2>1. CASE SavedStays
    BY <2>1 DEF SavedStays, OrderInv, LaterIsKept
  <2>2. ASSUME NEW v \in Window, SaveIndividual(v) PROVE LaterIsKept'
    <3>1. /\ UNCHANGED ui /\ life[v] = "free" /\ ui[v].order # 0
          /\ \A w \in Window \ {v} : life'[w] = life[w]
      BY <2>2 DEF SaveIndividual, Phase, Typed
    <3>2. CASE life'[v] = "saved"
      <4>1. record' = IF Replaces(ui[v].order) THEN Record(ui[v].order, {v}, record.group) ELSE record
        BY <2>2, <3>2 DEF SaveIndividual, Typed
      <4>2. CASE Replaces(ui[v].order)
        <5>1. record'.order = ui[v].order /\ record'.sessions = {v}
              /\ ui[v].order >= record.order
          BY <4>1, <4>2 DEF Replaces, Record
        <5>2. ASSUME NEW w \in Window \ {v}, life'[w] = "saved"
              PROVE  record'.order >= ui[w].order /\ record'.order # ui[w].order
          BY <2>0, <3>1, <5>1, <5>2 DEF OrderInv, LaterIsKept
        <5> QED
          BY <2>0, <3>1, <5>1, <5>2 DEF LaterIsKept
      <4>3. CASE ~Replaces(ui[v].order)
        <5>1. record' = record /\ record.order > ui[v].order
          BY <2>0, <4>1, <4>3 DEF Replaces
        <5> QED
          BY <2>0, <3>1, <5>1 DEF OrderInv, LaterIsKept
      <4> QED
        BY <4>2, <4>3
    <3>3. CASE life'[v] # "saved"
      <4>1. record' = record
        BY <2>2, <3>3 DEF SaveIndividual, Typed
      <4> QED
        BY <3>1, <3>3, <4>1 DEF OrderInv, LaterIsKept
    <3> QED
      BY <3>2, <3>3
  <2>3. ASSUME NEW o \in Window, SaveGroup(o) PROVE LaterIsKept'
    <3>1. UNCHANGED <<ui, life>> /\ worker[o].pc = "save"
      BY <2>3 DEF SaveGroup, At
    <3>2. CASE record' = record
      BY <3>1, <3>2 DEF OrderInv, LaterIsKept
    <3>3. CASE record' # record
      <4>1. record'.order = worker[o].order /\ worker[o].order >= record.order
        BY <2>3, <3>3 DEF SaveGroup, Record, Replaces
      <4>2. worker[o].order # 0 /\ \A w \in Window : worker[o].order # ui[w].order
        BY <3>1 DEF OrderInv
      <4>3. ASSUME NEW w \in Window, life'[w] = "saved"
            PROVE  record'.order >= ui'[w].order /\ record'.order # ui'[w].order
        BY <2>0, <3>1, <4>1, <4>2, <4>3 DEF OrderInv, LaterIsKept
      <4> QED
        BY <4>3 DEF LaterIsKept
    <3> QED
      BY <3>2, <3>3
  <2> QED
    BY <2>1, <2>2, <2>3, SavedMove
<1>3. GroupApart'
  <2>0. /\ record.order \in Nat /\ record.group.order \in Nat
        /\ \A w \in Window : ui[w].order \in Nat /\ worker[w].order \in Nat
    BY DEF Typed, Uis, Workers, Records, Groups
  <2>1. NextOrder \in Nat /\ NextOrder > record.order
    BY FreshOrder
  <2>2. \A w \in Window : ui'[w].order \in {0, ui[w].order, NextOrder}
    <3>1. OrdersStep
      BY OrdersMove
    <3> QED
      BY <2>0, <3>1 DEF OrdersStep, UiOrderKept
  <2>3. record.order >= record.group.order
        /\ \A w \in Window : ui[w].order # 0 => ui[w].order # record.group.order
    BY DEF OrderInv, GroupApart
  <2>4. CASE record'.group = record.group /\ record'.order >= record.order /\ record'.order \in Nat
    BY <2>0, <2>1, <2>2, <2>3, <2>4 DEF GroupApart
  <2>5. CASE record' = record
    BY <2>0, <2>4, <2>5
  <2>6. ASSUME NEW v \in Window, SaveIndividual(v) PROVE GroupApart'
    <3>1. record' = record \/ (/\ Replaces(ui[v].order)
                               /\ record' = Record(ui[v].order, {v}, record.group))
      BY <2>6 DEF SaveIndividual
    <3>2. CASE Replaces(ui[v].order) /\ record' = Record(ui[v].order, {v}, record.group)
      <4>1. record'.group = record.group /\ record'.order = ui[v].order
            /\ ui[v].order >= record.order
        BY <3>2 DEF Record, Replaces
      <4> QED
        BY <2>0, <2>4, <4>1
    <3> QED
      BY <2>5, <3>1, <3>2
  <2>7. ASSUME NEW o \in Window, SaveGroup(o) PROVE GroupApart'
    <3>1. worker[o].pc = "save" /\ UNCHANGED ui
      BY <2>7 DEF SaveGroup, At
    <3>2. CASE record' # record
      <4>1. record' = Record(worker[o].order, ui[o].replies,
                             [order |-> worker[o].order, windows |-> ui[o].replies])
        BY <2>7, <3>2 DEF SaveGroup
      <4>2. record'.order = worker[o].order /\ record'.group.order = worker[o].order
        BY <4>1 DEF Record
      <4>3. worker[o].order # 0 /\ \A w \in Window : worker[o].order # ui[w].order
        BY <3>1 DEF OrderInv
      <4> QED
        BY <2>0, <3>1, <4>2, <4>3 DEF GroupApart
    <3> QED
      BY <2>5, <3>2
  <2> QED
    BY <2>5, <2>6, <2>7, SavedMove DEF SavedStays
<1> QED
  BY <1>1, <1>2, <1>3 DEF OrderInv

----------------------------------------------------------------------------
(* The phases of a window.                                                 *)

\* Another thread or another window moves.
LEMMA PhaseKept ==
  ASSUME NEW w \in Window, Phase(w), life'[w] = life[w], ui'[w] = ui[w],
         life[w] # "up" => inbox'[w] = inbox[w],
         life[w] \in {"off", "gone"} => worker'[w] = worker[w],
         life[w] = "off" => restore'[w] = restore[w]
  PROVE  Phase(w)'
BY DEF Phase

\* The UI thread of a window moves that takes messages.
LEMMA PhaseUp ==
  ASSUME NEW w \in Window, life'[w] = "up",
         ui'[w].exiting => ui'[w].actions = ExitOnly,
         ui'[w].group => ui'[w].exiting
  PROVE  Phase(w)'
BY DEF Phase, ExitOnly

LEMMA PhaseVanish ==
  ASSUME Typed, NEW x \in Window, Vanishes(x), NEW w \in Window, Phase(w),
         life[w] = "off" => restore'[w] = restore[w]
  PROVE  Phase(w)'
<1>1. CASE w = x
  <2>1. /\ life'[w] = "gone" /\ GoneUi(ui'[w]) /\ inbox'[w] = << >> /\ worker'[w] = NoWorker
        /\ ui'[w] = [NewUi EXCEPT !.ready = ui[w].ready]
    BY <1>1, VanishEffect
  <2>2. ui'[w].ready = ui[w].ready
    BY <2>1 DEF NewUi
  <2> QED
    BY <2>1, <2>2 DEF Phase, GoneUi
<1>2. CASE w # x
  BY <1>2, VanishEffect, PhaseKept
<1> QED
  BY <1>1, <1>2

\* A message reaches a window that takes messages.
LEMMA PhaseHandles ==
  ASSUME Typed, NEW w \in Window, NEW m \in Mail, Phase(w), life[w] = "up", life'[w] = "up",
         Handles(w, m, ui[w], ui'[w])
  PROVE  Phase(w)'
<1>0. ui[w] \in Uis
  BY OfWindow
<1>1. /\ ui[w].exiting => ui[w].actions = ExitOnly
      /\ ui[w].group => ui[w].exiting
  BY DEF Phase, ExitOnly
<1>2. Queues(w) => ~ui[w].exiting
  <2>1. Len(ExitOnly) = 1 /\ ExitOnly[1].kind = "exit"
    BY DEF ExitOnly, Message
  <2> QED
    BY <1>1, <2>1 DEF Queues, ExitOnly
<1>3. ui'[w].exiting => ui'[w].actions = ExitOnly
  <2>1. CASE m.kind = "request" /\ Queues(w)
             /\ ui'[w] = [ui[w] EXCEPT !.actions = Append(@, Message("capture", m.from, m.exit))]
    BY <1>0, <1>2, <2>1 DEF Uis
  <2>2. CASE ui'[w] = [ui[w] EXCEPT !.expected = @ \ {m.from}, !.replies = @ \cup {m.from}]
    BY <1>0, <1>1, <2>2 DEF Uis
  <2>3. CASE ui'[w] = FailedExit(ui[w])
    BY <1>0, <1>1, <2>3 DEF Uis, FailedExit
  <2> QED
    BY <1>1, <2>1, <2>2, <2>3 DEF Handles, Exits
<1>4. ui'[w].group => ui'[w].exiting
  <2>1. CASE m.kind = "request" /\ Queues(w)
             /\ ui'[w] = [ui[w] EXCEPT !.actions = Append(@, Message("capture", m.from, m.exit))]
    BY <1>0, <1>1, <2>1 DEF Uis
  <2>2. CASE ui'[w] = [ui[w] EXCEPT !.expected = @ \ {m.from}, !.replies = @ \cup {m.from}]
    BY <1>0, <1>1, <2>2 DEF Uis
  <2>3. CASE ui'[w] = FailedExit(ui[w])
    BY <1>0, <1>1, <2>3 DEF Uis, FailedExit
  <2> QED
    BY <1>1, <2>1, <2>2, <2>3 DEF Handles, Exits
<1> QED
  BY <1>3, <1>4, PhaseUp

LEMMA PhaseSend ==
  ASSUME Typed, NEW to \in Window, NEW m \in Mail, NEW ok \in BOOLEAN, Send(to, m, ok),
         UNCHANGED <<life, restore>>,
         \A w \in Window : life[w] \in {"off", "gone"} => worker'[w] = worker[w],
         NEW w \in Window, Phase(w)
  PROVE  Phase(w)'
<1>1. \/ UNCHANGED ui /\ (life[to] # "up" => UNCHANGED inbox)
      \/ life[to] = "up" /\ ui' = [ui EXCEPT ![to] = Received(to, m)] /\ UNCHANGED inbox
  BY DEF Send
<1>2. \A v \in Window \ {to} : inbox'[v] = inbox[v]
  BY DEF Send, Typed
<1>3. CASE UNCHANGED ui /\ (life[to] # "up" => UNCHANGED inbox)
  BY <1>2, <1>3, PhaseKept
<1>4. CASE life[to] = "up" /\ ui' = [ui EXCEPT ![to] = Received(to, m)] /\ UNCHANGED inbox
  <2>1. CASE w = to
    <3>1. Handles(to, m, ui[to], ui'[to])
      BY <1>4, ReceivedEffect DEF Typed
    <3> QED
      BY <1>4, <2>1, <3>1, PhaseHandles
  <2>2. CASE w # to
    BY <1>4, <2>2, PhaseKept DEF Typed
  <2> QED
    BY <2>1, <2>2
<1> QED
  BY <1>1, <1>3, <1>4

\* A process that was not started holds nothing.
LEMMA OffEmpty ==
  ASSUME NEW w \in Window, Phase(w), life[w] = "off"
  PROVE  /\ restore[w].left = 0 /\ restore[w].child = NONE /\ restore[w].children = {}
         /\ ~(restore[w].left > 0)
         /\ GoneUi(ui[w]) /\ worker[w].pc = "none" /\ worker[w].exit = 0
<1>1. restore[w] = NoRestore /\ ui[w] = NewUi /\ worker[w] = NoWorker
  BY DEF Phase
<1>2. NoRestore.left = 0 /\ NoRestore.child = NONE /\ NoRestore.children = {}
      /\ GoneUi(NewUi) /\ NoWorker.pc = "none" /\ NoWorker.exit = 0
  BY DEF NoRestore, NewUi, NoWorker, GoneUi
<1> QED
  BY <1>1, <1>2

\* What a click on the close button, its answer and the startup change in a window.
LEMMA CloseEffect ==
  ASSUME Typed, NEW w \in Window, Confirm(w) \/ RequestClose(w) \/ CancelClose(w)
  PROVE  /\ UNCHANGED <<life, inbox, worker, restore, record, saved, token>> /\ life[w] = "up"
         /\ \A v \in Window \ {w} : ui'[v] = ui[v]
         /\ ui'[w].exiting = ui[w].exiting /\ ui'[w].actions = ui[w].actions
         /\ ui'[w].group = ui[w].group /\ ui'[w].prepared = ui[w].prepared
         /\ ui'[w].busy = ui[w].busy /\ ui'[w].pending = ui[w].pending
         /\ ui'[w].replies = ui[w].replies
<1>0. ui[w] \in Uis
  BY OfWindow
<1>1. UNCHANGED <<life, inbox, worker, restore, record, saved, token>> /\ life[w] = "up"
      /\ \A v \in Window \ {w} : ui'[v] = ui[v]
  BY DEF Confirm, RequestClose, CancelClose, Current, Typed
<1> DEFINE Same(u) == /\ u.exiting = ui[w].exiting /\ u.actions = ui[w].actions
                       /\ u.group = ui[w].group /\ u.prepared = ui[w].prepared
                       /\ u.busy = ui[w].busy /\ u.pending = ui[w].pending
                       /\ u.replies = ui[w].replies
<1>2. ASSUME NEW b, NEW n
      PROVE  /\ Same([ui[w] EXCEPT !.ready = b]) /\ Same([ui[w] EXCEPT !.closing = b])
             /\ Same([ui[w] EXCEPT !.closing = b, !.order = n])
  BY <1>0 DEF Uis
<1> HIDE DEF Same
<1>3. CASE Confirm(w)
  <2>1. ui'[w] = [ui[w] EXCEPT !.ready = TRUE]
    BY <1>3 DEF Confirm, Typed
  <2> QED
    BY <1>1, <1>2, <2>1 DEF Same
<1>4. CASE RequestClose(w)
  <2>1. \/ ui'[w] = [ui[w] EXCEPT !.closing = TRUE, !.order = IF @ = 0 THEN NextOrder ELSE @]
        \/ ui'[w] = [ui[w] EXCEPT !.closing = TRUE]
    BY <1>4 DEF RequestClose, Typed
  <2>2. /\ Same([ui[w] EXCEPT !.closing = TRUE,
                             !.order = IF ui[w].order = 0 THEN NextOrder ELSE ui[w].order])
        /\ Same([ui[w] EXCEPT !.closing = TRUE])
    BY <1>2
  <2>3. Same(ui'[w])
    BY <2>1, <2>2
  <2> QED
    BY <1>1, <2>3 DEF Same
<1>5. CASE CancelClose(w)
  <2>1. ui'[w] = [ui[w] EXCEPT !.closing = FALSE]
    BY <1>5 DEF CancelClose, Typed
  <2> QED
    BY <1>1, <1>2, <2>1 DEF Same
<1> QED
  BY <1>3, <1>4, <1>5

\* What handle_exit changes first.
LEMMA LeavesEffect ==
  ASSUME Typed, OrdersBounded, NEW w \in Window, Leaves(w)
  PROVE  /\ life'[w] = "down" /\ inbox'[w] = << >>
         /\ \A v \in Window \ {w} : /\ life'[v] = life[v] /\ inbox'[v] = inbox[v]
                                    /\ ui'[v] = ui[v]
         /\ ui'[w].exiting /\ ui'[w].order # 0 /\ ui'[w].actions = << >>
         /\ ui'[w].group = ui[w].group /\ ui'[w].prepared = ui[w].prepared
         /\ ui'[w].busy = ui[w].busy /\ ui'[w].pending = ui[w].pending
         /\ ui'[w].replies = ui[w].replies
<1> DEFINE u == [ui[w] EXCEPT !.exiting = TRUE, !.order = IF @ = 0 THEN NextOrder ELSE @,
                              !.actions = << >>, !.closing = FALSE]
<1>1. ui[w] \in Uis /\ NextOrder # 0
  BY OfWindow, FreshOrder
<1>2. /\ u.exiting /\ u.order # 0 /\ u.actions = << >>
      /\ u.group = ui[w].group /\ u.prepared = ui[w].prepared
      /\ u.busy = ui[w].busy /\ u.pending = ui[w].pending
      /\ u.replies = ui[w].replies
  BY <1>1 DEF Uis
<1>3. ui' = [ui EXCEPT ![w] = u]
  BY DEF Leaves
<1> HIDE DEF u
<1>4. /\ ui'[w] = u /\ life'[w] = "down" /\ inbox'[w] = << >>
      /\ \A v \in Window \ {w} : /\ life'[v] = life[v] /\ inbox'[v] = inbox[v]
                                 /\ ui'[v] = ui[v]
  BY <1>3 DEF Leaves, Typed
<1> QED
  BY <1>2, <1>4

LEMMA PhaseStarts ==
  ASSUME Typed, NEW w \in Window, NEW c \in Window, \A v \in Window : Phase(v),
         \/ \E left \in 0 .. record.count : Launch(w, left)
         \/ RestoreChild(w, c) \/ ChildReady(w) \/ RestoreFails(w) \/ Tick(w)
  PROVE  \A v \in Window : Phase(v)'
<1>0. /\ NoRestore.left = 0 /\ NoRestore.child = NONE
      /\ ~NewUi.exiting /\ ~NewUi.group
  BY DEF NoRestore, NewUi
<1>1. ASSUME NEW left \in 0 .. record.count, Launch(w, left), NEW v \in Window PROVE Phase(v)'
  <2>1. /\ life[w] = "off" /\ life'[w] = "up" /\ UNCHANGED <<ui, inbox, worker>>
        /\ \A x \in Window \ {w} : life'[x] = life[x] /\ restore'[x] = restore[x]
    BY <1>1 DEF Launch, Typed
  <2>2. CASE v = w
    <3>1. ~ui'[w].exiting /\ ~ui'[w].group
      BY <1>0, <2>1 DEF Phase
    <3> QED
      BY <2>1, <2>2, <3>1, PhaseUp
  <2>3. CASE v # w
    BY <2>1, <2>3, PhaseKept
  <2> QED
    BY <2>2, <2>3
<1>2. ASSUME RestoreChild(w, c), NEW v \in Window PROVE Phase(v)'
  <2>1. /\ life[c] = "off" /\ life'[c] = "up" /\ UNCHANGED <<ui, inbox, worker>>
        /\ restore[w].left > 0
        /\ \A x \in Window \ {c} : life'[x] = life[x]
        /\ \A x \in Window \ {w} : restore'[x] = restore[x]
    BY <1>2 DEF RestoreChild, Restoring, Typed
  <2>2. life[w] # "off"
    BY <2>1, OffEmpty
  <2>3. CASE v = c
    <3>1. ~ui'[c].exiting /\ ~ui'[c].group
      BY <1>0, <2>1 DEF Phase
    <3> QED
      BY <2>1, <2>3, <3>1, PhaseUp
  <2>4. CASE v # c
    BY <2>1, <2>2, <2>4, PhaseKept
  <2> QED
    BY <2>3, <2>4
<1>3. ASSUME ChildReady(w) \/ Tick(w), NEW v \in Window PROVE Phase(v)'
  <2>1. UNCHANGED <<life, ui, inbox, worker>>
    BY <1>3 DEF ChildReady, Tick
  <2>2. restore' = restore \/ (restore[w].child # NONE /\ \A x \in Window \ {w} : restore'[x] = restore[x])
    BY <1>3 DEF ChildReady, Tick, Typed
  <2>3. life[v] = "off" => restore'[v] = restore[v]
    BY <1>0, <2>2 DEF Phase
  <2> QED
    BY <2>1, <2>3, PhaseKept
<1>4. ASSUME RestoreFails(w), NEW v \in Window PROVE Phase(v)'
  <2>1. restore[w].left > 0 /\ \A x \in Window \ {w} : restore'[x] = restore[x]
    BY <1>4 DEF RestoreFails, Restoring, Typed
  <2>2. life[v] = "off" => restore'[v] = restore[v]
    BY <2>1, OffEmpty
  <2>3. CASE restore[w].child = NONE
    <3>1. UNCHANGED <<life, ui, inbox, worker>>
      BY <1>4, <2>3 DEF RestoreFails
    <3> QED
      BY <2>2, <3>1, PhaseKept
  <2>4. CASE restore[w].child # NONE
    <3>1. restore[w].child \in Window /\ Vanishes(restore[w].child)
      BY <1>4, <2>4, OfWindow DEF RestoreFails, Restores
    <3> QED
      BY <2>2, <3>1, PhaseVanish
  <2> QED
    BY <2>3, <2>4
<1> QED
  BY <1>1, <1>2, <1>3, <1>4

LEMMA PhaseLeaves ==
  ASSUME Typed, OrdersBounded, NEW w \in Window, \A v \in Window : Phase(v),
         life[w] = "up", Leaves(w), UNCHANGED <<worker, restore>>
  PROVE  \A v \in Window : Phase(v)'
<1>1. ASSUME NEW v \in Window PROVE Phase(v)'
  <2>1. CASE v = w
    BY <2>1, LeavesEffect DEF Phase
  <2>2. CASE v # w
    BY <2>2, LeavesEffect, PhaseKept
  <2> QED
    BY <2>1, <2>2
<1> QED
  BY <1>1

LEMMA PhaseCloses ==
  ASSUME Typed, OrdersBounded, NEW w \in Window, \A v \in Window : Phase(v),
         \/ Confirm(w) \/ ConfirmFails(w) \/ RequestClose(w) \/ CancelClose(w) \/ HandleExit(w)
         \/ Release(w) \/ SaveIndividual(w) \/ End(w) \/ Crash(w)
  PROVE  \A v \in Window : Phase(v)'
<1>1. ASSUME Confirm(w) \/ RequestClose(w) \/ CancelClose(w), NEW v \in Window PROVE Phase(v)'
  <2>1. CASE v = w
    BY <1>1, <2>1, CloseEffect, PhaseUp DEF Phase, ExitOnly
  <2>2. CASE v # w
    BY <1>1, <2>2, CloseEffect, PhaseKept
  <2> QED
    BY <2>1, <2>2
<1>2. CASE ConfirmFails(w) \/ HandleExit(w)
  BY <1>2, PhaseLeaves DEF ConfirmFails, HandleExit, Current
<1>3. ASSUME Release(w) \/ SaveIndividual(w), NEW v \in Window PROVE Phase(v)'
  <2>1. /\ UNCHANGED <<ui, inbox, worker, restore>> /\ life[w] \in {"down", "free"}
        /\ life'[w] \in {"free", "saved", "left"}
        /\ \A x \in Window \ {w} : life'[x] = life[x]
    BY <1>3 DEF Release, SaveIndividual, Typed
  <2>2. CASE v = w
    BY <2>1, <2>2 DEF Phase
  <2>3. CASE v # w
    BY <2>1, <2>3, PhaseKept
  <2> QED
    BY <2>2, <2>3
<1>4. CASE End(w) \/ Crash(w)
  BY <1>4, PhaseVanish DEF End, Crash
<1> QED
  BY <1>1, <1>2, <1>3, <1>4

\* A session-exit thread runs only in a process that was started.
LEMMA ThreadLives ==
  ASSUME NEW o \in Window, Phase(o), NEW pc, At(o, pc), pc # "none"
  PROVE  life[o] \notin {"off", "gone"}
BY OffEmpty DEF At

\* A window that is exiting has put off nothing but its exit.
LEMMA ExitingWaits ==
  ASSUME NEW w \in Window, Phase(w), life[w] = "up"
  PROVE  /\ ui[w].exiting => /\ ui[w].actions = ExitOnly /\ Head(ui[w].actions).kind = "exit"
                             /\ ~Queues(w)
         /\ ui[w].group => ui[w].exiting
<1>1. Len(ExitOnly) = 1 /\ ExitOnly[1].kind = "exit" /\ Head(ExitOnly).kind = "exit"
  BY DEF ExitOnly, Message
<1>2. ui[w].exiting => ui[w].actions = ExitOnly
  BY DEF Phase, ExitOnly
<1>3. ui[w].exiting => ~Queues(w)
  BY <1>1, <1>2 DEF Queues, ExitOnly
<1> QED
  BY <1>1, <1>2, <1>3 DEF Phase

\* What a frame changes in its window that begins, replies or asks all to exit.
LEMMA FramesEffect ==
  ASSUME Typed, NEW w \in Window, Phase(w), RequestAll(w) \/ Begin(w) \/ Reply(w)
  PROVE  /\ UNCHANGED <<life, restore>> /\ life[w] = "up"
         /\ \A x \in Window \ {w} : ui'[x] = ui[x] /\ worker'[x] = worker[x]
         /\ ~ui[w].exiting
         /\ ui'[w].exiting = ui[w].exiting /\ ui'[w].group = ui[w].group
<1>0. ui[w] \in Uis
  BY OfWindow
<1>1. /\ UNCHANGED <<life, restore>> /\ life[w] = "up"
      /\ \A x \in Window \ {w} : ui'[x] = ui[x] /\ worker'[x] = worker[x]
      /\ ~ui[w].exiting
  <2>1. CASE RequestAll(w)
    BY <2>1 DEF RequestAll, Current, Typed
  <2>2. CASE Begin(w)
    BY <2>2, ExitingWaits DEF Begin, Typed
  <2>3. CASE Reply(w)
    BY <2>3, ExitingWaits DEF Reply, Typed
  <2> QED
    BY <2>1, <2>2, <2>3
<1>2. ui'[w].exiting = ui[w].exiting /\ ui'[w].group = ui[w].group
  <2>1. CASE RequestAll(w)
    BY <1>0, <2>1 DEF RequestAll, Typed, Uis
  <2>2. CASE Begin(w)
    <3> DEFINE a == Head(ui[w].actions)
               g == {x \in Window : Current(x)}
               u == [ui[w] EXCEPT !.actions = Tail(@), !.prepared = <<w, a.exit>>,
                                  !.pending = a.exit, !.expected = g \ {w}, !.replies = {w}]
               n == [ui[w] EXCEPT !.actions = Tail(@), !.busy = FALSE,
                                  !.prepared = IF Current(w) THEN <<NONE, 0>> ELSE @]
    <3>1. /\ u.exiting = ui[w].exiting /\ u.group = ui[w].group
          /\ n.exiting = ui[w].exiting /\ n.group = ui[w].group
      <4> HIDE DEF a, g
      <4> QED
        BY <1>0 DEF Uis
    <3>2. ui' = [ui EXCEPT ![w] = u] \/ ui' = [ui EXCEPT ![w] = n]
      BY <2>2 DEF Begin
    <3> HIDE DEF u, n
    <3> QED
      BY <3>1, <3>2 DEF Typed
  <2>3. CASE Reply(w)
    BY <1>0, <2>3 DEF Reply, Typed, Uis
  <2> QED
    BY <2>1, <2>2, <2>3
<1> QED
  BY <1>1, <1>2

LEMMA PhaseFrames ==
  ASSUME Typed, NEW w \in Window, \A v \in Window : Phase(v),
         RequestAll(w) \/ Begin(w) \/ Reply(w) \/ Deliver(w)
  PROVE  \A v \in Window : Phase(v)'
<1>0. ui[w] \in Uis /\ inbox[w] \in Seq(Mail)
  BY OfWindow
<1>1. ASSUME RequestAll(w) \/ Begin(w) \/ Reply(w), NEW v \in Window PROVE Phase(v)'
  <2>1. CASE v = w
    BY <1>1, <2>1, FramesEffect, PhaseUp, ExitingWaits
  <2>2. CASE v # w
    <3>1. life[v] # "up" => inbox'[v] = inbox[v]
      BY <1>1 DEF RequestAll, Begin, Reply, Post, Typed
    <3> QED
      BY <1>1, <2>2, <3>1, FramesEffect, PhaseKept
  <2> QED
    BY <2>1, <2>2
<1>2. ASSUME Deliver(w), NEW v \in Window PROVE Phase(v)'
  <2> DEFINE m == Head(inbox[w])
  <2>1. /\ UNCHANGED <<life, restore, worker>> /\ life[w] = "up"
        /\ \A x \in Window \ {w} : ui'[x] = ui[x] /\ inbox'[x] = inbox[x]
        /\ ui'[w] = Received(w, m)
    BY <1>2 DEF Deliver, Typed
  <2>2. m \in Mail
    BY <1>0, <1>2, HeadTailProperties DEF Deliver
  <2> HIDE DEF m
  <2>3. CASE v = w
    BY <2>1, <2>2, <2>3, ReceivedEffect, PhaseHandles
  <2>4. CASE v # w
    BY <2>1, <2>4, PhaseKept
  <2> QED
    BY <2>3, <2>4
<1> QED
  BY <1>1, <1>2

LEMMA PhaseThreads ==
  ASSUME Typed, NEW o \in Window, NEW w \in Window, \A v \in Window : Phase(v),
         \/ TrayExit(o, w) \/ Ask(o, w) \/ CloseWindow(o, w) \/ CloseOwner(o) \/ Fail(o)
         \/ Identify(o) \/ Collect(o) \/ WaitTimesOut(o) \/ SaveGroup(o)
  PROVE  \A v \in Window : Phase(v)'
<1>0. /\ worker[o] \in Workers /\ ui[o] \in Uis /\ worker[o].exit \in 0 .. MaxExits
      /\ 0 \in 0 .. MaxExits
  BY OfWindow, SessionAssumption DEF Workers
<1>1. \A kind \in Kinds : /\ Message(kind, o, worker[o].exit) \in Mail
                          /\ Message(kind, o, 0) \in Mail
  BY <1>0 DEF Message, Mail
<1>2. /\ UNCHANGED <<life, restore>> /\ \A v \in Window \ {o} : worker'[v] = worker[v]
  BY DEF TrayExit, Ask, CloseWindow, CloseOwner, Fail, Identify, Collect, WaitTimesOut, SaveGroup,
         Typed
<1>3. life[o] \notin {"off", "gone"}
  <2>1. CASE TrayExit(o, w)
    BY <2>1 DEF TrayExit, Current
  <2>2. CASE ~TrayExit(o, w)
    BY <2>2, ThreadLives DEF Ask, CloseWindow, CloseOwner, Fail, Identify, Collect, WaitTimesOut,
                             SaveGroup
  <2> QED
    BY <2>1, <2>2
<1>4. \A v \in Window : life[v] \in {"off", "gone"} => worker'[v] = worker[v]
  BY <1>2, <1>3
<1>5. CASE UNCHANGED <<ui, inbox>>
  BY <1>2, <1>4, <1>5, PhaseKept
<1>6. ASSUME NEW to \in Window, NEW kind \in Kinds, NEW e \in {0, worker[o].exit},
             NEW ok \in BOOLEAN, Send(to, Message(kind, o, e), ok), NEW v \in Window
      PROVE  Phase(v)'
  BY <1>1, <1>2, <1>4, <1>6, PhaseSend
<1>7. CASE TrayExit(o, w)
  <2>1. CASE o = w
    <3>1. Exits(ui[w], Exiting(ui[w])) /\ Exiting(ui[w]).group = ui[w].group
      BY <1>0, <2>1, ExitingEffect
    <3>2. /\ life[w] = "up" /\ ui' = [ui EXCEPT ![w] = Exiting(ui[w])] /\ UNCHANGED inbox
          /\ ~ui[w].exiting
      BY <1>7, <2>1 DEF TrayExit, Current
    <3>3. /\ ui'[w].exiting => ui'[w].actions = ExitOnly
          /\ ui'[w].group => ui'[w].exiting
      BY <3>1, <3>2 DEF Exits, Typed
    <3>4. ASSUME NEW v \in Window PROVE Phase(v)'
      <4>1. CASE v = w
        BY <1>2, <3>2, <3>3, <4>1, PhaseUp
      <4>2. CASE v # w
        BY <1>2, <1>4, <3>2, <4>2, PhaseKept DEF Typed
      <4> QED
        BY <4>1, <4>2
    <3> QED
      BY <3>4
  <2>2. CASE o # w
    <3>1. PICK ok \in BOOLEAN : Send(w, Message("exit", o, 0), ok)
      BY <1>7, <2>2 DEF TrayExit
    <3> QED
      BY <1>6, <3>1 DEF Kinds
  <2> QED
    BY <2>1, <2>2
<1>8. CASE Ask(o, w)
  <2>1. PICK ok \in BOOLEAN : Send(w, Message("request", o, worker[o].exit), ok)
    BY <1>8 DEF Ask
  <2> QED
    BY <1>6, <2>1 DEF Kinds
<1>9. CASE CloseWindow(o, w) /\ Current(w)
  <2>1. PICK ok \in BOOLEAN : Send(w, Message("close", o, worker[o].exit), ok)
    BY <1>9 DEF CloseWindow
  <2> QED
    BY <1>6, <2>1 DEF Kinds
<1>10. CASE CloseOwner(o)
  <2>1. PICK ok \in BOOLEAN : Send(o, Message("close", o, worker[o].exit), ok)
    BY <1>10 DEF CloseOwner
  <2> QED
    BY <1>6, <2>1 DEF Kinds
<1>11. CASE Fail(o)
  <2>1. UNCHANGED ui /\ \A v \in Window : life[v] # "up" => inbox'[v] = inbox[v]
    BY <1>11 DEF Fail, Post, Typed
  <2> QED
    BY <1>2, <1>4, <2>1, PhaseKept
<1> QED
  BY <1>5, <1>7, <1>8, <1>9, <1>10, <1>11
     DEF CloseWindow, Identify, Collect, WaitTimesOut, SaveGroup

LEMMA PhaseStep ==
  ASSUME Typed, OrdersBounded, \A v \in Window : Phase(v), [Next]_vars
  PROVE  \A v \in Window : Phase(v)'
<1>1. CASE UNCHANGED vars
  BY <1>1, PhaseKept DEF vars
<1> QED
  BY <1>1, PhaseStarts, PhaseCloses, PhaseFrames, PhaseThreads DEF Next

----------------------------------------------------------------------------
(* One global exit at a time.                                              *)

\* Those of the kind in t are in s, in the same places or one further on.
FewerOf(kind, s, t) == \E d \in {0, 1} : \A i \in DOMAIN t :
  t[i].kind = kind => i + d \in DOMAIN s /\ t[i] = s[i + d]

LEMMA FewerSame ==
  ASSUME NEW kind, NEW S, NEW s \in Seq(S)
  PROVE  FewerOf(kind, s, s)
<1>1. \A i \in DOMAIN s : i + 0 = i
  OBVIOUS
<1> QED
  BY <1>1 DEF FewerOf

LEMMA FewerTail ==
  ASSUME NEW kind, NEW S, NEW s \in Seq(S), s # << >>
  PROVE  FewerOf(kind, s, Tail(s))
<1>1. \A i \in DOMAIN Tail(s) : i + 1 \in DOMAIN s /\ Tail(s)[i] = s[i + 1]
  OBVIOUS
<1> QED
  BY <1>1 DEF FewerOf

LEMMA FewerAppend ==
  ASSUME NEW kind, NEW S, NEW s \in Seq(S), NEW m \in S, m.kind # kind
  PROVE  FewerOf(kind, s, Append(s, m))
<1>1. \A i \in DOMAIN Append(s, m) :
        \/ i \in DOMAIN s /\ i + 0 = i /\ Append(s, m)[i] = s[i]
        \/ Append(s, m)[i] = m
  OBVIOUS
<1> QED
  BY <1>1 DEF FewerOf

LEMMA FewerNone ==
  ASSUME NEW kind, NEW s, NEW t, \A i \in DOMAIN t : t[i].kind # kind
  PROVE  FewerOf(kind, s, t)
BY DEF FewerOf

LEMMA FewerExit ==
  ASSUME NEW s
  PROVE  FewerOf("exitall", s, ExitOnly) /\ FewerOf("exitall", s, << >>)
         /\ FewerOf("failed", s, << >>)
<1>1. \A i \in DOMAIN ExitOnly : ExitOnly[i].kind = "exit"
  BY DEF ExitOnly, Message
<1> QED
  BY <1>1, FewerNone

\* The exit of w stays as it is, but for what it has left behind.
ExitKept(w) ==
  /\ ui'[w].busy = ui[w].busy /\ ui'[w].pending = ui[w].pending
  /\ w \in ui[w].replies => w \in ui'[w].replies
  /\ Active(w)' => Active(w) /\ worker'[w].exit = worker[w].exit
  /\ FewerOf("exitall", ui[w].actions, ui'[w].actions)
  /\ FewerOf("failed", inbox[w], inbox'[w])

\* ... and w has asked for no new one.
ExitStays(w) == OneExit(w)' /\ FewerOf("exitall", ui[w].actions, ui'[w].actions)

LEMMA OneExitKept ==
  ASSUME Typed, Typed', NEW w \in Window, OneExit(w), ExitKept(w), UNCHANGED token
  PROVE  ExitStays(w)
<1>1. PICK d \in {0, 1} : \A i \in DOMAIN ui'[w].actions : ui'[w].actions[i].kind = "exitall" =>
        i + d \in DOMAIN ui[w].actions /\ ui'[w].actions[i] = ui[w].actions[i + d]
  BY DEF ExitKept, FewerOf
<1>2. PICK f \in {0, 1} : \A i \in DOMAIN inbox'[w] : inbox'[w][i].kind = "failed" =>
        i + f \in DOMAIN inbox[w] /\ inbox'[w][i] = inbox[w][i + f]
  BY DEF ExitKept, FewerOf
<1>3. /\ DOMAIN ui'[w].actions \subseteq Nat /\ DOMAIN inbox'[w] \subseteq Nat
  <2>1. ui'[w].actions \in Seq(Actions) /\ inbox'[w] \in Seq(Mail)
    BY DEF Typed, Uis
  <2> QED
    BY <2>1
<1>4. Active(w)' => /\ ui'[w].busy /\ worker'[w].exit \in 1 .. token'
                    /\ ui'[w].pending = worker'[w].exit /\ w \in ui'[w].replies
  BY DEF ExitKept, OneExit
<1>5. ui'[w].pending # 0 => ui'[w].busy /\ \A i \in DOMAIN ui'[w].actions : ~IsExitAll(w, i)'
  BY <1>1 DEF ExitKept, OneExit, IsExitAll
<1>6. ASSUME NEW i \in DOMAIN ui'[w].actions, IsExitAll(w, i)'
      PROVE  /\ ui'[w].busy /\ ui'[w].actions[i].exit \in 1 .. token'
             /\ \A j \in DOMAIN ui'[w].actions : IsExitAll(w, j)' => i = j
  <2>1. i + d \in DOMAIN ui[w].actions /\ ui'[w].actions[i] = ui[w].actions[i + d]
    BY <1>1, <1>6 DEF IsExitAll
  <2>2. IsExitAll(w, i + d)
    BY <1>6, <2>1 DEF IsExitAll
  <2>3. ui'[w].busy /\ ui'[w].actions[i].exit \in 1 .. token'
    BY <2>1, <2>2 DEF ExitKept, OneExit
  <2>4. ASSUME NEW j \in DOMAIN ui'[w].actions, IsExitAll(w, j)' PROVE i = j
    <3>1. j + d \in DOMAIN ui[w].actions /\ ui'[w].actions[j] = ui[w].actions[j + d]
      BY <1>1, <2>4 DEF IsExitAll
    <3>2. IsExitAll(w, j + d)
      BY <2>4, <3>1 DEF IsExitAll
    <3>3. i + d = j + d
      BY <2>1, <2>2, <3>1, <3>2 DEF OneExit
    <3> QED
      BY <1>3, <3>3
  <2> QED
    BY <2>3, <2>4
<1>7. ASSUME NEW i \in DOMAIN inbox'[w], IsFailed(w, i)'
      PROVE  /\ ui'[w].pending = inbox'[w][i].exit /\ inbox'[w][i].exit # 0 /\ ~Active(w)'
             /\ \A j \in DOMAIN inbox'[w] : IsFailed(w, j)' => i = j
  <2>1. i + f \in DOMAIN inbox[w] /\ inbox'[w][i] = inbox[w][i + f]
    BY <1>2, <1>7 DEF IsFailed
  <2>2. IsFailed(w, i + f)
    BY <1>7, <2>1 DEF IsFailed
  <2>3. ui'[w].pending = inbox'[w][i].exit /\ inbox'[w][i].exit # 0 /\ ~Active(w)'
    BY <2>1, <2>2 DEF ExitKept, OneExit
  <2>4. ASSUME NEW j \in DOMAIN inbox'[w], IsFailed(w, j)' PROVE i = j
    <3>1. j + f \in DOMAIN inbox[w] /\ inbox'[w][j] = inbox[w][j + f]
      BY <1>2, <2>4 DEF IsFailed
    <3>2. IsFailed(w, j + f)
      BY <2>4, <3>1 DEF IsFailed
    <3>3. i + f = j + f
      BY <2>1, <2>2, <3>1, <3>2 DEF OneExit
    <3> QED
      BY <1>3, <3>3
  <2> QED
    BY <2>3, <2>4
<1> QED
  BY <1>4, <1>5, <1>6, <1>7 DEF OneExit, ExitStays, ExitKept

\* What stays as it was.
LEMMA ExitSame ==
  ASSUME Typed, NEW w \in Window, ui'[w] = ui[w], inbox'[w] = inbox[w],
         Active(w)' => Active(w) /\ worker'[w].exit = worker[w].exit
  PROVE  ExitKept(w)
<1>1. ui[w].actions \in Seq(Actions) /\ inbox[w] \in Seq(Mail)
  BY OfWindow DEF Uis
<1> QED
  BY <1>1, FewerSame DEF ExitKept

LEMMA SameWorker ==
  ASSUME NEW w \in Window, worker'[w] = worker[w]
  PROVE  Active(w)' => Active(w) /\ worker'[w].exit = worker[w].exit
BY DEF Active

LEMMA ExitHandles ==
  ASSUME Typed, NEW w \in Window, NEW m \in Mail, m.kind # "failed",
         Handles(w, m, ui[w], ui'[w])
  PROVE  /\ ui'[w].busy = ui[w].busy /\ ui'[w].pending = ui[w].pending
         /\ w \in ui[w].replies => w \in ui'[w].replies
         /\ FewerOf("exitall", ui[w].actions, ui'[w].actions)
<1>0. ui[w] \in Uis /\ ui[w].actions \in Seq(Actions) /\ m.from \in Window /\ m.exit \in 0 .. MaxExits
  BY OfWindow DEF Uis, Mail
<1>1. CASE ui'[w] = ui[w]
  BY <1>0, <1>1, FewerSame
<1>2. CASE ui'[w] = [ui[w] EXCEPT !.actions = Append(@, Message("capture", m.from, m.exit))]
  <2>1. /\ ui'[w].actions = Append(ui[w].actions, Message("capture", m.from, m.exit))
        /\ ui'[w].busy = ui[w].busy /\ ui'[w].pending = ui[w].pending
        /\ ui'[w].replies = ui[w].replies
    BY <1>0, <1>2 DEF Uis
  <2>2. Message("capture", m.from, m.exit) \in Actions
        /\ Message("capture", m.from, m.exit).kind = "capture"
    BY <1>0 DEF Message, Actions
  <2>3. FewerOf("exitall", ui[w].actions, ui'[w].actions)
    BY <1>0, <2>1, <2>2, FewerAppend
  <2> QED
    BY <2>1, <2>3
<1>3. CASE ui'[w] = [ui[w] EXCEPT !.expected = @ \ {m.from}, !.replies = @ \cup {m.from}]
  <2>1. /\ ui'[w].actions = ui[w].actions
        /\ ui'[w].busy = ui[w].busy /\ ui'[w].pending = ui[w].pending
        /\ ui'[w].replies = ui[w].replies \cup {m.from}
    BY <1>0, <1>3 DEF Uis
  <2> QED
    BY <1>0, <2>1, FewerSame
<1>4. CASE Exits(ui[w], ui'[w])
  BY <1>0, <1>4, FewerSame, FewerExit DEF Exits
<1> QED
  BY <1>1, <1>2, <1>3, <1>4 DEF Handles

LEMMA ExitSend ==
  ASSUME Typed, NEW to \in Window, NEW m \in Mail, m.kind # "failed", NEW ok \in BOOLEAN,
         Send(to, m, ok), NEW w \in Window,
         Active(w)' => Active(w) /\ worker'[w].exit = worker[w].exit
  PROVE  ExitKept(w)
<1>0. ui[w].actions \in Seq(Actions) /\ inbox[w] \in Seq(Mail)
  BY OfWindow DEF Uis
<1>1. CASE w # to
  <2>1. ui'[w] = ui[w] /\ inbox'[w] = inbox[w]
    BY <1>1 DEF Send, Typed
  <2> QED
    BY <2>1, ExitSame
<1>2. CASE w = to /\ ui'[w] = Received(w, m) /\ inbox'[w] = inbox[w]
  <2>1. Handles(w, m, ui[w], ui'[w])
    BY <1>2, ReceivedEffect
  <2> QED
    BY <1>0, <1>2, <2>1, ExitHandles, FewerSame DEF ExitKept
<1>3. CASE w = to /\ ui'[w] = ui[w] /\ inbox'[w] = Append(inbox[w], m)
  <2>1. FewerOf("failed", inbox[w], inbox'[w])
    BY <1>0, <1>3, FewerAppend
  <2> QED
    BY <1>0, <1>3, <2>1, FewerSame DEF ExitKept
<1>4. CASE ui'[w] = ui[w] /\ inbox'[w] = inbox[w]
  BY <1>4, ExitSame
<1> QED
  BY <1>1, <1>2, <1>3, <1>4 DEF Send, Typed

LEMMA OneExitVanish ==
  ASSUME Typed, Typed', NEW x \in Window, Vanishes(x), UNCHANGED token,
         NEW w \in Window, OneExit(w)
  PROVE  ExitStays(w)
<1>1. CASE w = x
  <2>1. GoneUi(ui'[w]) /\ inbox'[w] = << >> /\ worker'[w] = NoWorker
    BY <1>1, VanishEffect
  <2>2. ~Active(w)' /\ ui'[w].pending = 0 /\ DOMAIN ui'[w].actions = {} /\ DOMAIN inbox'[w] = {}
    BY <2>1 DEF Active, GoneUi, NoWorker
  <2>3. FewerOf("exitall", ui[w].actions, ui'[w].actions)
    BY <2>1, FewerExit DEF GoneUi
  <2> QED
    BY <2>2, <2>3 DEF OneExit, ExitStays
<1>2. CASE w # x
  <2>1. ui'[w] = ui[w] /\ inbox'[w] = inbox[w] /\ worker'[w] = worker[w]
    BY <1>2, VanishEffect
  <2> QED
    BY <2>1, SameWorker, ExitSame, OneExitKept
<1> QED
  BY <1>1, <1>2

\* Starting and closing windows.
LEMMA ExitWindows ==
  ASSUME Typed, OrdersBounded, Typed', NEW w \in Window, NEW c \in Window, \A v \in Window : OneExit(v),
         \/ \E left \in 0 .. record.count : Launch(w, left)
         \/ RestoreChild(w, c) \/ ChildReady(w) \/ RestoreFails(w) \/ Tick(w)
         \/ Confirm(w) \/ ConfirmFails(w) \/ RequestClose(w) \/ CancelClose(w) \/ HandleExit(w)
         \/ Release(w) \/ SaveIndividual(w) \/ End(w) \/ Crash(w)
  PROVE  \A v \in Window : ExitStays(v)
<1>0. ui[w] \in Uis /\ ui[w].actions \in Seq(Actions) /\ inbox[w] \in Seq(Mail) /\ UNCHANGED token
  BY OfWindow DEF Uis, Launch, RestoreChild, ChildReady, RestoreFails, Tick, Confirm, ConfirmFails,
         RequestClose, CancelClose, HandleExit, Release, SaveIndividual, End, Crash
<1>1. CASE UNCHANGED <<ui, inbox, worker>>
  <2>1. \A v \in Window : ExitKept(v)
    BY <1>1, SameWorker, ExitSame
  <2> QED
    BY <1>0, <2>1, OneExitKept
<1>2. CASE Confirm(w) \/ RequestClose(w) \/ CancelClose(w)
  <2>1. ExitKept(w)
    BY <1>0, <1>2, CloseEffect, SameWorker, FewerSame DEF ExitKept
  <2>2. \A v \in Window \ {w} : ExitKept(v)
    BY <1>2, CloseEffect, SameWorker, ExitSame
  <2> QED
    BY <1>0, <2>1, <2>2, OneExitKept
<1>3. CASE ConfirmFails(w) \/ HandleExit(w)
  <2>1. Leaves(w) /\ UNCHANGED worker
    BY <1>3 DEF ConfirmFails, HandleExit
  <2>2. ExitKept(w)
    BY <2>1, LeavesEffect, SameWorker, FewerExit DEF ExitKept
  <2>3. \A v \in Window \ {w} : ExitKept(v)
    BY <2>1, LeavesEffect, SameWorker, ExitSame
  <2> QED
    BY <1>0, <2>2, <2>3, OneExitKept
<1>4. CASE End(w) \/ Crash(w)
  BY <1>0, <1>4, OneExitVanish DEF End, Crash
<1>5. CASE RestoreFails(w) /\ restore[w].child # NONE
  <2>1. restore[w].child \in Window /\ Vanishes(restore[w].child)
    BY <1>5, OfWindow DEF RestoreFails, Restores
  <2> QED
    BY <1>0, <2>1, OneExitVanish
<1> QED
  BY <1>1, <1>2, <1>3, <1>4, <1>5
     DEF Launch, RestoreChild, ChildReady, RestoreFails, Tick, Release, SaveIndividual

\* A process that is not busy has no global exit under way.
LEMMA NotBusy ==
  ASSUME Typed, NEW w \in Window, OneExit(w), ~ui[w].busy
  PROVE  /\ ui[w].pending = 0 /\ ~Active(w)
         /\ \A i \in DOMAIN ui[w].actions : ~IsExitAll(w, i)
         /\ \A i \in DOMAIN inbox[w] : ~IsFailed(w, i)
BY DEF OneExit

LEMMA ExitRequested ==
  ASSUME Typed, Typed', NEW o \in Window, \A v \in Window : OneExit(v), RequestAll(o)
  PROVE  \A v \in Window : OneExit(v)'
<1>0. /\ ui[o] \in Uis /\ ui[o].actions \in Seq(Actions) /\ token \in Nat /\ token' = token + 1
      /\ UNCHANGED <<inbox, worker>>
  <2>0. token \in Nat
    BY SessionAssumption DEF Typed
  <2>1. ui[o] \in Uis /\ ui[o].actions \in Seq(Actions) /\ token \in Nat
    BY <2>0, OfWindow DEF Uis
  <2>2. token' = token + 1 /\ UNCHANGED <<inbox, worker>>
    BY DEF RequestAll
  <2> QED
    BY <2>1, <2>2
<1>1. /\ ui[o].pending = 0 /\ ~Active(o)
      /\ \A i \in DOMAIN ui[o].actions : ~IsExitAll(o, i)
      /\ \A i \in DOMAIN inbox[o] : ~IsFailed(o, i)
  BY NotBusy DEF RequestAll
<1> DEFINE m == Message("exitall", o, token')
<1>2. /\ ui'[o].busy /\ ui'[o].pending = 0 /\ ui'[o].actions = Append(ui[o].actions, m)
      /\ \A v \in Window \ {o} : ui'[v] = ui[v]
  <2> DEFINE u == [ui[o] EXCEPT !.busy = TRUE, !.actions = Append(@, m)]
  <2>1. u.busy /\ u.pending = ui[o].pending /\ u.actions = Append(ui[o].actions, m)
    <3> HIDE DEF m
    <3> QED
      BY <1>0 DEF Uis
  <2>2. ui' = [ui EXCEPT ![o] = u]
    BY DEF RequestAll
  <2> HIDE DEF u
  <2> QED
    BY <1>1, <2>1, <2>2 DEF Typed
<1>3. m.kind = "exitall" /\ m.exit = token'
  BY DEF Message
<1> HIDE DEF m
<1>4. OneExit(o)'
  <2>1. \A i \in DOMAIN ui'[o].actions :
          \/ i \in DOMAIN ui[o].actions /\ ui'[o].actions[i] = ui[o].actions[i]
          \/ i = Len(ui[o].actions) + 1 /\ ui'[o].actions[i] = m
    BY <1>0, <1>2
  <2>2. \A i \in DOMAIN ui'[o].actions : IsExitAll(o, i)' =>
          i = Len(ui[o].actions) + 1 /\ ui'[o].actions[i] = m
    BY <1>1, <2>1 DEF IsExitAll
  <2>3. token' \in 1 .. token' /\ ~Active(o)' /\ \A i \in DOMAIN inbox'[o] : ~IsFailed(o, i)'
    BY <1>0, <1>1 DEF Active, IsFailed
  <2> QED
    BY <1>2, <1>3, <2>2, <2>3 DEF OneExit
<1>5. ASSUME NEW v \in Window \ {o} PROVE OneExit(v)'
  <2>1. OneExit(v) /\ ui'[v] = ui[v] /\ inbox'[v] = inbox[v] /\ worker'[v] = worker[v]
    BY <1>0, <1>2
  <2>2. \A e \in 1 .. token : e \in 1 .. token'
    BY <1>0
  <2> QED
    BY <2>1, <2>2 DEF OneExit, Active, IsExitAll, IsFailed
<1> QED
  BY <1>4, <1>5

LEMMA ExitBegins ==
  ASSUME Typed, Typed', NEW o \in Window, \A v \in Window : OneExit(v), Begin(o)
  PROVE  \A v \in Window : ExitStays(v)
<1> DEFINE a == Head(ui[o].actions)
           g == {w \in Window : Current(w)}
           u == [ui[o] EXCEPT !.actions = Tail(@), !.prepared = <<o, a.exit>>,
                              !.pending = a.exit, !.expected = g \ {o}, !.replies = {o}]
           n == [ui[o] EXCEPT !.actions = Tail(@), !.busy = FALSE,
                              !.prepared = IF Current(o) THEN <<NONE, 0>> ELSE @]
           k == [pc |-> "start", exit |-> a.exit, group |-> g, todo |-> {}, order |-> 0]
<1>0. /\ ui[o] \in Uis /\ ui[o].actions \in Seq(Actions) /\ UNCHANGED <<token, inbox>>
      /\ token \in Nat
  <2>0. token \in Nat
    BY SessionAssumption DEF Typed
  <2>1. ui[o] \in Uis /\ ui[o].actions \in Seq(Actions) /\ token \in Nat
    BY <2>0, OfWindow DEF Uis
  <2>2. UNCHANGED <<token, inbox>>
    BY DEF Begin
  <2> QED
    BY <2>1, <2>2
<1>1. /\ 1 \in DOMAIN ui[o].actions /\ a = ui[o].actions[1] /\ IsExitAll(o, 1)
      /\ \A i \in DOMAIN Tail(ui[o].actions) :
           i + 1 \in DOMAIN ui[o].actions /\ i + 1 # 1
           /\ Tail(ui[o].actions)[i] = ui[o].actions[i + 1]
  <2>1. ui[o].actions # << >> /\ a.kind = "exitall"
    BY DEF Begin
  <2>2. 1 \in DOMAIN ui[o].actions /\ a = ui[o].actions[1]
    BY <1>0, <2>1
  <2>3. \A i \in DOMAIN Tail(ui[o].actions) :
           i + 1 \in DOMAIN ui[o].actions /\ i + 1 # 1
           /\ Tail(ui[o].actions)[i] = ui[o].actions[i + 1]
    BY <1>0, <2>1
  <2> QED
    BY <2>1, <2>2, <2>3 DEF IsExitAll
<1>2. /\ ui[o].busy /\ a.exit \in 1 .. token
      /\ \A i \in DOMAIN Tail(ui[o].actions) : Tail(ui[o].actions)[i].kind # "exitall"
  BY <1>1 DEF OneExit, IsExitAll
<1>3. ui[o].pending = 0
  BY <1>1 DEF OneExit
<1>4. ~Active(o) /\ \A i \in DOMAIN inbox[o] : ~IsFailed(o, i)
  <2>1. 0 \notin 1 .. token
    OBVIOUS
  <2> QED
    BY <1>3, <2>1 DEF OneExit
<1>5. /\ u.actions = Tail(ui[o].actions) /\ u.pending = a.exit /\ u.replies = {o}
      /\ u.busy = ui[o].busy
      /\ n.actions = Tail(ui[o].actions) /\ n.pending = ui[o].pending
      /\ k.pc = "start" /\ k.exit = a.exit
  <2> HIDE DEF a, g
  <2> QED
    BY <1>0 DEF Uis
<1>6. \/ ui' = [ui EXCEPT ![o] = u] /\ worker' = [worker EXCEPT ![o] = k]
      \/ ui' = [ui EXCEPT ![o] = n] /\ worker' = worker
  BY DEF Begin
<1> HIDE DEF a, g, u, n, k
<1>7. ExitStays(o)
  <2>0. FewerOf("exitall", ui[o].actions, ui'[o].actions)
    <3>1. ui'[o].actions = Tail(ui[o].actions) /\ ui[o].actions # << >>
      BY <1>0, <1>1, <1>5, <1>6 DEF Typed
    <3> QED
      BY <1>0, <3>1, FewerTail
  <2>1. CASE ui' = [ui EXCEPT ![o] = u] /\ worker' = [worker EXCEPT ![o] = k]
    <3>1. /\ ui'[o].actions = Tail(ui[o].actions) /\ ui'[o].pending = a.exit
          /\ ui'[o].replies = {o} /\ ui'[o].busy
          /\ worker'[o].exit = a.exit
      BY <1>2, <1>5, <2>1 DEF Typed
    <3>2. /\ \A i \in DOMAIN ui'[o].actions : ~IsExitAll(o, i)'
          /\ \A i \in DOMAIN inbox'[o] : ~IsFailed(o, i)'
      BY <1>0, <1>2, <1>4, <3>1 DEF IsExitAll, IsFailed
    <3> QED
      BY <1>0, <1>2, <2>0, <3>1, <3>2 DEF OneExit, ExitStays
  <2>2. CASE ui' = [ui EXCEPT ![o] = n] /\ worker' = worker
    <3>1. ui'[o].actions = Tail(ui[o].actions) /\ ui'[o].pending = 0
      BY <1>3, <1>5, <2>2 DEF Typed
    <3>2. /\ \A i \in DOMAIN ui'[o].actions : ~IsExitAll(o, i)'
          /\ \A i \in DOMAIN inbox'[o] : ~IsFailed(o, i)'
          /\ ~Active(o)'
      BY <1>0, <1>2, <1>4, <2>2, <3>1 DEF IsExitAll, IsFailed, Active
    <3> QED
      BY <2>0, <3>1, <3>2 DEF OneExit, ExitStays
  <2> QED
    BY <1>6, <2>1, <2>2
<1>8. ASSUME NEW v \in Window \ {o} PROVE ExitStays(v)
  <2>1. ui'[v] = ui[v] /\ inbox'[v] = inbox[v] /\ worker'[v] = worker[v]
    BY <1>0, <1>6 DEF Typed
  <2> QED
    BY <1>0, <2>1, SameWorker, ExitSame, OneExitKept
<1> QED
  BY <1>7, <1>8

LEMMA PostFewer ==
  ASSUME Typed, NEW to \in Window, NEW m \in Mail, m.kind # "failed", NEW arrives \in BOOLEAN,
         Post(to, m, arrives), NEW v \in Window
  PROVE  FewerOf("failed", inbox[v], inbox'[v])
<1>1. inbox[v] \in Seq(Mail)
  BY OfWindow
<1>2. inbox'[v] = inbox[v] \/ inbox'[v] = Append(inbox[v], m)
  BY DEF Post, Typed
<1> QED
  BY <1>1, <1>2, FewerSame, FewerAppend

LEMMA ExitReplies ==
  ASSUME Typed, Typed', NEW w \in Window, \A v \in Window : OneExit(v), Reply(w)
  PROVE  \A v \in Window : ExitStays(v)
<1> DEFINE a == Head(ui[w].actions)
<1>0. ui[w] \in Uis /\ ui[w].actions \in Seq(Actions)
  BY OfWindow DEF Uis
<1>1. ui[w].actions # << >> /\ a.kind = "capture" /\ UNCHANGED <<worker, token>>
  BY DEF Reply
<1>2. a \in Actions
  BY <1>0, <1>1, HeadTailProperties
<1>3. a.from \in Window /\ a.exit \in 0 .. MaxExits
  BY <1>1, <1>2 DEF Actions, Message
<1>4. \A v \in Window : FewerOf("failed", inbox[v], inbox'[v])
  <2>1. CASE Current(a.from)
    <3>1. PICK arrives \in BOOLEAN : Post(a.from, Message("reply", w, a.exit), arrives)
      BY <2>1 DEF Reply
    <3>2. Message("reply", w, a.exit) \in Mail /\ Message("reply", w, a.exit).kind # "failed"
      BY <1>3 DEF Message, Mail, Kinds
    <3> HIDE DEF a
    <3> QED
      BY <1>3, <3>1, <3>2, PostFewer
  <2>2. CASE ~Current(a.from)
    <3>1. UNCHANGED inbox
      BY <2>2 DEF Reply
    <3> QED
      BY <3>1, OfWindow, FewerSame
  <2> QED
    BY <2>1, <2>2
<1>5. /\ ui'[w].actions = Tail(ui[w].actions) /\ ui'[w].busy = ui[w].busy
      /\ ui'[w].pending = ui[w].pending /\ ui'[w].replies = ui[w].replies
      /\ \A v \in Window \ {w} : ui'[v] = ui[v]
  <2> DEFINE u == [ui[w] EXCEPT !.actions = Tail(@), !.prepared = <<a.from, a.exit>>]
             n == [ui[w] EXCEPT !.actions = Tail(@)]
  <2>1. /\ u.actions = Tail(ui[w].actions) /\ u.busy = ui[w].busy
        /\ u.pending = ui[w].pending /\ u.replies = ui[w].replies
        /\ n.actions = Tail(ui[w].actions) /\ n.busy = ui[w].busy
        /\ n.pending = ui[w].pending /\ n.replies = ui[w].replies
    <3> HIDE DEF a
    <3> QED
      BY <1>0 DEF Uis
  <2>2. ui' = [ui EXCEPT ![w] = u] \/ ui' = [ui EXCEPT ![w] = n]
    BY DEF Reply
  <2> HIDE DEF u, n
  <2> QED
    BY <2>1, <2>2 DEF Typed
<1>6. \A v \in Window : FewerOf("exitall", ui[v].actions, ui'[v].actions)
  <2>1. FewerOf("exitall", ui[w].actions, ui'[w].actions)
    BY <1>0, <1>1, <1>5, FewerTail
  <2>2. \A v \in Window \ {w} : ui[v].actions \in Seq(Actions)
    BY OfWindow DEF Uis
  <2> QED
    BY <1>5, <2>1, <2>2, FewerSame
<1>7. \A v \in Window : ExitKept(v)
  BY <1>1, <1>4, <1>5, <1>6, SameWorker DEF ExitKept
<1> QED
  BY <1>1, <1>7, OneExitKept

LEMMA ExitDelivers ==
  ASSUME Typed, Typed', NEW w \in Window, \A v \in Window : OneExit(v), Deliver(w)
  PROVE  \A v \in Window : ExitStays(v)
<1> DEFINE m == Head(inbox[w])
<1>0. ui[w] \in Uis /\ ui[w].actions \in Seq(Actions) /\ inbox[w] \in Seq(Mail)
  BY OfWindow DEF Uis
<1>1. /\ inbox[w] # << >> /\ UNCHANGED <<worker, token>>
      /\ ui'[w] = Received(w, m) /\ inbox'[w] = Tail(inbox[w])
      /\ \A v \in Window \ {w} : ui'[v] = ui[v] /\ inbox'[v] = inbox[v]
  BY DEF Deliver, Typed
<1>2. m \in Mail /\ m = inbox[w][1] /\ 1 \in DOMAIN inbox[w]
  BY <1>0, <1>1, HeadTailProperties
<1> HIDE DEF m
<1>3. Handles(w, m, ui[w], ui'[w])
  BY <1>1, <1>2, ReceivedEffect
<1>4. FewerOf("failed", inbox[w], inbox'[w])
  BY <1>0, <1>1, FewerTail
<1>5. CASE m.kind # "failed" \/ ui'[w] = ui[w]
  <2>1. ExitKept(w)
    BY <1>0, <1>1, <1>2, <1>3, <1>4, <1>5, ExitHandles, FewerSame, SameWorker DEF ExitKept
  <2>2. \A v \in Window \ {w} : ExitKept(v)
    BY <1>1, SameWorker, ExitSame
  <2> QED
    BY <1>1, <2>1, <2>2, OneExitKept
<1>6. CASE m.kind = "failed" /\ ui'[w] # ui[w]
  <2>1. ui[w].pending = m.exit /\ ui'[w] = FailedExit(ui[w])
    BY <1>3, <1>6 DEF Handles
  <2>2. /\ m.exit # 0 /\ ~Active(w)
        /\ \A j \in DOMAIN inbox[w] : IsFailed(w, j) => j = 1
    <3>1. IsFailed(w, 1)
      BY <1>2, <1>6 DEF IsFailed
    <3> QED
      BY <1>2, <3>1 DEF OneExit
  <2>3. \A i \in DOMAIN ui[w].actions : ~IsExitAll(w, i)
    BY <2>1, <2>2 DEF OneExit
  <2>4. ui'[w].pending = 0 /\ ui'[w].actions = ui[w].actions
    BY <1>0, <2>1 DEF FailedExit, Uis
  <2>5. \A i \in DOMAIN inbox'[w] : ~IsFailed(w, i)'
    <3>1. \A i \in DOMAIN Tail(inbox[w]) :
            i + 1 \in DOMAIN inbox[w] /\ i + 1 # 1 /\ Tail(inbox[w])[i] = inbox[w][i + 1]
      BY <1>0, <1>1
    <3> QED
      BY <1>1, <2>2, <3>1 DEF IsFailed
  <2>6. ~Active(w)' /\ \A i \in DOMAIN ui'[w].actions : ~IsExitAll(w, i)'
    BY <1>1, <2>2, <2>3, <2>4 DEF Active, IsExitAll
  <2>7. ExitStays(w)
    BY <1>0, <2>4, <2>5, <2>6, FewerSame DEF OneExit, ExitStays
  <2>8. \A v \in Window \ {w} : ExitKept(v)
    BY <1>1, SameWorker, ExitSame
  <2> QED
    BY <1>1, <2>7, <2>8, OneExitKept
<1> QED
  BY <1>5, <1>6

LEMMA ExitFails ==
  ASSUME Typed, Typed', NEW o \in Window, \A v \in Window : OneExit(v), Fail(o)
  PROVE  \A v \in Window : ExitStays(v)
<1> DEFINE m == Message("failed", o, worker[o].exit)
<1>0. ui[o].actions \in Seq(Actions) /\ inbox[o] \in Seq(Mail) /\ worker[o] \in Workers
  BY OfWindow DEF Uis
<1>1. PICK arrives \in BOOLEAN :
       /\ Post(o, m, arrives)
       /\ worker' = [worker EXCEPT ![o] = IF arrives THEN NoWorker ELSE [@ EXCEPT !.pc = "lost"]]
  BY DEF Fail
<1>2. UNCHANGED <<ui, token>> /\ Active(o)
  BY DEF Fail, At, Active
<1>3. /\ ui[o].busy /\ worker[o].exit # 0 /\ ui[o].pending = worker[o].exit
      /\ \A i \in DOMAIN inbox[o] : ~IsFailed(o, i)
      /\ \A i \in DOMAIN ui[o].actions : ~IsExitAll(o, i)
  BY <1>2 DEF OneExit
<1>4. worker'[o].pc \in {"none", "lost"}
  BY <1>0, <1>1 DEF Typed, Workers, NoWorker
<1>5. m.kind = "failed" /\ m.exit = worker[o].exit
  BY DEF Message
<1>6. \A i \in DOMAIN inbox'[o] :
        \/ i \in DOMAIN inbox[o] /\ inbox'[o][i] = inbox[o][i]
        \/ i = Len(inbox[o]) + 1 /\ inbox'[o][i] = m
  <2>1. inbox'[o] = inbox[o] \/ inbox'[o] = Append(inbox[o], m)
    BY <1>1 DEF Post, Typed
  <2> HIDE DEF m
  <2> QED
    BY <1>0, <2>1
<1> HIDE DEF m
<1>7. \A i \in DOMAIN inbox'[o] : IsFailed(o, i)' => i = Len(inbox[o]) + 1 /\ inbox'[o][i] = m
  BY <1>3, <1>6 DEF IsFailed
<1>8. ExitStays(o)
  <2>1. ~Active(o)' /\ \A i \in DOMAIN ui'[o].actions : ~IsExitAll(o, i)'
    BY <1>2, <1>3, <1>4 DEF Active, IsExitAll
  <2> QED
    BY <1>0, <1>2, <1>3, <1>5, <1>7, <2>1, FewerSame DEF OneExit, ExitStays
<1>9. ASSUME NEW v \in Window \ {o} PROVE ExitKept(v)
  <2>1. inbox'[v] = inbox[v] /\ worker'[v] = worker[v]
    BY <1>1 DEF Post, Typed
  <2> QED
    BY <1>2, <2>1, SameWorker, ExitSame
<1> QED
  BY <1>2, <1>8, <1>9, OneExitKept

LEMMA ExitThreads ==
  ASSUME Typed, Typed', NEW o \in Window, NEW w \in Window,
         \A v \in Window : OneExit(v) /\ Phase(v),
         \/ TrayExit(o, w) \/ Ask(o, w) \/ CloseWindow(o, w) \/ CloseOwner(o)
         \/ Identify(o) \/ Collect(o) \/ WaitTimesOut(o) \/ SaveGroup(o)
  PROVE  \A v \in Window : ExitStays(v)
<1>0. /\ worker[o] \in Workers /\ ui[o] \in Uis /\ worker[o].exit \in 0 .. MaxExits
      /\ 0 \in 0 .. MaxExits
  BY OfWindow, SessionAssumption DEF Workers
<1>1. \A kind \in Kinds : /\ Message(kind, o, worker[o].exit) \in Mail
                          /\ Message(kind, o, 0) \in Mail /\ Message(kind, o, 0).kind = kind
                          /\ Message(kind, o, worker[o].exit).kind = kind
  BY <1>0 DEF Message, Mail
<1>2. UNCHANGED token
  BY DEF TrayExit, Ask, CloseWindow, CloseOwner, Identify, Collect, WaitTimesOut, SaveGroup
<1>3. /\ Active(o)' => Active(o) /\ worker'[o].exit = worker[o].exit
      /\ \A v \in Window \ {o} : worker'[v] = worker[v]
  <2>1. CASE TrayExit(o, w)
    BY <2>1, SameWorker DEF TrayExit
  <2>2. CASE Ask(o, w) \/ CloseWindow(o, w) \/ CloseOwner(o) \/ Identify(o) \/ Collect(o)
             \/ WaitTimesOut(o) \/ SaveGroup(o)
    <3>1. Active(o)
      BY <2>2 DEF Ask, CloseWindow, CloseOwner, Identify, Collect, WaitTimesOut, SaveGroup, At,
                  Active
    <3>2. worker'[o].exit = worker[o].exit \/ worker'[o].pc = "none"
      <4>1. CASE Ask(o, w)
        <5>0. PICK ok \in BOOLEAN : worker' = [worker EXCEPT ![o].todo = @ \ {w},
                ![o].pc = IF ~ok THEN "fail" ELSE IF worker[o].todo = {w} THEN "wait" ELSE @]
          BY <4>1 DEF Ask
        <5> DEFINE k == [worker[o] EXCEPT !.todo = @ \ {w},
                !.pc = IF ~ok THEN "fail" ELSE IF worker[o].todo = {w} THEN "wait" ELSE @]
        <5>1. k.exit = worker[o].exit
          BY <1>0 DEF Workers
        <5>2. worker' = [worker EXCEPT ![o] = k]
          BY <5>0
        <5> HIDE DEF k
        <5> QED
          BY <5>1, <5>2 DEF Typed
      <4>2. CASE CloseWindow(o, w) /\ Current(w)
        <5>0. PICK ok \in BOOLEAN : worker' = [worker EXCEPT ![o].todo = @ \ {w}, ![o].pc = AfterClose(ok)]
          BY <4>2 DEF CloseWindow
        <5> DEFINE k == [worker[o] EXCEPT !.todo = @ \ {w}, !.pc = AfterClose(ok)]
        <5>1. k.exit = worker[o].exit
          BY <1>0 DEF Workers
        <5>2. worker' = [worker EXCEPT ![o] = k]
          BY <5>0
        <5> HIDE DEF k
        <5> QED
          BY <5>1, <5>2 DEF Typed
      <4>3. CASE CloseWindow(o, w) /\ ~Current(w)
        <5> DEFINE k == [worker[o] EXCEPT !.todo = @ \ {w}]
        <5>1. k.exit = worker[o].exit
          BY <1>0 DEF Workers
        <5>2. worker' = [worker EXCEPT ![o] = k]
          BY <4>3 DEF CloseWindow
        <5> HIDE DEF k
        <5> QED
          BY <5>1, <5>2 DEF Typed
      <4>4. CASE Identify(o)
        <5> DEFINE k == [worker[o] EXCEPT !.todo = worker[o].group \ {o},
       !.pc = IF ~AllCurrent(o) THEN "fail" ELSE IF worker[o].group = {o} THEN "wait" ELSE "ask"]
        <5>1. k.exit = worker[o].exit
          BY <1>0 DEF Workers
        <5>2. worker' = [worker EXCEPT ![o] = k]
          BY <4>4 DEF Identify
        <5> HIDE DEF k
        <5> QED
          BY <5>1, <5>2 DEF Typed
      <4>5. CASE Collect(o) /\ AllCurrent(o)
        <5> DEFINE k == [worker[o] EXCEPT !.pc = "save", !.order = NextOrder]
        <5>1. k.exit = worker[o].exit
          BY <1>0 DEF Workers
        <5>2. worker' = [worker EXCEPT ![o] = k]
          BY <4>5 DEF Collect
        <5> HIDE DEF k
        <5> QED
          BY <5>1, <5>2 DEF Typed
      <4>6. CASE WaitTimesOut(o) \/ (Collect(o) /\ ~AllCurrent(o))
        <5> DEFINE k == [worker[o] EXCEPT !.pc = "fail"]
        <5>1. k.exit = worker[o].exit
          BY <1>0 DEF Workers
        <5>2. worker' = [worker EXCEPT ![o] = k]
          BY <4>6 DEF WaitTimesOut, Collect
        <5> HIDE DEF k
        <5> QED
          BY <5>1, <5>2 DEF Typed
      <4>7. CASE SaveGroup(o)
        <5>0. PICK ok \in BOOLEAN : worker' = [worker EXCEPT ![o].pc = AfterSave(ok), ![o].todo = worker[o].group \ {o}]
          BY <4>7 DEF SaveGroup
        <5> DEFINE k == [worker[o] EXCEPT !.pc = AfterSave(ok), !.todo = worker[o].group \ {o}]
        <5>1. k.exit = worker[o].exit
          BY <1>0 DEF Workers
        <5>2. worker' = [worker EXCEPT ![o] = k]
          BY <5>0
        <5> HIDE DEF k
        <5> QED
          BY <5>1, <5>2 DEF Typed
      <4>8. CASE CloseOwner(o)
        <5>1. [worker[o] EXCEPT !.pc = "fail"].exit = worker[o].exit /\ NoWorker.pc = "none"
          BY <1>0 DEF Workers, NoWorker
        <5> QED
          BY <4>8, <5>1 DEF CloseOwner, Typed
      <4> QED
        BY <2>2, <4>1, <4>2, <4>3, <4>4, <4>5, <4>6, <4>7, <4>8
    <3>3. \A v \in Window \ {o} : worker'[v] = worker[v]
      BY <2>2 DEF Ask, CloseWindow, CloseOwner, Identify, Collect, WaitTimesOut, SaveGroup, Typed
    <3> QED
      BY <3>1, <3>2, <3>3 DEF Active
  <2> QED
    BY <2>1, <2>2
<1>4. \A v \in Window : Active(v)' => Active(v) /\ worker'[v].exit = worker[v].exit
  BY <1>3, SameWorker
<1>5. CASE UNCHANGED <<ui, inbox>>
  BY <1>2, <1>4, <1>5, ExitSame, OneExitKept
<1>6. ASSUME NEW to \in Window, NEW kind \in Kinds \ {"failed"}, NEW e \in {0, worker[o].exit},
             NEW ok \in BOOLEAN, Send(to, Message(kind, o, e), ok)
      PROVE  \A v \in Window : ExitStays(v)
  <2>1. Message(kind, o, e) \in Mail /\ Message(kind, o, e).kind # "failed"
    BY <1>1, <1>6
  <2> QED
    BY <1>2, <1>4, <1>6, <2>1, ExitSend, OneExitKept
<1>7. CASE TrayExit(o, w)
  <2>1. CASE o = w
    <3>1. Exits(ui[w], Exiting(ui[w]))
      BY <1>0, <2>1, ExitingEffect
    <3>2. ui'[w] = Exiting(ui[w]) /\ UNCHANGED inbox /\ \A v \in Window \ {w} : ui'[v] = ui[v]
      BY <1>7, <2>1 DEF TrayExit, Typed
    <3>3. ui[w].actions \in Seq(Actions) /\ inbox[w] \in Seq(Mail)
      BY OfWindow DEF Uis
    <3>4. ExitKept(w)
      BY <1>4, <3>1, <3>2, <3>3, FewerSame, FewerExit DEF ExitKept, Exits
    <3>5. \A v \in Window \ {w} : ExitKept(v)
      BY <1>4, <3>2, ExitSame
    <3> QED
      BY <1>2, <3>4, <3>5, OneExitKept
  <2>2. CASE o # w
    <3>1. PICK ok \in BOOLEAN : Send(w, Message("exit", o, 0), ok)
      BY <1>7, <2>2 DEF TrayExit
    <3> QED
      BY <1>6, <3>1 DEF Kinds
  <2> QED
    BY <2>1, <2>2
<1>8. CASE Ask(o, w)
  <2>1. PICK ok \in BOOLEAN : Send(w, Message("request", o, worker[o].exit), ok)
    BY <1>8 DEF Ask
  <2> QED
    BY <1>6, <2>1 DEF Kinds
<1>9. CASE CloseWindow(o, w) /\ Current(w)
  <2>1. PICK ok \in BOOLEAN : Send(w, Message("close", o, worker[o].exit), ok)
    BY <1>9 DEF CloseWindow
  <2> QED
    BY <1>6, <2>1 DEF Kinds
<1>10. CASE CloseOwner(o)
  <2>1. PICK ok \in BOOLEAN : Send(o, Message("close", o, worker[o].exit), ok)
    BY <1>10 DEF CloseOwner
  <2> QED
    BY <1>6, <2>1 DEF Kinds
<1> QED
  BY <1>5, <1>7, <1>8, <1>9, <1>10
     DEF CloseWindow, Identify, Collect, WaitTimesOut, SaveGroup

LEMMA ExitsMove ==
  ASSUME Typed, OrdersBounded, Typed', \A v \in Window : OneExit(v) /\ Phase(v), [Next]_vars
  PROVE  \/ \A v \in Window : ExitStays(v)
         \/ \E o \in Window : RequestAll(o)
<1>1. CASE UNCHANGED vars
  BY <1>1, SameWorker, ExitSame, OneExitKept DEF vars
<1> QED
  BY <1>1, ExitWindows, ExitBegins, ExitReplies, ExitDelivers, ExitFails, ExitThreads DEF Next

LEMMA OneExitStep ==
  ASSUME Typed, OrdersBounded, Typed', \A v \in Window : OneExit(v) /\ Phase(v), [Next]_vars
  PROVE  \A v \in Window : OneExit(v)'
BY ExitsMove, ExitRequested DEF ExitStays

----------------------------------------------------------------------------
(* The first two invariants.                                               *)

LEMMA TypeInvInit == Init => TypeInv /\ OrderInv
<1> SUFFICES ASSUME Init PROVE TypeInv /\ OrderInv
  OBVIOUS
<1>1. Typed
  BY InitTyped
<1>2. \A w \in Window : life[w] = "off" /\ ui[w] = NewUi /\ inbox[w] = << >>
                        /\ worker[w] = NoWorker /\ restore[w] = NoRestore
  BY DEF Init
<1>3. \A w \in Window : Phase(w)
  <2>1. GoneUi(NewUi)
    BY DEF NewUi, GoneUi
  <2> QED
    BY <1>2, <2>1 DEF Phase, GoneUi
<1>4. \A w \in Window : /\ restore[w].left = 0 /\ restore[w].child = NONE
                        /\ restore[w].children = {} /\ ~(restore[w].left > 0)
                        /\ GoneUi(ui[w]) /\ worker[w].pc = "none"
  BY <1>2, <1>3, OffEmpty
<1>5. \A w \in Window : worker[w].order = 0
  BY <1>2 DEF NoWorker
<1>6. TrayKept /\ \A w \in Window : RestoreKept(w)
  BY <1>4 DEF Init, TrayKept, RestoreKept
<1>7. \A w \in Window : OneExit(w)
  BY <1>2, <1>4 DEF OneExit, Active, GoneUi
<1>8. OrdersBounded
  BY <1>4, <1>5 DEF OrdersBounded, GoneUi, Init
<1>9. OrderInv
  BY <1>2, <1>4, <1>5 DEF OrderInv, LaterIsKept, GroupApart, GoneUi, Init
<1> QED
  BY <1>1, <1>3, <1>6, <1>7, <1>8, <1>9 DEF TypeInv

LEMMA TypeInvStep == TypeInv /\ OrderInv /\ [Next]_vars => TypeInv' /\ OrderInv'
<1> SUFFICES ASSUME TypeInv, OrderInv, [Next]_vars PROVE TypeInv' /\ OrderInv'
  OBVIOUS
<1>0. Typed /\ OrdersBounded /\ TrayInv /\ \A w \in Window : Phase(w) /\ OneExit(w) /\ RestoreKept(w)
  BY DEF TypeInv, TrayInv
<1>1. Typed'
  <2>1. CASE UNCHANGED vars
    BY <1>0, <2>1 DEF vars, Typed
  <2>2. CASE Next
    BY <1>0, <2>2, StartsTyped, ClosesTyped, FramesTyped, WorkersTyped DEF Next
  <2> QED
    BY <2>1, <2>2
<1>2. OrdersBounded' /\ OrderInv'
  BY <1>0, <1>1, BoundedStep, OrderStep
<1>3. TrayKept' /\ \A w \in Window : RestoreKept(w)'
  BY <1>0, TrayStep
<1>4. \A w \in Window : Phase(w)' /\ OneExit(w)'
  BY <1>0, <1>1, PhaseStep, OneExitStep
<1> QED
  BY <1>1, <1>2, <1>3, <1>4 DEF TypeInv

\* In every reachable state the orders of the closes are apart, and what a window
\* holds fits the phase of its life.
THEOREM SessionPhases == Spec => [](TypeInv /\ OrderInv)
BY TypeInvInit, TypeInvStep, PTL DEF Spec

\* Every variable has its type; only the process with the mutex shows the icon,
\* and a session-exit thread belongs to an exit that has not been answered
\* (tray/coordinator.rs, tick and shutdown; session_exit.rs, begin and finish).
THEOREM SessionTypeOK == Spec => []TypeOK
<1>1. TypeInv => TypeOK
  <2> SUFFICES ASSUME TypeInv PROVE TypeOK
    OBVIOUS
  <2>1. Typed /\ TrayKept /\ \A w \in Window : OneExit(w)
    BY DEF TypeInv
  <2>2. ASSUME NEW w \in Window
        PROVE  /\ ui[w].order \in Nat /\ ui[w].pending \in 0 .. MaxExits
               /\ ui[w].expected \subseteq Window /\ ui[w].replies \subseteq Window
               /\ restore[w].left \in Nat /\ restore[w].children \subseteq Window
    BY <2>1, OfWindow DEF Uis, Restores
  <2>3. ASSUME NEW w \in Window, NEW i \in DOMAIN inbox[w] PROVE inbox[w][i].kind \in Kinds
    <3>1. inbox[w] \in Seq(Mail)
      BY <2>1, OfWindow
    <3>2. inbox[w][i] \in Mail
      BY <3>1
    <3> QED
      BY <3>2 DEF Mail
  <2>4. ASSUME NEW w \in Window, worker[w].pc \notin {"none", "lost"}
        PROVE  ui[w].busy /\ ui[w].pending = worker[w].exit
    BY <2>1, <2>4 DEF OneExit, Active
  <2>5. record.order \in Nat /\ record.count \in Nat \ {0}
    BY <2>1 DEF Typed, Records
  <2>6. /\ life \in [Window -> {"off", "up", "down", "free", "saved", "left", "gone"}]
        /\ icon \in {NONE, tray} /\ token \in 0 .. MaxExits /\ faults \in 0 .. MaxFaults
    BY <2>1 DEF Typed, Life, TrayKept
  <2> QED
    BY <2>2, <2>3, <2>4, <2>5, <2>6 DEF TypeOK
<1> QED
  BY <1>1, SessionPhases, PTL

\* Of the windows that are closed each by itself the last is the record of the next
\* start, in the order in which the closes were asked for and not in that in which
\* they were written; a window of the last group that was saved is left out
\* (record.rs, save_at; lifecycle.rs, handle_exit).
THEOREM SessionLastClose == Spec => []LastCloseIsKept
<1>1. OrderInv => LastCloseIsKept
  BY DEF OrderInv, LaterIsKept, LastCloseIsKept
<1> QED
  BY <1>1, SessionPhases, PTL

----------------------------------------------------------------------------
(* What no step takes back.                                                *)

\* A process that has left the first states does not come back to them, and one
\* that restores no windows restores none later.
SteadyLife(w) == life[w] # "off" =>
  /\ life'[w] # "off"
  /\ life'[w] = "up" => life[w] = "up" /\ (ui[w].exiting => ui'[w].exiting)
SteadyRestore(w) == life[w] # "off" /\ restore[w].left = 0 =>
  restore'[w].left = 0 /\ restore'[w].children = restore[w].children
SteadyTray == \A o \in Window : tray = o /\ life'[o] \in {"up", "down"} => tray' = o

Steady == SteadyTray /\ \A w \in Window : SteadyLife(w) /\ SteadyRestore(w)

LEMMA SteadyVanish ==
  ASSUME Typed, NEW x \in Window, Vanishes(x), \A w \in Window : SteadyRestore(w)
  PROVE  Steady
<1>1. SteadyTray
  BY VanishEffect, SessionAssumption DEF SteadyTray
<1>2. ASSUME NEW w \in Window PROVE SteadyLife(w)
  BY VanishEffect DEF SteadyLife
<1> QED
  BY <1>1, <1>2 DEF Steady

\* Only the UI thread of one window moves.
LEMMA SteadyUi ==
  ASSUME UNCHANGED <<life, restore, tray>>,
         \A w \in Window : life[w] = "up" /\ ui[w].exiting => ui'[w].exiting
  PROVE  Steady
BY DEF Steady, SteadyTray, SteadyLife, SteadyRestore

LEMMA HandlesExiting ==
  ASSUME Typed, NEW w \in Window, NEW m, Handles(w, m, ui[w], ui'[w]), ui[w].exiting
  PROVE  ui'[w].exiting
<1>0. ui[w] \in Uis
  BY OfWindow
<1>1. CASE ui'[w] = [ui[w] EXCEPT !.actions = Append(@, Message("capture", m.from, m.exit))]
  BY <1>0, <1>1 DEF Uis
<1>2. CASE ui'[w] = [ui[w] EXCEPT !.expected = @ \ {m.from}, !.replies = @ \cup {m.from}]
  BY <1>0, <1>2 DEF Uis
<1>3. CASE ui'[w] = FailedExit(ui[w])
  BY <1>0, <1>3 DEF Uis, FailedExit
<1> QED
  BY <1>1, <1>2, <1>3 DEF Handles, Exits

LEMMA SteadySend ==
  ASSUME Typed, NEW to \in Window, NEW m \in Mail, NEW ok \in BOOLEAN, Send(to, m, ok),
         UNCHANGED <<life, restore, tray>>
  PROVE  Steady
<1>1. ASSUME NEW w \in Window, ui[w].exiting PROVE ui'[w].exiting
  <2>1. ui'[w] = ui[w] \/ (w = to /\ ui'[w] = Received(w, m))
    BY DEF Send, Typed
  <2>2. CASE w = to /\ ui'[w] = Received(w, m)
    BY <1>1, <2>2, ReceivedEffect, HandlesExiting
  <2> QED
    BY <1>1, <2>1, <2>2
<1> QED
  BY <1>1, SteadyUi

LEMMA SteadyStarts ==
  ASSUME Typed, NEW w \in Window, NEW c \in Window, \A v \in Window : RestoreKept(v),
         \/ \E left \in 0 .. record.count : Launch(w, left)
         \/ RestoreChild(w, c) \/ ChildReady(w) \/ RestoreFails(w) \/ Tick(w)
  PROVE  Steady
<1>1. ASSUME NEW left \in 0 .. record.count, Launch(w, left) PROVE Steady
  <2>1. /\ life[w] = "off" /\ life'[w] = "up" /\ UNCHANGED ui
        /\ \A v \in Window \ {w} : life'[v] = life[v] /\ restore'[v] = restore[v]
        /\ tray' = IF tray = NONE THEN w ELSE tray
    BY <1>1 DEF Launch, Typed, Owner
  <2>2. SteadyTray
    BY <2>1, SessionAssumption DEF SteadyTray
  <2>3. \A v \in Window : SteadyLife(v) /\ SteadyRestore(v)
    BY <2>1 DEF SteadyLife, SteadyRestore
  <2> QED
    BY <2>2, <2>3 DEF Steady
<1>2. CASE RestoreChild(w, c)
  <2>1. /\ life[c] = "off" /\ life'[c] = "up" /\ UNCHANGED ui
        /\ \A v \in Window \ {c} : life'[v] = life[v]
        /\ \A v \in Window \ {w} : restore'[v] = restore[v]
        /\ restore[w].left # 0
        /\ tray' = IF tray = NONE THEN c ELSE tray
    <3>1. restore[w].left > 0 /\ restore[w].left \in Nat
      BY <1>2, OfWindow DEF RestoreChild, Restoring, Restores
    <3> QED
      BY <1>2, <3>1 DEF RestoreChild, Typed, Owner
  <2>2. SteadyTray
    BY <2>1, SessionAssumption DEF SteadyTray
  <2>3. \A v \in Window : SteadyLife(v) /\ SteadyRestore(v)
    BY <2>1 DEF SteadyLife, SteadyRestore
  <2> QED
    BY <2>2, <2>3 DEF Steady
<1>3. CASE ChildReady(w)
  <2>1. /\ UNCHANGED <<life, ui, tray>> /\ \A v \in Window \ {w} : restore'[v] = restore[v]
    BY <1>3 DEF ChildReady, Typed
  <2>2. restore[w].left # 0
    <3>1. restore[w].left > 0 /\ restore[w].left \in Nat
      BY <1>3, OfWindow DEF ChildReady, RestoreKept, Restores
    <3> QED
      BY <3>1
  <2> QED
    BY <2>1, <2>2 DEF Steady, SteadyTray, SteadyLife, SteadyRestore
<1>4. CASE RestoreFails(w)
  <2>1. restore[w].left # 0 /\ \A v \in Window \ {w} : restore'[v] = restore[v]
    <3>1. restore[w].left > 0 /\ restore[w].left \in Nat
      BY <1>4, OfWindow DEF RestoreFails, Restoring, Restores
    <3>2. \A v \in Window \ {w} : restore'[v] = restore[v]
      BY <1>4 DEF RestoreFails, Typed
    <3> QED
      BY <3>1, <3>2
  <2>2. \A v \in Window : SteadyRestore(v)
    BY <2>1 DEF SteadyRestore
  <2>3. CASE restore[w].child = NONE
    <3>1. UNCHANGED <<life, ui, tray>>
      BY <1>4, <2>3 DEF RestoreFails
    <3> QED
      BY <2>2, <3>1 DEF Steady, SteadyTray, SteadyLife
  <2>4. CASE restore[w].child # NONE
    <3>1. restore[w].child \in Window /\ Vanishes(restore[w].child)
      BY <1>4, <2>4, OfWindow DEF RestoreFails, Restores
    <3> QED
      BY <2>2, <3>1, SteadyVanish
  <2> QED
    BY <2>3, <2>4
<1>5. CASE Tick(w)
  BY <1>5, SessionAssumption DEF Tick, Steady, SteadyTray, SteadyLife, SteadyRestore
<1> QED
  BY <1>1, <1>2, <1>3, <1>4, <1>5

LEMMA SteadyCloses ==
  ASSUME Typed, OrdersBounded, NEW w \in Window,
         \/ Confirm(w) \/ ConfirmFails(w) \/ RequestClose(w) \/ CancelClose(w) \/ HandleExit(w)
         \/ Release(w) \/ SaveIndividual(w) \/ End(w) \/ Crash(w)
  PROVE  Steady
<1>1. CASE Confirm(w) \/ RequestClose(w) \/ CancelClose(w)
  <2>1. /\ UNCHANGED <<life, restore>> /\ \A v \in Window : ui'[v].exiting = ui[v].exiting
    BY <1>1, CloseEffect
  <2>2. tray' = tray \/ tray = NONE
    BY <1>1 DEF Confirm, RequestClose, CancelClose, Owner
  <2>3. SteadyTray
    BY <2>2, SessionAssumption DEF SteadyTray
  <2> QED
    BY <2>1, <2>3 DEF Steady, SteadyLife, SteadyRestore
<1>2. CASE ConfirmFails(w) \/ HandleExit(w)
  <2>1. Leaves(w) /\ UNCHANGED <<restore, tray>>
    BY <1>2 DEF ConfirmFails, HandleExit
  <2>2. life'[w] = "down" /\ \A v \in Window \ {w} : life'[v] = life[v] /\ ui'[v] = ui[v]
    BY <2>1, LeavesEffect
  <2> QED
    BY <2>1, <2>2 DEF Steady, SteadyTray, SteadyLife, SteadyRestore
<1>3. CASE Release(w) \/ SaveIndividual(w)
  <2>1. /\ UNCHANGED <<ui, restore>> /\ life'[w] \in {"free", "saved", "left"}
        /\ \A v \in Window \ {w} : life'[v] = life[v]
        /\ tray' = tray \/ tray = w
    BY <1>3 DEF Release, SaveIndividual, Typed
  <2> QED
    BY <2>1 DEF Steady, SteadyTray, SteadyLife, SteadyRestore
<1>4. CASE End(w) \/ Crash(w)
  BY <1>4, SteadyVanish DEF End, Crash, SteadyRestore
<1> QED
  BY <1>1, <1>2, <1>3, <1>4

LEMMA SteadyFrames ==
  ASSUME Typed, NEW w \in Window, Phase(w), RequestAll(w) \/ Begin(w) \/ Reply(w) \/ Deliver(w)
  PROVE  Steady
<1>0. UNCHANGED <<life, restore, tray>>
  BY DEF RequestAll, Begin, Reply, Deliver
<1>1. CASE RequestAll(w) \/ Begin(w) \/ Reply(w)
  <2>1. ~ui[w].exiting /\ \A v \in Window \ {w} : ui'[v] = ui[v]
    BY <1>1, FramesEffect
  <2> QED
    BY <1>0, <2>1, SteadyUi
<1>2. CASE Deliver(w)
  <2> DEFINE m == Head(inbox[w])
  <2>1. ui'[w] = Received(w, m) /\ \A v \in Window \ {w} : ui'[v] = ui[v]
    BY <1>2 DEF Deliver, Typed
  <2>2. m \in Mail
    <3>1. inbox[w] \in Seq(Mail) /\ inbox[w] # << >>
      BY <1>2, OfWindow DEF Deliver
    <3> QED
      BY <3>1, HeadTailProperties
  <2> HIDE DEF m
  <2>3. ui[w].exiting => ui'[w].exiting
    BY <2>1, <2>2, ReceivedEffect, HandlesExiting
  <2> QED
    BY <1>0, <2>1, <2>3, SteadyUi
<1> QED
  BY <1>1, <1>2

LEMMA SteadyThreads ==
  ASSUME Typed, NEW o \in Window, NEW w \in Window,
         \/ TrayExit(o, w) \/ Ask(o, w) \/ CloseWindow(o, w) \/ CloseOwner(o) \/ Fail(o)
         \/ Identify(o) \/ Collect(o) \/ WaitTimesOut(o) \/ SaveGroup(o)
  PROVE  Steady
<1>0. /\ UNCHANGED <<life, restore, tray>> /\ worker[o].exit \in 0 .. MaxExits
      /\ 0 \in 0 .. MaxExits
  <2>1. UNCHANGED <<life, restore, tray>>
    BY DEF TrayExit, Ask, CloseWindow, CloseOwner, Fail, Identify, Collect, WaitTimesOut, SaveGroup
  <2> QED
    BY <2>1, OfWindow, SessionAssumption DEF Workers
<1>1. \A kind \in Kinds : /\ Message(kind, o, worker[o].exit) \in Mail
                          /\ Message(kind, o, 0) \in Mail
  BY <1>0 DEF Message, Mail
<1>2. CASE UNCHANGED ui
  BY <1>0, <1>2, SteadyUi
<1>3. CASE TrayExit(o, w)
  <2>1. CASE o = w
    <3>1. Exits(ui[w], Exiting(ui[w]))
      BY <2>1, OfWindow, ExitingEffect
    <3>2. ui' = [ui EXCEPT ![w] = Exiting(ui[w])]
      BY <1>3, <2>1 DEF TrayExit
    <3>3. ui'[w].exiting /\ \A v \in Window \ {w} : ui'[v] = ui[v]
      BY <3>1, <3>2 DEF Exits, Typed
    <3> QED
      BY <1>0, <3>3, SteadyUi
  <2>2. CASE o # w
    BY <1>0, <1>1, <1>3, <2>2, SteadySend DEF TrayExit, Kinds
  <2> QED
    BY <2>1, <2>2
<1>4. CASE Ask(o, w)
  BY <1>0, <1>1, <1>4, SteadySend DEF Ask, Kinds
<1>5. CASE CloseWindow(o, w) /\ Current(w)
  BY <1>0, <1>1, <1>5, SteadySend DEF CloseWindow, Kinds
<1>6. CASE CloseOwner(o)
  BY <1>0, <1>1, <1>6, SteadySend DEF CloseOwner, Kinds
<1> QED
  BY <1>2, <1>3, <1>4, <1>5, <1>6
     DEF CloseWindow, Fail, Identify, Collect, WaitTimesOut, SaveGroup

LEMMA SteadyStep ==
  ASSUME TypeInv, [Next]_vars
  PROVE  Steady
<1>1. Typed /\ OrdersBounded /\ \A w \in Window : Phase(w) /\ RestoreKept(w)
  BY DEF TypeInv
<1>2. CASE UNCHANGED vars
  BY <1>2, SteadyUi DEF vars
<1> QED
  BY <1>1, <1>2, SteadyStarts, SteadyCloses, SteadyFrames, SteadyThreads DEF Next

LEMMA GroupIsKeptStep ==
  ASSUME TypeInv, TypeInv', OrderInv, GroupIsKept, [Next]_vars
  PROVE  GroupIsKept'
<1>0. /\ Typed /\ Typed' /\ GroupApart /\ record.order \in Nat /\ record.group.order \in Nat
      /\ \A w \in Window : ui[w].order \in Nat
  BY DEF TypeInv, OrderInv, Typed, Records, Groups, Uis
<1>1. \A w \in Window : life[w] \notin {"off", "up"} => life'[w] \notin {"off", "up"}
  BY SteadyStep DEF Steady, SteadyLife
<1>2. CASE UNCHANGED record /\ \A w \in Window : life[w] # "up" /\ ui'[w].group => ui[w].group
  BY <1>1, <1>2 DEF GroupIsKept
<1>3. ASSUME NEW v \in Window, SaveIndividual(v) PROVE GroupIsKept'
  <2>1. UNCHANGED ui
    BY <1>3 DEF SaveIndividual
  <2>2. CASE record' = record
    BY <1>2, <2>1, <2>2
  <2>3. CASE record' # record
    <3>1. /\ Replaces(ui[v].order) /\ record' = Record(ui[v].order, {v}, record.group)
          /\ Writes(v) /\ life[v] = "free"
      BY <1>3, <2>3 DEF SaveIndividual
    <3>2. /\ record'.order = ui[v].order /\ record'.sessions = {v} /\ record'.group = record.group
          /\ ui[v].order >= record.order
      BY <3>1 DEF Record, Replaces
    <3>3. ui[v].order # 0 /\ ui[v].order > record.group.order
      <4>1. ui[v].order # 0
        BY <3>1 DEF TypeInv, Phase
      <4> QED
        BY <1>0, <3>2, <4>1 DEF GroupApart
    <3>4. ~ui'[v].group /\ life'[v] \notin {"off", "up"}
      BY <1>1, <2>1, <3>1 DEF Writes
    <3> QED
      BY <3>2, <3>3, <3>4 DEF GroupIsKept
  <2> QED
    BY <2>2, <2>3
<1>4. ASSUME NEW o \in Window, SaveGroup(o) PROVE GroupIsKept'
  <2>1. UNCHANGED ui
    BY <1>4 DEF SaveGroup
  <2>2. CASE record' = record
    BY <1>2, <2>1, <2>2
  <2>3. CASE record' # record
    <3>1. record' = Record(worker[o].order, ui[o].replies,
                           [order |-> worker[o].order, windows |-> ui[o].replies])
      BY <1>4, <2>3 DEF SaveGroup
    <3>2. /\ record'.order = record'.group.order
          /\ record'.sessions = record'.group.windows
      BY <3>1 DEF Record
    <3> QED
      BY <3>2 DEF GroupIsKept
  <2> QED
    BY <2>2, <2>3
<1> QED
  BY <1>0, <1>2, <1>3, <1>4, SavedMove DEF SavedStays

\* A group that was saved stays the record until a window that leaves by itself,
\* and whose close got its order after the group had, replaces it: no close that was
\* asked for before does, and no window that leaves with a group
\* (session_exit.rs, close; record.rs, save_at; instance_sessions.rs, save_individual).
THEOREM SessionGroupIsKept == Spec => []GroupIsKept
<1>1. Init => GroupIsKept
  BY DEF Init, GroupIsKept
<1>2. (TypeInv /\ OrderInv) /\ (TypeInv /\ OrderInv)' /\ GroupIsKept /\ [Next]_vars
        => GroupIsKept'
  BY GroupIsKeptStep
<1> QED
  BY <1>1, <1>2, SessionPhases, PTL DEF Spec

\* What a next start opens is the last window that was closed by itself, or the
\* group of the last global exit that was saved, unless a window that leaves by
\* itself was closed after that, whichever writes fail or come late
\* (instance_sessions.rs:1; record.rs, save_at).
THEOREM SessionRestartPolicy == Spec => []RestartPolicy
<1>1. LastCloseIsKept /\ GroupIsKept => RestartPolicy
  BY DEF RestartPolicy
<1> QED
  BY <1>1, SessionLastClose, SessionGroupIsKept, PTL

\* Who has left stays away, and a group that is closed stays closed.
LEMMA SettledStays ==
  ASSUME Steady, NEW w \in Window, Settled(w)
  PROVE  Settled(w)'
<1>1. life[w] # "off" /\ ~(life[w] = "up" /\ ~ui[w].exiting) /\ SteadyLife(w)
  BY DEF Settled, Current, Steady
<1>2. life'[w] # "off" /\ ~(life'[w] = "up" /\ ~ui'[w].exiting)
  BY <1>1 DEF SteadyLife
<1> QED
  BY <1>2 DEF Settled, Current

LEMMA ClosedStays ==
  ASSUME Typed, Steady, NEW o \in Window, NEW group \in SUBSET Window, Closed(o, group)
  PROVE  Closed(o, group)'
<1>1. \A v \in group \ {o} : Alone(v)'
  <2>1. \A v \in group \ {o} : Alone(v) /\ SteadyLife(v) /\ SteadyRestore(v)
    BY DEF Closed, Steady
  <2> QED
    BY <2>1 DEF Alone, SteadyLife, SteadyRestore
<1>2. /\ life'[o] # "off" /\ restore'[o].left = 0
      /\ restore'[o].children = restore[o].children
  BY DEF Closed, Steady, SteadyLife, SteadyRestore
<1>3. restore[o].children \subseteq Window
  BY OfWindow DEF Restores
<1>4. \A c \in restore'[o].children : c \in group \/ Settled(c)'
  BY <1>2, <1>3, SettledStays DEF Closed
<1> QED
  BY <1>1, <1>2, <1>4 DEF Closed

\* What was saved for an exit stays.
SavedKept == \A e \in 1 .. MaxExits : saved[e] # {} => saved'[e] = saved[e]

LEMMA SoundStays ==
  ASSUME Typed, Steady, SavedKept, token' >= token, token' \in 0 .. MaxExits,
         NEW w \in Window, NEW m \in Mail, Sound(w, m)
  PROVE  Sound(w, m)'
<1> SUFFICES ASSUME m.kind = "close"
             PROVE  /\ m.exit \in 1 .. token' /\ w \in saved'[m.exit]
                    /\ m.from = w => OnlyOwnerLeft(w, m.exit)'
  BY DEF Sound
<1>1. m.exit \in 1 .. token /\ w \in saved[m.exit] /\ (m.from = w => OnlyOwnerLeft(w, m.exit))
  BY DEF Sound
<1>2. m.exit \in 1 .. token' /\ m.exit \in 1 .. MaxExits
  BY <1>1, SessionAssumption DEF Typed
<1>3. saved'[m.exit] = saved[m.exit] /\ saved[m.exit] \subseteq Window
  BY <1>1, <1>2 DEF SavedKept, Typed
<1>4. ASSUME m.from = w PROVE OnlyOwnerLeft(w, m.exit)'
  <2>1. Closed(w, saved[m.exit])' /\ \A v \in saved[m.exit] \ {w} : Settled(v)'
    BY <1>1, <1>3, <1>4, ClosedStays, SettledStays DEF OnlyOwnerLeft
  <2> QED
    BY <1>3, <2>1 DEF OnlyOwnerLeft, Closed
<1> QED
  BY <1>1, <1>2, <1>3, <1>4

----------------------------------------------------------------------------
(* The session-exit thread: its group and its exit.                        *)

Saving(o) == worker[o].pc \in {"start", "ask", "wait", "save"}

GroupKept(o) == Active(o)' =>
  /\ Active(o) /\ worker'[o].exit = worker[o].exit /\ worker'[o].group = worker[o].group
  /\ worker'[o].todo \subseteq worker[o].todo \cup (worker[o].group \ {o})
  /\ worker'[o].pc = "exit" => worker[o].pc = "exit" /\ worker'[o].todo = worker[o].todo
  /\ Saving(o)' => Saving(o)

LEMMA GroupSame ==
  ASSUME NEW o \in Window, worker'[o] = worker[o]
  PROVE  GroupKept(o)
BY DEF GroupKept, Active, Saving

LEMMA GroupVanish ==
  ASSUME Typed, NEW x \in Window, Vanishes(x)
  PROVE  \A o \in Window : GroupKept(o)
<1>1. ~Active(x)'
  <2>1. worker'[x] = NoWorker
    BY VanishEffect
  <2> QED
    BY <2>1 DEF Active, NoWorker
<1>2. \A o \in Window \ {x} : GroupKept(o)
  BY VanishEffect, GroupSame
<1> QED
  BY <1>1, <1>2 DEF GroupKept

\* The steps in which the thread of o neither saves nor closes a window.
LEMMA GroupThreads ==
  ASSUME Typed, NEW o \in Window, NEW w \in Window,
         \/ Ask(o, w) \/ CloseOwner(o) \/ Fail(o)
         \/ Identify(o) \/ Collect(o) \/ WaitTimesOut(o)
  PROVE  \A v \in Window : GroupKept(v)
<1>0. worker[o] \in Workers
  BY OfWindow
<1>1. \A v \in Window \ {o} : GroupKept(v)
  <2>1. \A v \in Window \ {o} : worker'[v] = worker[v]
    BY DEF Ask, CloseOwner, Fail, Identify, Collect, WaitTimesOut, Typed
  <2> QED
    BY <2>1, GroupSame
<1>2. CASE Ask(o, w)
  <2>1. PICK ok \in BOOLEAN :
          worker' = [worker EXCEPT ![o].todo = @ \ {w},
               ![o].pc = IF ~ok THEN "fail" ELSE IF worker[o].todo = {w} THEN "wait" ELSE @]
    BY <1>2 DEF Ask
  <2> DEFINE k == [worker[o] EXCEPT !.todo = @ \ {w},
               !.pc = IF ~ok THEN "fail" ELSE IF worker[o].todo = {w} THEN "wait" ELSE @]
  <2>2. worker[o].pc = "ask"
    BY <1>2 DEF Ask, At
  <2>3. /\ k.exit = worker[o].exit /\ k.group = worker[o].group /\ k.todo \subseteq worker[o].todo
        /\ k.pc \in {"fail", "wait", "ask"}
    BY <1>0, <2>2 DEF Workers
  <2>4. worker' = [worker EXCEPT ![o] = k]
    BY <2>1
  <2> HIDE DEF k
  <2>5. worker'[o] = k
    BY <2>4 DEF Typed
  <2> QED
    BY <1>1, <2>2, <2>3, <2>5 DEF GroupKept, Active, Saving
<1>3. CASE Identify(o)
  <2> DEFINE k == [worker[o] EXCEPT !.todo = worker[o].group \ {o},
       !.pc = IF ~AllCurrent(o) THEN "fail" ELSE IF worker[o].group = {o} THEN "wait" ELSE "ask"]
  <2>1. /\ k.exit = worker[o].exit /\ k.group = worker[o].group
        /\ k.todo = worker[o].group \ {o} /\ k.pc \in {"fail", "wait", "ask"}
    BY <1>0 DEF Workers
  <2>2. worker' = [worker EXCEPT ![o] = k] /\ worker[o].pc = "start"
    BY <1>3 DEF Identify, At
  <2> HIDE DEF k
  <2>3. worker'[o] = k
    BY <2>2 DEF Typed
  <2> QED
    BY <1>1, <2>1, <2>2, <2>3 DEF GroupKept, Active, Saving
<1>4. CASE Collect(o) /\ AllCurrent(o)
  <2> DEFINE k == [worker[o] EXCEPT !.pc = "save", !.order = NextOrder]
  <2>1. /\ k.exit = worker[o].exit /\ k.group = worker[o].group
        /\ k.todo = worker[o].todo /\ k.pc = "save"
    BY <1>0 DEF Workers
  <2>2. worker' = [worker EXCEPT ![o] = k] /\ worker[o].pc = "wait"
    BY <1>4 DEF Collect, At
  <2> HIDE DEF k
  <2>3. worker'[o] = k
    BY <2>2 DEF Typed
  <2> QED
    BY <1>1, <2>1, <2>2, <2>3 DEF GroupKept, Active, Saving
<1>5. CASE WaitTimesOut(o) \/ (Collect(o) /\ ~AllCurrent(o))
  <2> DEFINE k == [worker[o] EXCEPT !.pc = "fail"]
  <2>1. /\ k.exit = worker[o].exit /\ k.group = worker[o].group
        /\ k.todo = worker[o].todo /\ k.pc = "fail"
    BY <1>0 DEF Workers
  <2>2. worker' = [worker EXCEPT ![o] = k] /\ worker[o].pc = "wait"
    BY <1>5 DEF WaitTimesOut, Collect, At
  <2> HIDE DEF k
  <2>3. worker'[o] = k
    BY <2>2 DEF Typed
  <2> QED
    BY <1>1, <2>1, <2>2, <2>3 DEF GroupKept, Active, Saving
<1>6. CASE CloseOwner(o)
  <2> DEFINE k == [worker[o] EXCEPT !.pc = "fail"]
  <2>1. /\ k.exit = worker[o].exit /\ k.group = worker[o].group
        /\ k.todo = worker[o].todo /\ k.pc = "fail" /\ NoWorker.pc = "none"
    BY <1>0 DEF Workers, NoWorker
  <2>2. (worker' = [worker EXCEPT ![o] = NoWorker] \/ worker' = [worker EXCEPT ![o] = k])
        /\ worker[o].pc = "exit"
    BY <1>6 DEF CloseOwner, At
  <2> HIDE DEF k
  <2>3. worker'[o] = NoWorker \/ worker'[o] = k
    BY <2>2 DEF Typed
  <2> QED
    BY <1>1, <2>1, <2>2, <2>3 DEF GroupKept, Active, Saving
<1>7. CASE Fail(o)
  <2>1. worker'[o].pc \in {"none", "lost"}
    BY <1>0, <1>7 DEF Fail, Typed, Workers, NoWorker
  <2> QED
    BY <1>1, <2>1 DEF GroupKept, Active
<1> QED
  BY <1>2, <1>3, <1>4, <1>5, <1>6, <1>7

LEMMA GroupMove ==
  ASSUME Typed, [Next]_vars
  PROVE  \/ \A o \in Window : GroupKept(o)
         \/ \E o \in Window : Begin(o) \/ SaveGroup(o) \/ \E w \in Window : CloseWindow(o, w)
<1>1. ASSUME NEW w \in Window, NEW c \in Window,
        \/ \E left \in 0 .. record.count : Launch(w, left)
        \/ RestoreChild(w, c) \/ ChildReady(w) \/ Tick(w)
        \/ Confirm(w) \/ ConfirmFails(w) \/ RequestClose(w) \/ CancelClose(w) \/ HandleExit(w)
        \/ Release(w) \/ SaveIndividual(w) \/ RequestAll(w) \/ Reply(w) \/ Deliver(w)
        \/ TrayExit(w, c) \/ UNCHANGED vars
      PROVE  UNCHANGED worker
  BY <1>1 DEF Launch, RestoreChild, ChildReady, Tick, Confirm, ConfirmFails, RequestClose,
              CancelClose, HandleExit, Release, SaveIndividual, RequestAll, Reply, Deliver,
              TrayExit, vars
<1>2. ASSUME NEW w \in Window, End(w) \/ Crash(w) PROVE \A o \in Window : GroupKept(o)
  BY <1>2, GroupVanish DEF End, Crash
<1>3. ASSUME NEW w \in Window, RestoreFails(w) PROVE \A o \in Window : GroupKept(o)
  <2>1. CASE restore[w].child = NONE
    BY <1>3, <2>1, GroupSame DEF RestoreFails
  <2>2. CASE restore[w].child # NONE
    BY <1>3, <2>2, GroupVanish, OfWindow DEF RestoreFails, Restores
  <2> QED
    BY <2>1, <2>2
<1>4. CASE UNCHANGED vars
  BY <1>4, GroupSame DEF vars
<1> QED
  BY <1>1, <1>2, <1>3, <1>4, GroupSame, GroupThreads DEF Next

\* The thread saves the group.
LEMMA SaveEffect ==
  ASSUME Typed, NEW o \in Window, SaveGroup(o)
  PROVE  /\ worker[o].pc = "save" /\ UNCHANGED <<life, ui, inbox, restore, tray, token>>
         /\ worker'[o].exit = worker[o].exit /\ worker'[o].group = worker[o].group
         /\ worker'[o].todo = worker[o].group \ {o} /\ worker'[o].pc \in {"exit", "fail"}
         /\ \A v \in Window \ {o} : worker'[v] = worker[v]
         /\ \A e \in 1 .. MaxExits \ {worker[o].exit} : saved'[e] = saved[e]
         /\ worker'[o].pc = "exit" /\ worker[o].exit \in 1 .. MaxExits =>
              saved'[worker[o].exit] = worker[o].group
<1>0. worker[o] \in Workers
  BY OfWindow
<1>1. PICK ok \in BOOLEAN :
        /\ saved' = IF ok THEN [saved EXCEPT ![worker[o].exit] = worker[o].group] ELSE saved
        /\ worker' = [worker EXCEPT ![o].pc = AfterSave(ok), ![o].todo = worker[o].group \ {o}]
  BY DEF SaveGroup
<1> DEFINE k == [worker[o] EXCEPT !.pc = AfterSave(ok), !.todo = worker[o].group \ {o}]
<1>2. /\ k.exit = worker[o].exit /\ k.group = worker[o].group
      /\ k.todo = worker[o].group \ {o} /\ k.pc = AfterSave(ok)
  BY <1>0 DEF Workers
<1>3. worker' = [worker EXCEPT ![o] = k]
  BY <1>1
<1> HIDE DEF k
<1>4. worker'[o] = k /\ \A v \in Window \ {o} : worker'[v] = worker[v]
  BY <1>3 DEF Typed
<1>5. \A e \in 1 .. MaxExits \ {worker[o].exit} : saved'[e] = saved[e]
  BY <1>1 DEF Typed
<1>6. ok /\ worker[o].exit \in 1 .. MaxExits => saved'[worker[o].exit] = worker[o].group
  BY <1>1 DEF Typed
<1>7. worker[o].pc = "save" /\ UNCHANGED <<life, ui, inbox, restore, tray, token>>
  BY DEF SaveGroup, At
<1> QED
  BY <1>2, <1>4, <1>5, <1>6, <1>7 DEF AfterSave

\* The thread closes a window, or passes it over.
LEMMA CloseWindowEffect ==
  ASSUME Typed, NEW o \in Window, NEW w \in Window, CloseWindow(o, w)
  PROVE  /\ worker[o].pc = "exit" /\ w \in worker[o].todo
         /\ worker'[o].exit = worker[o].exit /\ worker'[o].group = worker[o].group
         /\ worker'[o].todo = worker[o].todo \ {w} /\ worker'[o].pc \in {"exit", "fail"}
         /\ \A v \in Window \ {o} : worker'[v] = worker[v]
         /\ UNCHANGED <<life, restore, tray, saved, token>>
         /\ ~Current(w) => UNCHANGED <<ui, inbox>>
         /\ Current(w) => \E ok \in BOOLEAN : /\ Send(w, Message("close", o, worker[o].exit), ok)
                                             /\ worker'[o].pc = "exit" => ok
<1>0. worker[o] \in Workers
  BY OfWindow
<1>1. /\ worker[o].pc = "exit" /\ w \in worker[o].todo
      /\ UNCHANGED <<life, restore, tray, saved, token>>
      /\ ~Current(w) => UNCHANGED <<ui, inbox>>
      /\ \A v \in Window \ {o} : worker'[v] = worker[v]
  BY DEF CloseWindow, At, Typed
<1>2. CASE ~Current(w)
  <2> DEFINE k == [worker[o] EXCEPT !.todo = @ \ {w}]
  <2>1. /\ k.exit = worker[o].exit /\ k.group = worker[o].group
        /\ k.todo = worker[o].todo \ {w} /\ k.pc = worker[o].pc
    BY <1>0 DEF Workers
  <2>2. worker' = [worker EXCEPT ![o] = k]
    BY <1>2 DEF CloseWindow
  <2> HIDE DEF k
  <2>3. worker'[o] = k
    BY <2>2 DEF Typed
  <2> QED
    BY <1>1, <1>2, <2>1, <2>3
<1>3. CASE Current(w)
  <2>1. PICK ok \in BOOLEAN :
          /\ Send(w, Message("close", o, worker[o].exit), ok)
          /\ worker' = [worker EXCEPT ![o].todo = @ \ {w}, ![o].pc = AfterClose(ok)]
    BY <1>3 DEF CloseWindow
  <2> DEFINE k == [worker[o] EXCEPT !.todo = @ \ {w}, !.pc = AfterClose(ok)]
  <2>2. /\ k.exit = worker[o].exit /\ k.group = worker[o].group
        /\ k.todo = worker[o].todo \ {w} /\ k.pc = AfterClose(ok)
    BY <1>0 DEF Workers
  <2>3. worker' = [worker EXCEPT ![o] = k]
    BY <2>1
  <2> HIDE DEF k
  <2>4. worker'[o] = k
    BY <2>3 DEF Typed
  <2> QED
    BY <1>1, <1>3, <2>1, <2>2, <2>4 DEF AfterClose
<1> QED
  BY <1>2, <1>3

\* A global exit begins, with the windows there are.
LEMMA BeginEffect ==
  ASSUME Typed, NEW o \in Window, Begin(o)
  PROVE  /\ UNCHANGED <<life, inbox, restore, tray, saved, token>>
         /\ 1 \in DOMAIN ui[o].actions /\ IsExitAll(o, 1)
         /\ \A v \in Window \ {o} : worker'[v] = worker[v]
         /\ \/ worker'[o] = worker[o]
            \/ /\ Current(o) /\ worker'[o].pc = "start" /\ worker'[o].todo = {}
               /\ worker'[o].exit = ui[o].actions[1].exit
               /\ worker'[o].group = {w \in Window : Current(w)}
<1>1. ui[o].actions \in Seq(Actions) /\ ui[o].actions # << >>
  BY OfWindow DEF Uis, Begin
<1>2. 1 \in DOMAIN ui[o].actions /\ Head(ui[o].actions) = ui[o].actions[1]
  BY <1>1
<1>3. IsExitAll(o, 1)
  BY <1>2 DEF Begin, IsExitAll
<1> DEFINE k == [pc |-> "start", exit |-> Head(ui[o].actions).exit,
                 group |-> {w \in Window : Current(w)}, todo |-> {}, order |-> 0]
<1>4. worker' = worker \/ (Current(o) /\ worker' = [worker EXCEPT ![o] = k])
  BY DEF Begin
<1>5. /\ k.pc = "start" /\ k.todo = {} /\ k.exit = Head(ui[o].actions).exit
      /\ k.group = {w \in Window : Current(w)}
  OBVIOUS
<1> HIDE DEF k
<1>6. /\ worker'[o] = worker[o] \/ (Current(o) /\ worker'[o] = k)
      /\ \A v \in Window \ {o} : worker'[v] = worker[v]
  BY <1>4 DEF Typed
<1>7. UNCHANGED <<life, inbox, restore, tray, saved, token>>
  BY DEF Begin
<1> QED
  BY <1>2, <1>3, <1>5, <1>6, <1>7

----------------------------------------------------------------------------
(* A global exit is saved once.                                            *)

HasExitAll(o, e) == \E i \in DOMAIN ui[o].actions : IsExitAll(o, i) /\ ui[o].actions[i].exit = e

LEMMA ExitAllKept ==
  ASSUME NEW o \in Window, ExitStays(o), NEW e, HasExitAll(o, e)'
  PROVE  HasExitAll(o, e)
<1>1. PICK d \in {0, 1} : \A i \in DOMAIN ui'[o].actions : ui'[o].actions[i].kind = "exitall" =>
        i + d \in DOMAIN ui[o].actions /\ ui'[o].actions[i] = ui[o].actions[i + d]
  BY DEF ExitStays, FewerOf
<1>2. PICK i \in DOMAIN ui'[o].actions :
        ui'[o].actions[i].kind = "exitall" /\ ui'[o].actions[i].exit = e
  BY DEF HasExitAll, IsExitAll
<1>3. i + d \in DOMAIN ui[o].actions /\ ui'[o].actions[i] = ui[o].actions[i + d]
  BY <1>1, <1>2
<1> QED
  BY <1>2, <1>3 DEF HasExitAll, IsExitAll

LEMMA UnsavedKept ==
  ASSUME Typed, [Next]_vars, \A v \in Window : ExitStays(v), NEW o \in Window, NEW e,
         Unsaved(o, e)'
  PROVE  Unsaved(o, e)
<1>1. CASE HasExitAll(o, e)'
  BY <1>1, ExitAllKept DEF Unsaved, HasExitAll
<1>2. CASE Saving(o)' /\ worker'[o].exit = e
  <2>1. CASE GroupKept(o)
    BY <1>2, <2>1 DEF GroupKept, Saving, Active, Unsaved
  <2>2. ASSUME NEW x \in Window, Begin(x) PROVE Unsaved(o, e)
    <3>1. CASE worker'[o] = worker[o]
      BY <1>2, <3>1 DEF Saving, Unsaved
    <3>2. CASE worker'[o] # worker[o]
      BY <1>2, <2>2, <3>2, BeginEffect DEF Unsaved
    <3> QED
      BY <3>1, <3>2
  <2>3. ASSUME NEW x \in Window, SaveGroup(x) PROVE Unsaved(o, e)
    <3>1. worker'[o] = worker[o] \/ worker'[o].pc \in {"exit", "fail"}
      BY <2>3, SaveEffect
    <3> QED
      BY <1>2, <3>1 DEF Saving, Unsaved
  <2>4. ASSUME NEW x \in Window, NEW w \in Window, CloseWindow(x, w) PROVE Unsaved(o, e)
    <3>1. worker'[o] = worker[o] \/ worker'[o].pc \in {"exit", "fail"}
      BY <2>4, CloseWindowEffect
    <3> QED
      BY <1>2, <3>1 DEF Saving, Unsaved
  <2> QED
    BY <2>1, <2>2, <2>3, <2>4, GroupMove
<1> QED
  BY <1>1, <1>2 DEF Unsaved, HasExitAll, Saving

LEMMA UnsavedOld ==
  ASSUME Typed, NEW o \in Window, OneExit(o), NEW e, Unsaved(o, e)
  PROVE  e \in 1 .. token
BY DEF Unsaved, OneExit, Active

\* saved changes in one action and token in another.
LEMMA GhostMoves ==
  ASSUME [Next]_vars
  PROVE  /\ UNCHANGED saved \/ \E o \in Window : SaveGroup(o)
         /\ UNCHANGED token \/ \E o \in Window : RequestAll(o)
<1>1. ASSUME NEW w \in Window, NEW c \in Window,
        \/ \E left \in 0 .. record.count : Launch(w, left)
        \/ RestoreChild(w, c) \/ ChildReady(w) \/ RestoreFails(w) \/ Tick(w)
      PROVE  UNCHANGED <<saved, token>>
  BY <1>1 DEF Launch, RestoreChild, ChildReady, RestoreFails, Tick
<1>2. ASSUME NEW w \in Window,
        \/ Confirm(w) \/ ConfirmFails(w) \/ RequestClose(w) \/ CancelClose(w) \/ HandleExit(w)
        \/ Release(w) \/ SaveIndividual(w) \/ End(w) \/ Crash(w)
      PROVE  UNCHANGED <<saved, token>>
  BY <1>2 DEF Confirm, ConfirmFails, RequestClose, CancelClose, HandleExit, Release,
              SaveIndividual, End, Crash
<1>3. ASSUME NEW w \in Window, Begin(w) \/ Reply(w) \/ Deliver(w)
      PROVE  UNCHANGED <<saved, token>>
  BY <1>3 DEF Begin, Reply, Deliver
<1>4. ASSUME NEW w \in Window, NEW c \in Window,
        TrayExit(w, c) \/ Ask(w, c) \/ CloseWindow(w, c) \/ CloseOwner(w) \/ Fail(w)
      PROVE  UNCHANGED <<saved, token>>
  BY <1>4 DEF TrayExit, Ask, CloseWindow, CloseOwner, Fail
<1>5. ASSUME NEW w \in Window, Identify(w) \/ Collect(w) \/ WaitTimesOut(w)
      PROVE  UNCHANGED <<saved, token>>
  BY <1>5 DEF Identify, Collect, WaitTimesOut
<1>6. ASSUME NEW w \in Window, RequestAll(w) PROVE UNCHANGED saved
  BY <1>6 DEF RequestAll
<1>7. ASSUME NEW w \in Window, SaveGroup(w) PROVE UNCHANGED token
  BY <1>7 DEF SaveGroup
<1>8. CASE UNCHANGED vars
  BY <1>8 DEF vars
<1> QED
  BY <1>1, <1>2, <1>3, <1>4, <1>5, <1>6, <1>7, <1>8 DEF Next

\* A new exit waits among the actions of the owner.
LEMMA RequestEffect ==
  ASSUME Typed, NEW o \in Window, RequestAll(o)
  PROVE  /\ UNCHANGED <<life, inbox, worker, restore, tray, saved>> /\ token' = token + 1
         /\ token + 1 \in 1 .. MaxExits
         /\ \A v \in Window \ {o} : ui'[v] = ui[v]
         /\ ui'[o].group = ui[o].group /\ ui'[o].prepared = ui[o].prepared
         /\ \A e : HasExitAll(o, e)' => HasExitAll(o, e) \/ e = token + 1
<1> DEFINE m == Message("exitall", o, token')
<1>0. ui[o] \in Uis /\ ui[o].actions \in Seq(Actions)
  BY OfWindow DEF Uis
<1>1. /\ UNCHANGED <<life, inbox, worker, restore, tray, saved>> /\ token' = token + 1
      /\ \A v \in Window \ {o} : ui'[v] = ui[v]
  BY DEF RequestAll, Typed
<1>2. token + 1 \in 1 .. MaxExits
  <2>1. token < MaxExits /\ token \in 0 .. MaxExits
    BY DEF RequestAll, Typed
  <2> QED
    BY <2>1, SessionAssumption
<1>3. /\ ui'[o].group = ui[o].group /\ ui'[o].prepared = ui[o].prepared
      /\ ui'[o].actions = Append(ui[o].actions, m)
  <2> DEFINE u == [ui[o] EXCEPT !.busy = TRUE, !.actions = Append(@, m)]
  <2>1. /\ u.group = ui[o].group /\ u.prepared = ui[o].prepared
        /\ u.actions = Append(ui[o].actions, m)
    <3> HIDE DEF m
    <3> QED
      BY <1>0 DEF Uis
  <2>2. ui' = [ui EXCEPT ![o] = u]
    BY DEF RequestAll
  <2> HIDE DEF u
  <2> QED
    BY <2>1, <2>2 DEF Typed
<1>4. m.exit = token + 1
  BY <1>1 DEF Message
<1> HIDE DEF m
<1>5. \A i \in DOMAIN ui'[o].actions :
        \/ i \in DOMAIN ui[o].actions /\ ui'[o].actions[i] = ui[o].actions[i]
        \/ ui'[o].actions[i] = m
  BY <1>0, <1>3
<1>6. ASSUME NEW e, HasExitAll(o, e)' PROVE HasExitAll(o, e) \/ e = token + 1
  BY <1>4, <1>5, <1>6 DEF HasExitAll, IsExitAll
<1> QED
  BY <1>1, <1>2, <1>3, <1>6

LEMMA ApartStep ==
  ASSUME TypeInv, TypeInv', ExitsApart, [Next]_vars
  PROVE  ExitsApart' /\ SavedKept /\ token' >= token
<1>0. /\ Typed /\ Typed' /\ OrdersBounded /\ \A v \in Window : Phase(v) /\ OneExit(v)
      /\ token \in 0 .. MaxExits /\ token \in Nat /\ MaxExits \in Nat
  BY SessionAssumption DEF TypeInv, Typed
<1>1. ASSUME NEW o \in Window, RequestAll(o) PROVE ExitsApart' /\ SavedKept /\ token' >= token
  <2>1. /\ UNCHANGED <<worker, saved>> /\ token' = token + 1 /\ token + 1 \in 1 .. MaxExits
        /\ \A v \in Window \ {o} : ui'[v] = ui[v]
        /\ \A e : HasExitAll(o, e)' => HasExitAll(o, e) \/ e = token + 1
    BY <1>0, <1>1, RequestEffect
  <2>2. \A v \in Window : \A e : Unsaved(v, e)' => Unsaved(v, e) \/ (v = o /\ e = token + 1)
    BY <2>1 DEF Unsaved, HasExitAll, IsExitAll
  <2>3. \A v \in Window : ~Unsaved(v, token + 1)
    <3>1. token + 1 \notin 1 .. token
      BY <1>0
    <3> QED
      BY <1>0, <3>1, UnsavedOld
  <2>4. saved[token + 1] = {}
    <3>1. token + 1 > token
      BY <1>0
    <3> QED
      BY <2>1, <3>1 DEF ExitsApart
  <2>5. ASSUME NEW v \in Window, NEW e \in 1 .. token', Unsaved(v, e)'
        PROVE  saved'[e] = {} /\ \A x \in Window : Unsaved(x, e)' => x = v
    <3>1. CASE e = token + 1
      BY <2>1, <2>2, <2>3, <2>4, <2>5, <3>1
    <3>2. CASE e # token + 1
      <4>1. e \in 1 .. token
        BY <1>0, <2>1, <3>2
      <4> QED
        BY <2>1, <2>2, <2>5, <3>2, <4>1 DEF ExitsApart
    <3> QED
      BY <3>1, <3>2
  <2>6. \A e \in 1 .. MaxExits : e > token' => saved'[e] = {}
    <3>1. \A e \in 1 .. MaxExits : e > token' => e > token
      BY <1>0, <2>1
    <3> QED
      BY <2>1, <3>1 DEF ExitsApart
  <2> QED
    BY <1>0, <2>1, <2>5, <2>6 DEF ExitsApart, SavedKept
<1>2. ASSUME \A v \in Window : ExitStays(v), \A o \in Window : ~RequestAll(o)
      PROVE  ExitsApart' /\ SavedKept /\ token' >= token
  <2>1. \A v \in Window : \A e : Unsaved(v, e)' => Unsaved(v, e)
    BY <1>0, <1>2, UnsavedKept
  <2>2. UNCHANGED token
    BY <1>2, GhostMoves
  <2>3. CASE UNCHANGED saved
    BY <1>0, <2>1, <2>2, <2>3 DEF ExitsApart, SavedKept
  <2>4. ASSUME NEW o \in Window, SaveGroup(o)
        PROVE  ExitsApart' /\ SavedKept /\ token' >= token
    <3>0. PICK e0 : e0 = worker[o].exit
      OBVIOUS
    <3>1. /\ worker[o].pc = "save" /\ UNCHANGED ui /\ worker'[o].pc \in {"exit", "fail"}
          /\ \A e \in 1 .. MaxExits \ {e0} : saved'[e] = saved[e]
      BY <1>0, <2>4, <3>0, SaveEffect
    <3>2. Unsaved(o, e0) /\ Active(o)
      BY <3>0, <3>1 DEF Unsaved, Active
    <3>3. e0 \in 1 .. token /\ ui[o].pending = e0
      BY <1>0, <3>0, <3>2 DEF OneExit
    <3>4. saved[e0] = {} /\ \A v \in Window : Unsaved(v, e0) => v = o
      BY <3>2, <3>3 DEF ExitsApart
    <3>5. ~Unsaved(o, e0)'
      <4>1. \A i \in DOMAIN ui[o].actions : ~IsExitAll(o, i)
        <5>1. ui[o].pending # 0
          BY <1>0, <3>3
        <5> QED
          BY <1>0, <5>1 DEF OneExit
      <4> QED
        BY <3>1, <4>1 DEF Unsaved, IsExitAll
    <3>6. \A v \in Window : ~Unsaved(v, e0)'
      BY <2>1, <3>4, <3>5
    <3>7. \A e \in 1 .. token' : e \in 1 .. MaxExits /\ e \in 1 .. token
      BY <1>0, <2>2
    <3>8. ASSUME NEW v \in Window, NEW e \in 1 .. token', Unsaved(v, e)'
          PROVE  saved'[e] = {} /\ \A x \in Window : Unsaved(x, e)' => x = v
      BY <2>1, <3>1, <3>6, <3>7, <3>8 DEF ExitsApart
    <3>9. \A e \in 1 .. MaxExits : e > token' => saved'[e] = {}
      <4>1. \A e \in 1 .. MaxExits : e > token' => e # e0 /\ e > token
        BY <1>0, <2>2, <3>3
      <4> QED
        BY <3>1, <4>1 DEF ExitsApart
    <3>10. SavedKept
      BY <3>1, <3>4 DEF SavedKept
    <3> QED
      BY <1>0, <2>2, <3>8, <3>9, <3>10 DEF ExitsApart
  <2> QED
    BY <2>3, <2>4, GhostMoves
<1> QED
  BY <1>0, <1>1, <1>2, ExitsMove

----------------------------------------------------------------------------
(* What a window is told, and that it leaves with its group.               *)

LeftKept(w) == ui'[w].group =>
  \/ /\ ui[w].group
     /\ ui'[w].prepared = ui[w].prepared \/ ui'[w].prepared[1] = NONE
  \/ \E m \in Mail : m.kind = "close" /\ Sound(w, m) /\ ui'[w].prepared = <<m.from, m.exit>>

InboxKept(w) == \A i \in DOMAIN inbox'[w] :
  (\E j \in DOMAIN inbox[w] : inbox'[w][i] = inbox[w][j]) \/ Sound(w, inbox'[w][i])

MailKept(w) == LeftKept(w) /\ InboxKept(w)

LEMMA MailSame ==
  ASSUME NEW w \in Window, inbox'[w] = inbox[w] \/ inbox'[w] = << >>,
         ui'[w].group => ui[w].group /\ ui'[w].prepared = ui[w].prepared
  PROVE  MailKept(w)
BY DEF MailKept, LeftKept, InboxKept

LEMMA LeftHandles ==
  ASSUME Typed, NEW w \in Window, NEW m \in Mail, Handles(w, m, ui[w], ui'[w]), Sound(w, m)
  PROVE  LeftKept(w)
<1>0. ui[w] \in Uis
  BY OfWindow
<1>1. CASE ui'[w] = [ui[w] EXCEPT !.actions = Append(@, Message("capture", m.from, m.exit))]
  <2>1. ui'[w].group = ui[w].group /\ ui'[w].prepared = ui[w].prepared
    BY <1>0, <1>1 DEF Uis
  <2> QED
    BY <2>1 DEF LeftKept
<1>2. CASE ui'[w] = [ui[w] EXCEPT !.expected = @ \ {m.from}, !.replies = @ \cup {m.from}]
  <2>1. ui'[w].group = ui[w].group /\ ui'[w].prepared = ui[w].prepared
    BY <1>0, <1>2 DEF Uis
  <2> QED
    BY <2>1 DEF LeftKept
<1>3. CASE ui'[w] = FailedExit(ui[w])
  <2>1. ui'[w].group = ui[w].group /\ ui'[w].prepared = <<NONE, 0>>
    BY <1>0, <1>3 DEF Uis, FailedExit
  <2> QED
    BY <2>1 DEF LeftKept
<1>4. CASE Exits(ui[w], ui'[w]) /\ m.kind = "close" /\ ui[w].prepared = <<m.from, m.exit>>
  <2>1. ui'[w].prepared = <<m.from, m.exit>>
    BY <1>4 DEF Exits
  <2> QED
    BY <1>4, <2>1 DEF LeftKept
<1>5. CASE Exits(ui[w], ui'[w]) /\ ui'[w].group = ui[w].group
  BY <1>5 DEF LeftKept, Exits
<1>6. CASE ui'[w] = ui[w]
  BY <1>6 DEF LeftKept
<1> QED
  BY <1>1, <1>2, <1>3, <1>4, <1>5, <1>6 DEF Handles

LEMMA InboxGrows ==
  ASSUME Typed, NEW w \in Window, NEW m \in Mail, Sound(w, m),
         inbox'[w] = inbox[w] \/ inbox'[w] = Append(inbox[w], m)
  PROVE  InboxKept(w)
<1>1. inbox[w] \in Seq(Mail)
  BY OfWindow
<1>2. \A i \in DOMAIN inbox'[w] :
        \/ i \in DOMAIN inbox[w] /\ inbox'[w][i] = inbox[w][i]
        \/ inbox'[w][i] = m
  BY <1>1
<1> QED
  BY <1>2 DEF InboxKept

LEMMA MailSend ==
  ASSUME Typed, NEW to \in Window, NEW m \in Mail, NEW ok \in BOOLEAN, Send(to, m, ok),
         Sound(to, m), NEW w \in Window
  PROVE  MailKept(w)
<1>1. CASE w # to
  <2>1. ui'[w] = ui[w] /\ inbox'[w] = inbox[w]
    BY <1>1 DEF Send, Typed
  <2> QED
    BY <2>1, MailSame
<1>2. CASE w = to /\ ui'[w] = Received(w, m) /\ inbox'[w] = inbox[w]
  <2>1. Handles(w, m, ui[w], ui'[w])
    BY <1>2, ReceivedEffect
  <2> QED
    BY <1>2, <2>1, LeftHandles, InboxGrows DEF MailKept
<1>3. CASE w = to /\ ui'[w] = ui[w] /\ inbox'[w] = Append(inbox[w], m)
  BY <1>3, InboxGrows DEF MailKept, LeftKept
<1>4. CASE ui'[w] = ui[w] /\ inbox'[w] = inbox[w]
  BY <1>4, MailSame
<1> QED
  BY <1>1, <1>2, <1>3, <1>4 DEF Send, Typed

LEMMA MailPost ==
  ASSUME Typed, NEW to \in Window, NEW m \in Mail, m.kind # "close", NEW arrives \in BOOLEAN,
         Post(to, m, arrives), NEW w \in Window
  PROVE  InboxKept(w)
<1>1. inbox'[w] = inbox[w] \/ inbox'[w] = Append(inbox[w], m)
  BY DEF Post, Typed
<1>2. Sound(w, m)
  BY DEF Sound
<1> QED
  BY <1>1, <1>2, InboxGrows

LEMMA MailVanish ==
  ASSUME Typed, NEW x \in Window, Vanishes(x), NEW w \in Window
  PROVE  MailKept(w)
<1>1. CASE w = x
  <2>1. ~ui'[w].group /\ inbox'[w] = << >>
    BY <1>1, VanishEffect DEF GoneUi
  <2> QED
    BY <2>1, MailSame
<1>2. CASE w # x
  <2>1. ui'[w] = ui[w] /\ inbox'[w] = inbox[w]
    BY <1>2, VanishEffect
  <2> QED
    BY <2>1, MailSame
<1> QED
  BY <1>1, <1>2

LEMMA MailWindows ==
  ASSUME Typed, OrdersBounded, NEW w \in Window, NEW c \in Window,
         \/ \E left \in 0 .. record.count : Launch(w, left)
         \/ RestoreChild(w, c) \/ ChildReady(w) \/ RestoreFails(w) \/ Tick(w)
         \/ Confirm(w) \/ ConfirmFails(w) \/ RequestClose(w) \/ CancelClose(w) \/ HandleExit(w)
         \/ Release(w) \/ SaveIndividual(w) \/ End(w) \/ Crash(w) \/ RequestAll(w),
         NEW v \in Window
  PROVE  MailKept(v)
<1>1. CASE UNCHANGED <<ui, inbox>>
  BY <1>1, MailSame
<1>2. CASE Confirm(w) \/ RequestClose(w) \/ CancelClose(w)
  BY <1>2, CloseEffect, MailSame
<1>3. CASE ConfirmFails(w) \/ HandleExit(w)
  <2>1. Leaves(w)
    BY <1>3 DEF ConfirmFails, HandleExit
  <2> QED
    BY <2>1, LeavesEffect, MailSame
<1>4. CASE End(w) \/ Crash(w)
  BY <1>4, MailVanish DEF End, Crash
<1>5. CASE RestoreFails(w) /\ restore[w].child # NONE
  <2>1. restore[w].child \in Window /\ Vanishes(restore[w].child)
    BY <1>5, OfWindow DEF RestoreFails, Restores
  <2> QED
    BY <2>1, MailVanish
<1>6. CASE RequestAll(w)
  BY <1>6, RequestEffect, MailSame
<1> QED
  BY <1>1, <1>2, <1>3, <1>4, <1>5, <1>6
     DEF Launch, RestoreChild, ChildReady, RestoreFails, Tick, Release, SaveIndividual

LEMMA MailFrames ==
  ASSUME Typed, NEW w \in Window, Phase(w), Begin(w) \/ Reply(w) \/ Deliver(w),
         \A i \in DOMAIN inbox[w] : Sound(w, inbox[w][i]), NEW v \in Window
  PROVE  MailKept(v)
<1>1. CASE Begin(w) \/ Reply(w)
  <2>1. LeftKept(v)
    <3>1. /\ ~ui[w].exiting /\ ui'[w].group = ui[w].group /\ life[w] = "up"
          /\ \A x \in Window \ {w} : ui'[x] = ui[x]
      BY <1>1, FramesEffect
    <3>2. ~ui'[w].group
      BY <3>1, ExitingWaits
    <3> QED
      BY <3>1, <3>2 DEF LeftKept
  <2>2. InboxKept(v)
    <3>1. CASE UNCHANGED inbox
      BY <3>1 DEF InboxKept
    <3>2. CASE Reply(w) /\ Current(Head(ui[w].actions).from)
      <4> DEFINE a == Head(ui[w].actions)
      <4>1. PICK arrives \in BOOLEAN : Post(a.from, Message("reply", w, a.exit), arrives)
        BY <3>2 DEF Reply
      <4>2. a \in Actions /\ a.kind = "capture"
        <5>1. ui[w].actions \in Seq(Actions) /\ ui[w].actions # << >> /\ a.kind = "capture"
          BY <3>2, OfWindow DEF Reply, Uis
        <5> QED
          BY <5>1, HeadTailProperties
      <4>3. a.from \in Window /\ a.exit \in 0 .. MaxExits
        BY <4>2 DEF Actions, Message
      <4>4. Message("reply", w, a.exit) \in Mail /\ Message("reply", w, a.exit).kind # "close"
        BY <4>3 DEF Message, Mail, Kinds
      <4> HIDE DEF a
      <4> QED
        BY <4>1, <4>3, <4>4, MailPost
    <3> QED
      BY <1>1, <3>1, <3>2 DEF Begin, Reply
  <2> QED
    BY <2>1, <2>2 DEF MailKept
<1>2. CASE Deliver(w)
  <2> DEFINE m == Head(inbox[w])
  <2>0. inbox[w] \in Seq(Mail) /\ inbox[w] # << >>
    BY <1>2, OfWindow DEF Deliver
  <2>1. /\ ui'[w] = Received(w, m) /\ inbox'[w] = Tail(inbox[w])
        /\ \A x \in Window \ {w} : ui'[x] = ui[x] /\ inbox'[x] = inbox[x]
    BY <1>2 DEF Deliver, Typed
  <2>2. m \in Mail /\ m = inbox[w][1] /\ 1 \in DOMAIN inbox[w]
    BY <2>0, HeadTailProperties
  <2>3. \A i \in DOMAIN Tail(inbox[w]) :
          i + 1 \in DOMAIN inbox[w] /\ Tail(inbox[w])[i] = inbox[w][i + 1]
    BY <2>0
  <2> HIDE DEF m
  <2>4. LeftKept(w)
    BY <2>1, <2>2, ReceivedEffect, LeftHandles
  <2>5. InboxKept(w)
    BY <2>1, <2>3 DEF InboxKept
  <2>6. v # w => MailKept(v)
    BY <2>1, MailSame
  <2> QED
    BY <2>4, <2>5, <2>6 DEF MailKept
<1> QED
  BY <1>1, <1>2

\* What the thread of o may say to the windows of its group, and last to its own.
LEMMA CloseIsSound ==
  ASSUME Typed, NEW o \in Window, OneExit(o), Grouped(o), worker[o].pc = "exit"
  PROVE  /\ \A w \in worker[o].todo : Sound(w, Message("close", o, worker[o].exit))
         /\ worker[o].todo = {} => Sound(o, Message("close", o, worker[o].exit))
<1> DEFINE m == Message("close", o, worker[o].exit)
<1>1. m.from = o /\ m.exit = worker[o].exit /\ m.kind = "close"
  BY DEF Message
<1>2. Active(o) /\ worker[o].exit \in 1 .. token
  BY DEF Active, OneExit
<1>3. /\ saved[worker[o].exit] = worker[o].group /\ Closed(o, worker[o].group)
      /\ worker[o].todo \subseteq worker[o].group \ {o}
      /\ \A v \in worker[o].group \ ({o} \cup worker[o].todo) : Settled(v)
  BY <1>2 DEF Grouped, GroupClosed, ExitSaved
<1> HIDE DEF m
<1>4. \A w \in worker[o].todo : Sound(w, m)
  BY <1>1, <1>2, <1>3 DEF Sound
<1>5. worker[o].todo = {} => Sound(o, m)
  <2> SUFFICES ASSUME worker[o].todo = {} PROVE Sound(o, m)
    OBVIOUS
  <2>1. OnlyOwnerLeft(o, worker[o].exit)
    BY <1>3 DEF OnlyOwnerLeft
  <2>2. o \in saved[worker[o].exit]
    BY <1>3 DEF Closed
  <2> QED
    BY <1>1, <1>2, <2>1, <2>2 DEF Sound
<1> QED
  BY <1>4, <1>5 DEF m

LEMMA MailThreads ==
  ASSUME Typed, NEW o \in Window, NEW w \in Window, OneExit(o), Grouped(o), Phase(w),
         \/ TrayExit(o, w) \/ Ask(o, w) \/ CloseWindow(o, w) \/ CloseOwner(o) \/ Fail(o)
         \/ Identify(o) \/ Collect(o) \/ WaitTimesOut(o) \/ SaveGroup(o),
         NEW v \in Window
  PROVE  MailKept(v)
<1>0. worker[o].exit \in 0 .. MaxExits /\ 0 \in 0 .. MaxExits
  BY OfWindow, SessionAssumption DEF Workers
<1>1. \A kind \in Kinds : /\ Message(kind, o, worker[o].exit) \in Mail
                          /\ Message(kind, o, 0) \in Mail
  BY <1>0 DEF Message, Mail
<1>2. \A x \in Window : /\ Sound(x, Message("exit", o, 0))
                        /\ Sound(x, Message("request", o, worker[o].exit))
  BY DEF Sound, Message
<1>3. CASE UNCHANGED <<ui, inbox>>
  BY <1>3, MailSame
<1>4. CASE TrayExit(o, w)
  <2>1. CASE o = w
    <3>1. Exits(ui[w], Exiting(ui[w])) /\ Exiting(ui[w]).group = ui[w].group
      BY <2>1, OfWindow, ExitingEffect
    <3>2. ui' = [ui EXCEPT ![w] = Exiting(ui[w])] /\ UNCHANGED inbox
      BY <1>4, <2>1 DEF TrayExit
    <3>3. ui'[w].group = ui[w].group /\ ui'[w].prepared = ui[w].prepared
          /\ \A x \in Window \ {w} : ui'[x] = ui[x]
      BY <3>1, <3>2 DEF Exits, Typed
    <3> QED
      BY <3>2, <3>3, MailSame
  <2>2. CASE o # w
    BY <1>1, <1>2, <1>4, <2>2, MailSend DEF TrayExit, Kinds
  <2> QED
    BY <2>1, <2>2
<1>5. CASE Ask(o, w)
  BY <1>1, <1>2, <1>5, MailSend DEF Ask, Kinds
<1>6. CASE CloseWindow(o, w) /\ Current(w)
  <2>1. PICK ok \in BOOLEAN : Send(w, Message("close", o, worker[o].exit), ok)
    BY <1>6 DEF CloseWindow
  <2>2. Sound(w, Message("close", o, worker[o].exit))
    BY <1>6, CloseWindowEffect, CloseIsSound
  <2> QED
    BY <1>1, <2>1, <2>2, MailSend DEF Kinds
<1>7. CASE CloseOwner(o)
  <2>1. PICK ok \in BOOLEAN : Send(o, Message("close", o, worker[o].exit), ok)
    BY <1>7 DEF CloseOwner
  <2>2. Sound(o, Message("close", o, worker[o].exit))
    BY <1>7, CloseIsSound DEF CloseOwner, At
  <2> QED
    BY <1>1, <2>1, <2>2, MailSend DEF Kinds
<1>8. CASE Fail(o)
  <2>1. UNCHANGED ui
    BY <1>8 DEF Fail
  <2>2. PICK arrives \in BOOLEAN : Post(o, Message("failed", o, worker[o].exit), arrives)
    BY <1>8 DEF Fail
  <2>3. Message("failed", o, worker[o].exit).kind # "close"
    BY DEF Message
  <2>4. InboxKept(v)
    BY <1>1, <2>2, <2>3, MailPost DEF Kinds
  <2> QED
    BY <2>1, <2>4 DEF MailKept, LeftKept
<1> QED
  BY <1>3, <1>4, <1>5, <1>6, <1>7, <1>8
     DEF CloseWindow, Identify, Collect, WaitTimesOut, SaveGroup

LEMMA MailStep ==
  ASSUME TypeInv, LeaveInv, [Next]_vars, NEW v \in Window
  PROVE  MailKept(v)
<1>1. Typed /\ OrdersBounded
      /\ \A w \in Window : /\ Phase(w) /\ OneExit(w) /\ Grouped(w)
                           /\ \A i \in DOMAIN inbox[w] : Sound(w, inbox[w][i])
  BY DEF TypeInv, LeaveInv
<1>2. CASE UNCHANGED vars
  BY <1>2, MailSame DEF vars
<1> QED
  BY <1>1, <1>2, MailWindows, MailFrames, MailThreads DEF Next

LEMMA CloseInMail ==
  ASSUME NEW w \in Window, NEW e \in 0 .. MaxExits
  PROVE  /\ Message("close", w, e) \in Mail /\ Message("close", w, e).kind = "close"
         /\ Message("close", w, e).from = w /\ Message("close", w, e).exit = e
BY DEF Message, Mail, Kinds

\* What was said to a window stays so.
LEMMA LeftStep ==
  ASSUME Typed, Typed', Steady, SavedKept, token' >= token, NEW w \in Window, MailKept(w),
         Left(w), \A i \in DOMAIN inbox[w] : Sound(w, inbox[w][i])
  PROVE  Left(w)' /\ \A i \in DOMAIN inbox'[w] : Sound(w, inbox[w][i])'
<1>0. token' \in 0 .. MaxExits /\ token \in 0 .. MaxExits
  BY DEF Typed
<1>1. \A m \in Mail : Sound(w, m) => Sound(w, m)'
  BY <1>0, SoundStays
<1>2. ASSUME NEW m \in Mail, m.kind = "close", Sound(w, m)
      PROVE  \E e \in 1 .. token' : w \in saved'[e]
  <2>1. Sound(w, m)'
    BY <1>1, <1>2
  <2> QED
    BY <1>2, <2>1 DEF Sound
<1>3. Left(w)'
  <2> SUFFICES ASSUME ui'[w].group
               PROVE  /\ \E e \in 1 .. token' : w \in saved'[e]
                      /\ ui'[w].prepared[1] = w =>
                           Sound(w, Message("close", w, ui[w].prepared[2]))'
    BY DEF Left
  <2>1. PICK e0 \in 0 .. MaxExits : e0 = ui'[w].prepared[2]
    <3>1. ui'[w] \in Uis
      BY DEF Typed
    <3> QED
      BY <3>1 DEF Uis
  <2>2. CASE ui[w].group /\ (ui'[w].prepared = ui[w].prepared \/ ui'[w].prepared[1] = NONE)
    <3>1. PICK e \in 1 .. token : w \in saved[e]
      BY <2>2 DEF Left
    <3>2. e \in 1 .. token' /\ w \in saved'[e]
      BY <1>0, <3>1, SessionAssumption DEF SavedKept
    <3>3. ASSUME ui'[w].prepared[1] = w
          PROVE  Sound(w, Message("close", w, e0))'
      <4>1. ui'[w].prepared = ui[w].prepared
        BY <2>2, <3>3, SessionAssumption
      <4>2. Sound(w, Message("close", w, e0))
        BY <2>1, <2>2, <3>3, <4>1 DEF Left
      <4> QED
        BY <1>1, <4>2, CloseInMail
    <3> QED
      BY <2>1, <3>2, <3>3 DEF Sound, Message, OnlyOwnerLeft, Closed, Alone, Settled, Current
  <2>3. CASE \E m \in Mail : m.kind = "close" /\ Sound(w, m) /\ ui'[w].prepared = <<m.from, m.exit>>
    <3>1. PICK m \in Mail : m.kind = "close" /\ Sound(w, m) /\ ui'[w].prepared = <<m.from, m.exit>>
      BY <2>3
    <3>2. \E e \in 1 .. token' : w \in saved'[e]
      BY <1>2, <3>1
    <3>3. ASSUME ui'[w].prepared[1] = w
          PROVE  Sound(w, Message("close", w, e0))'
      <4>1. m.from = w /\ m.exit = e0
        BY <2>1, <3>1, <3>3
      <4>2. Sound(w, Message("close", w, e0))
        BY <3>1, <4>1, CloseInMail DEF Sound
      <4> QED
        BY <1>1, <4>2, CloseInMail
    <3> QED
      BY <2>1, <3>2, <3>3 DEF Sound, Message, OnlyOwnerLeft, Closed, Alone, Settled, Current
  <2> QED
    BY <2>2, <2>3 DEF MailKept, LeftKept
<1>4. ASSUME NEW i \in DOMAIN inbox'[w]
      PROVE  Sound(w, inbox[w][i])'
  <2>1. PICK m \in Mail : m = inbox'[w][i]
    <3>1. inbox'[w] \in Seq(Mail)
      BY DEF Typed
    <3> QED
      BY <3>1
  <2>2. Sound(w, m)
    <3>1. (\E j \in DOMAIN inbox[w] : inbox'[w][i] = inbox[w][j]) \/ Sound(w, inbox'[w][i])
      BY DEF MailKept, InboxKept
    <3> QED
      BY <2>1, <3>1
  <2>3. Sound(w, m)'
    BY <1>1, <2>2
  <2> QED
    BY <2>1, <2>3 DEF Sound, OnlyOwnerLeft, Closed, Alone, Settled, Current
<1> QED
  BY <1>3, <1>4

\* The windows there are when the owner of the tray begins are a closed group.
LEMMA GroupIsClosed ==
  ASSUME TypeInv, NEW o \in Window, Current(o), tray = o, restore[o].left = 0,
         NEW g \in SUBSET Window, g = {w \in Window : Current(w)}
  PROVE  Closed(o, g)
<1>1. o \in g /\ life[o] # "off"
  BY DEF Current
<1>2. ASSUME NEW v \in g \ {o}
      PROVE  Alone(v)
  <2>1. v \in Window /\ life[v] = "up" /\ tray # v
    BY <1>2 DEF Current
  <2>2. restore[v].left \in Nat
    BY <2>1, OfWindow DEF TypeInv, Restores
  <2>3. RestoreKept(v)
    BY <2>1 DEF TypeInv
  <2> QED
    BY <2>1, <2>2, <2>3 DEF RestoreKept, Alone
<1>3. ASSUME NEW c \in restore[o].children
      PROVE  c \in g \/ Settled(c)
  <2>1. c \in Window
    BY <1>3, OfWindow DEF TypeInv, Restores
  <2>2. life[c] # "off"
    BY <1>3 DEF TypeInv, RestoreKept
  <2> QED
    BY <2>1, <2>2 DEF Settled
<1> QED
  BY <1>1, <1>2, <1>3 DEF Closed

LEMMA GroupedKept ==
  ASSUME Typed, Steady, SavedKept, NEW o \in Window, GroupKept(o), GroupClosed(o),
         ExitSaved(o), OneExit(o)
  PROVE  GroupClosed(o)' /\ ExitSaved(o)'
<1>0. PICK g \in SUBSET Window : g = worker[o].group
  BY OfWindow DEF Workers
<1>1. ASSUME Active(o)'
      PROVE  /\ Active(o) /\ worker'[o].exit = worker[o].exit /\ worker'[o].group = g
             /\ worker'[o].todo \subseteq g \ {o}
             /\ Closed(o, g)'
  <2>1. Active(o) /\ worker'[o].exit = worker[o].exit /\ worker'[o].group = g
        /\ worker'[o].todo \subseteq worker[o].todo \cup (g \ {o})
    BY <1>0, <1>1 DEF GroupKept
  <2>2. Closed(o, g) /\ worker[o].todo \subseteq g \ {o}
    BY <1>0, <2>1 DEF GroupClosed
  <2>3. Closed(o, g)'
    BY <2>2, ClosedStays
  <2> QED
    BY <2>1, <2>2, <2>3
<1>2. GroupClosed(o)'
  BY <1>1 DEF GroupClosed, Closed, Alone, Settled, Current
<1>3. ASSUME worker'[o].pc = "exit"
      PROVE  /\ saved'[worker'[o].exit] = worker'[o].group
             /\ \A v \in worker'[o].group \ ({o} \cup worker'[o].todo) : Settled(v)'
  <2>1. Active(o)'
    BY <1>3 DEF Active
  <2>2. worker[o].pc = "exit" /\ worker'[o].todo = worker[o].todo
    BY <1>3, <2>1 DEF GroupKept
  <2>3. saved[worker[o].exit] = g /\ \A v \in g \ ({o} \cup worker[o].todo) : Settled(v)
    BY <1>0, <2>2 DEF ExitSaved
  <2>4. o \in g
    BY <1>0, <1>1, <2>1 DEF GroupClosed, Closed
  <2>5. worker[o].exit \in 1 .. MaxExits
    BY <1>1, <2>1, SessionAssumption DEF OneExit, Typed
  <2>6. saved'[worker[o].exit] = g
    BY <2>3, <2>4, <2>5 DEF SavedKept
  <2>7. \A v \in g \ ({o} \cup worker[o].todo) : Settled(v)'
    BY <2>3, SettledStays
  <2> QED
    BY <1>1, <2>1, <2>2, <2>6, <2>7
<1>4. ExitSaved(o)'
  BY <1>3 DEF ExitSaved
<1> QED
  BY <1>2, <1>4

LEMMA BeginGrouped ==
  ASSUME TypeInv, Typed', Steady, SavedKept, NEW o \in Window, Begin(o), Grouped(o)
  PROVE  GroupClosed(o)' /\ ExitSaved(o)'
<1>0. Typed /\ OneExit(o)
  BY DEF TypeInv
<1>1. CASE worker'[o] = worker[o]
  BY <1>0, <1>1, GroupSame, GroupedKept DEF Grouped
<1>2. CASE /\ Current(o) /\ worker'[o].pc = "start" /\ worker'[o].todo = {}
           /\ worker'[o].group = {w \in Window : Current(w)}
  <2>1. PICK g \in SUBSET Window : g = {w \in Window : Current(w)}
    OBVIOUS
  <2>2. tray = o /\ restore[o].left = 0
    BY <1>0, BeginEffect DEF Grouped, ExitWaits
  <2>3. Closed(o, g)
    BY <1>2, <2>1, <2>2, GroupIsClosed
  <2>4. Closed(o, g)'
    BY <1>0, <2>3, ClosedStays
  <2>5. worker'[o].group = g
    BY <1>2, <2>1
  <2>6. GroupClosed(o)'
    BY <1>2, <2>4, <2>5 DEF GroupClosed, Closed, Alone, Settled, Current
  <2>7. ExitSaved(o)'
    BY <1>2 DEF ExitSaved
  <2> QED
    BY <2>6, <2>7
<1> QED
  BY <1>0, <1>1, <1>2, BeginEffect

LEMMA SaveGrouped ==
  ASSUME Typed, Steady, SavedKept, NEW o \in Window, SaveGroup(o), GroupClosed(o), OneExit(o)
  PROVE  GroupClosed(o)' /\ ExitSaved(o)'
<1>0. PICK g \in SUBSET Window : g = worker[o].group
  BY OfWindow DEF Workers
<1>1. worker[o].pc = "save" /\ Active(o)
  BY SaveEffect DEF Active
<1>2. Closed(o, g)'
  BY <1>0, <1>1, ClosedStays DEF GroupClosed
<1>3. worker'[o].group = g /\ worker'[o].todo = g \ {o} /\ worker'[o].exit = worker[o].exit
  BY <1>0, SaveEffect
<1>4. GroupClosed(o)'
  BY <1>2, <1>3 DEF GroupClosed, Closed, Alone, Settled, Current
<1>5. worker[o].exit \in 1 .. MaxExits
  BY <1>1, SessionAssumption DEF OneExit, Typed
<1>6. worker'[o].pc = "exit" => saved'[worker[o].exit] = g
  BY <1>0, <1>5, SaveEffect
<1>7. ExitSaved(o)'
  BY <1>3, <1>6 DEF ExitSaved
<1> QED
  BY <1>4, <1>7

\* A window that accepted its close has begun to exit.
LEMMA CloseAccepted ==
  ASSUME Typed, NEW o \in Window, NEW w \in Window, NEW e \in 0 .. MaxExits, life[w] = "up",
         Send(w, Message("close", o, e), TRUE), UNCHANGED life
  PROVE  Settled(w)'
<1> DEFINE m == Message("close", o, e)
<1>1. m \in Mail /\ m.kind = "close"
  BY CloseInMail
<1>2. Accepts(w, m) /\ ui'[w] = Received(w, m)
  BY DEF Send, Typed
<1>3. Received(w, m) = [Exiting(ui[w]) EXCEPT !.group = TRUE]
  BY <1>1, <1>2 DEF Received, Handled
<1>4. [Exiting(ui[w]) EXCEPT !.group = TRUE].exiting
  <2>1. ui[w] \in Uis
    BY OfWindow
  <2>2. CASE ui[w].exiting
    BY <2>1, <2>2 DEF Exiting, Uis
  <2>3. CASE ~ui[w].exiting
    BY <2>1, <2>3 DEF Exiting, Uis
  <2> QED
    BY <2>2, <2>3
<1>5. ui'[w].exiting
  BY <1>2, <1>3, <1>4
<1> QED
  BY <1>5 DEF Settled, Current

LEMMA CloseGrouped ==
  ASSUME Typed, Steady, SavedKept, NEW o \in Window, NEW w \in Window, CloseWindow(o, w),
         GroupClosed(o), ExitSaved(o), OneExit(o)
  PROVE  GroupClosed(o)' /\ ExitSaved(o)'
<1>0. PICK g \in SUBSET Window : g = worker[o].group
  BY OfWindow DEF Workers
<1>1. worker[o].pc = "exit" /\ Active(o) /\ w \in worker[o].todo
  BY CloseWindowEffect DEF Active
<1>2. Closed(o, g) /\ worker[o].todo \subseteq g \ {o}
  BY <1>0, <1>1 DEF GroupClosed
<1>3. Closed(o, g)'
  BY <1>2, ClosedStays
<1>4. /\ worker'[o].group = g /\ worker'[o].todo = worker[o].todo \ {w}
      /\ worker'[o].exit = worker[o].exit /\ UNCHANGED <<life, saved>>
  BY <1>0, CloseWindowEffect
<1>5. GroupClosed(o)'
  BY <1>2, <1>3, <1>4 DEF GroupClosed, Closed, Alone, Settled, Current
<1>6. saved'[worker'[o].exit] = g /\ \A v \in g \ ({o} \cup worker[o].todo) : Settled(v)
  BY <1>0, <1>1, <1>4 DEF ExitSaved
<1>7. ASSUME worker'[o].pc = "exit"
      PROVE  Settled(w)'
  <2>1. life[w] # "off"
    BY <1>1, <1>2 DEF Closed, Alone
  <2>2. CASE ~Current(w)
    BY <2>1, <2>2, SettledStays DEF Settled
  <2>3. CASE Current(w)
    <3>1. PICK e \in 0 .. MaxExits : e = worker[o].exit
      BY OfWindow DEF Workers
    <3>2. PICK ok \in BOOLEAN :
            /\ Send(w, Message("close", o, worker[o].exit), ok)
            /\ worker' = [worker EXCEPT ![o].todo = @ \ {w}, ![o].pc = AfterClose(ok)]
      BY <2>3 DEF CloseWindow
    <3>4. ok = TRUE
      <4>1. worker[o] \in Workers
        BY OfWindow
      <4>2. worker'[o].pc = AfterClose(ok)
        BY <3>2, <4>1 DEF Typed, Workers
      <4> QED
        BY <1>7, <4>2 DEF AfterClose
    <3>3. Send(w, Message("close", o, e), TRUE) /\ life[w] = "up"
      BY <2>3, <3>1, <3>2, <3>4 DEF Current
    <3> QED
      BY <1>4, <3>3, CloseAccepted
  <2> QED
    BY <2>2, <2>3
<1>8. \A v \in g \ ({o} \cup worker[o].todo) : Settled(v)'
  BY <1>6, SettledStays
<1>9. worker'[o].pc = "exit" => \A v \in g \ ({o} \cup worker'[o].todo) : Settled(v)'
  BY <1>4, <1>7, <1>8
<1>10. ExitSaved(o)'
  BY <1>4, <1>6, <1>9 DEF ExitSaved
<1> QED
  BY <1>5, <1>10

\* Only the owner of the tray asks for a global exit, and while it waits, the
\* owner stays, and starts no window.
LEMMA WaitsStep ==
  ASSUME TypeInv, TypeInv', Steady, [Next]_vars, NEW o \in Window, ExitWaits(o)
  PROVE  ExitWaits(o)'
<1> SUFFICES ASSUME \E i \in DOMAIN ui'[o].actions : IsExitAll(o, i)'
             PROVE  tray' = o /\ restore'[o].left = 0
  BY DEF ExitWaits
<1>1. PICK i \in DOMAIN ui'[o].actions : ui'[o].actions[i].kind = "exitall"
  BY DEF IsExitAll
<1>2. PICK e : e = ui'[o].actions[i].exit
  OBVIOUS
<1>3. HasExitAll(o, e)'
  BY <1>1, <1>2 DEF HasExitAll, IsExitAll
<1>4. life'[o] = "up"
  <2>1. Phase(o)'
    BY DEF TypeInv
  <2>2. ui'[o].actions # << >>
    BY <1>1
  <2> QED
    BY <2>1, <2>2 DEF Phase
<1>5. /\ Typed /\ OrdersBounded /\ Typed' /\ Phase(o) /\ TrayKept
      /\ \A v \in Window : OneExit(v) /\ Phase(v)
  BY DEF TypeInv
<1>6. CASE HasExitAll(o, e)
  <2>1. tray = o /\ restore[o].left = 0
    BY <1>6 DEF HasExitAll, ExitWaits
  <2>2. life[o] # "off"
    BY <1>5, <1>6, OffEmpty DEF HasExitAll, GoneUi
  <2> QED
    BY <1>4, <2>1, <2>2 DEF Steady, SteadyTray, SteadyRestore
<1>7. ASSUME NEW p \in Window, RequestAll(p), ~HasExitAll(o, e)
      PROVE  tray' = o /\ restore'[o].left = 0
  <2>1. p = o
    <3>1. p # o => ui'[o] = ui[o]
      BY <1>5, <1>7, RequestEffect
    <3> QED
      BY <1>1, <1>2, <1>7, <3>1 DEF HasExitAll, IsExitAll
  <2>2. icon = o /\ ~(restore[o].left > 0) /\ UNCHANGED <<tray, restore>>
    BY <1>7, <2>1 DEF RequestAll, TakesPart, Restoring
  <2>3. restore[o].left \in Nat
    BY <1>5, OfWindow DEF Restores
  <2>4. tray = o
    BY <1>5, <2>2, SessionAssumption DEF TrayKept
  <2> QED
    BY <2>2, <2>3, <2>4
<1> QED
  BY <1>3, <1>5, <1>6, <1>7, ExitsMove, ExitAllKept

LEMMA GroupedStep ==
  ASSUME TypeInv, TypeInv', Steady, SavedKept, [Next]_vars, \A v \in Window : Grouped(v),
         NEW o \in Window
  PROVE  Grouped(o)'
<1>1. /\ Typed /\ Typed' /\ OneExit(o)
      /\ GroupClosed(o) /\ ExitSaved(o) /\ ExitWaits(o)
  BY DEF TypeInv, Grouped
<1>2. ExitWaits(o)'
  BY <1>1, WaitsStep
<1>3. CASE \A v \in Window : GroupKept(v)
  BY <1>1, <1>2, <1>3, GroupedKept DEF Grouped
<1>4. ASSUME NEW p \in Window, worker'[o] = worker[o]
      PROVE  Grouped(o)'
  BY <1>1, <1>2, <1>4, GroupSame, GroupedKept DEF Grouped
<1>5. CASE \E p \in Window : Begin(p)
  <2>1. PICK p \in Window : Begin(p)
    BY <1>5
  <2>2. p # o => worker'[o] = worker[o]
    BY <1>1, <2>1, BeginEffect
  <2>3. p = o => GroupClosed(o)' /\ ExitSaved(o)'
    BY <1>1, <2>1, BeginGrouped
  <2> QED
    BY <1>2, <1>4, <2>2, <2>3 DEF Grouped
<1>6. CASE \E p \in Window : SaveGroup(p)
  <2>1. PICK p \in Window : SaveGroup(p)
    BY <1>6
  <2>2. p # o => worker'[o] = worker[o]
    BY <1>1, <2>1, SaveEffect
  <2>3. p = o => GroupClosed(o)' /\ ExitSaved(o)'
    BY <1>1, <2>1, SaveGrouped
  <2> QED
    BY <1>2, <1>4, <2>2, <2>3 DEF Grouped
<1>7. CASE \E p, w \in Window : CloseWindow(p, w)
  <2>1. PICK p \in Window, w \in Window : CloseWindow(p, w)
    BY <1>7
  <2>2. p # o => worker'[o] = worker[o]
    BY <1>1, <2>1, CloseWindowEffect
  <2>3. p = o => GroupClosed(o)' /\ ExitSaved(o)'
    BY <1>1, <2>1, CloseGrouped
  <2> QED
    BY <1>2, <1>4, <2>2, <2>3 DEF Grouped
<1> QED
  BY <1>1, <1>3, <1>5, <1>6, <1>7, GroupMove

LEMMA LeaveInvInit == Init => LeaveInv
<1> SUFFICES ASSUME Init PROVE LeaveInv
  OBVIOUS
<1>1. \A w \in Window : /\ ui[w] = NewUi /\ worker[w] = NoWorker /\ inbox[w] = << >>
                        /\ saved = [e \in 1 .. MaxExits |-> {}] /\ token = 0
  BY DEF Init
<1>2. \A w \in Window : /\ ui[w].actions = << >> /\ ~ui[w].group
                        /\ worker[w].pc = "none"
  BY <1>1 DEF NewUi, NoWorker
<1>3. ExitsApart
  BY <1>1, <1>2 DEF ExitsApart, Unsaved, Init
<1>4. ASSUME NEW w \in Window
      PROVE  Grouped(w) /\ Left(w) /\ \A i \in DOMAIN inbox[w] : Sound(w, inbox[w][i])
  BY <1>1, <1>2 DEF Grouped, GroupClosed, ExitSaved, ExitWaits, Active, Left
<1> QED
  BY <1>3, <1>4 DEF LeaveInv

LEMMA LeaveInvStep ==
  ASSUME TypeInv, TypeInv', LeaveInv, [Next]_vars
  PROVE  LeaveInv'
<1>1. Steady
  BY SteadyStep
<1>2. ExitsApart' /\ SavedKept /\ token' >= token
  BY ApartStep DEF LeaveInv
<1>3. Typed /\ Typed'
  BY DEF TypeInv
<1>4. \A w \in Window : Grouped(w)'
  BY <1>1, <1>2, GroupedStep DEF LeaveInv
<1>5. \A w \in Window : Left(w)' /\ \A i \in DOMAIN inbox'[w] : Sound(w, inbox[w][i])'
  BY <1>1, <1>2, <1>3, MailStep, LeftStep DEF LeaveInv
<1> QED
  BY <1>2, <1>4, <1>5 DEF LeaveInv

----------------------------------------------------------------------------
\* At every step of a global exit the group of its thread holds all that belong
\* to it, a close on its way tells a window only what is true, and so does what a
\* window left with (session_exit.rs, begin and close; worker.rs, exit_windows).
THEOREM SessionLeave == Spec => []LeaveInv
<1>1. Init => LeaveInv
  BY LeaveInvInit
<1>2. (TypeInv /\ OrderInv) /\ (TypeInv /\ OrderInv)' /\ LeaveInv /\ [Next]_vars => LeaveInv'
  BY LeaveInvStep
<1> QED
  BY <1>1, <1>2, SessionPhases, PTL DEF Spec

\* A window that leaves with a group without a session of its own in the record
\* is in a group whose sessions were saved, whatever failed, timed out or came
\* late (session_exit.rs, close; worker.rs, capture_and_close).
THEOREM SessionClosedIsSaved == Spec => []ClosedIsSaved
<1>1. LeaveInv => ClosedIsSaved
  BY DEF LeaveInv, Left, ClosedIsSaved
<1> QED
  BY <1>1, SessionLeave, PTL

\* When the owner of the tray leaves with its group, all its windows have
\* accepted their exit or are gone, and so have those that were restored for
\* them (commands.rs, exit_windows; session_exit.rs, request_all).
THEOREM SessionOwnerLeavesLast == Spec => []OwnerLeavesLast
<1>1. TypeInv /\ LeaveInv => OwnerLeavesLast
  <2> SUFFICES ASSUME TypeInv, LeaveInv, NEW o \in Window, NEW w \in LeftWith(o),
                      NEW c \in {w} \cup restore[w].children
               PROVE  ~Current(c)
    BY DEF OwnerLeavesLast
  <2>1. PICK e : e = ui[o].prepared[2]
    OBVIOUS
  <2>2. ui[o].group /\ ui[o].prepared[1] = o /\ w \in saved[e]
    BY <2>1 DEF LeftWith
  <2>3. Sound(o, Message("close", o, e))
    BY <2>1, <2>2 DEF LeaveInv, Left
  <2>4. Closed(o, saved[e]) /\ \A v \in saved[e] \ {o} : Settled(v)
    BY <2>3 DEF Sound, Message, OnlyOwnerLeft
  <2>5. ~Current(o)
    BY <2>2 DEF TypeInv, Phase, Current
  <2>6. \A v \in saved[e] : ~Current(v)
    BY <2>4, <2>5 DEF Settled
  <2>7. w = o \/ restore[w].children = {}
    BY <2>2, <2>4 DEF Closed, Alone
  <2> QED
    BY <2>2, <2>4, <2>6, <2>7 DEF Closed, Settled
<1> QED
  BY <1>1, SessionLeave, SessionPhases, PTL
=============================================================================
