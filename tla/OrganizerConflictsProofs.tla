---------------------- MODULE OrganizerConflictsProofs ----------------------
(***************************************************************************)
(* Theorems about OrganizerConflicts: a file is asked about once, one      *)
(* thread at a time works on the files of a conflict, and its row tells    *)
(* what has become of the rename.                                          *)
(***************************************************************************)
EXTENDS OrganizerConflicts, TLAPS

Final == {"resolved", "obsolete", "cancelled"}

Row == [status : Final \cup {"none", "pending"}, name : Name \cup {NONE},
        snap : Snap \cup {NONE}, home : Snap \cup {NONE}]

ClaimRow == [owner : Proc, at : Place, to : Name, snap : Snap]

\* What a thread asks for, which may name a file that was not there.
Wanted == [owner : Proc, at : Place, to : Name, snap : Snap \cup {NONE}]

ThreadRow == [pc : Resolving \cup {"idle", "occupied", "register", "claim", "release", "apply"},
              name : Name \cup {NONE}, snap : Snap \cup {NONE}, home : Snap \cup {NONE},
              con : Conflict \cup {NONE}, claim : Wanted \cup {NONE},
              verdict : {"none", "release", "resolved", "free", "obsolete"}]

MoveRow == [pc : {"none", "queued", "occupied", "register", "move", "close"},
            snap : Snap \cup {NONE}, home : Snap \cup {NONE}]

Put == [at : Place, snap : Snap, still : BOOLEAN, ours : BOOLEAN]

FilesTyped == disk \in [Place -> Snap \cup {NONE}] /\ placed \in [Conflict -> Put \cup {NONE}]

TablesTyped == /\ conflicts \in [Conflict -> Row]
               /\ claims \in [Conflict -> ClaimRow \cup {NONE}]
               /\ \A c \in Conflict : conflicts[c].status # "none" => conflicts[c].name \in Name

ProcsTyped == /\ phase \in [Proc -> {"new", "start", "run", "dead"}]
              /\ pending \in [Proc -> [Name -> Snap \cup {NONE}]]
              /\ listed \in [Proc -> [Conflict -> ClaimRow \cup {NONE}]]
              /\ moves \in [Proc -> [Name -> MoveRow]]
              /\ used \in [commands : Nat, mishaps : Nat]

\* What the look at the files may say.
Verdicts == {"resolved", "free", "obsolete"}

\* The steps of a resolution.
OnConflict == Resolving \cup {"claim", "release", "apply"}

\* What a thread is at names what it needs, and a process that is not running has no
\* thread but the one that reconciles.
ThreadFits(t, ph) ==
  /\ t \in ThreadRow
  /\ t.pc \in {"occupied", "register"} => t.name \in Name
  /\ t.pc \in OnConflict => t.con \in Conflict /\ t.claim \in Wanted
  /\ t.pc \in OnConflict \ {"claim"} => t.claim \in ClaimRow
  /\ t.pc = "apply" => t.verdict \in Verdicts
  /\ ph \in {"new", "dead"} => t.pc = "idle"
  /\ ph = "start" => t.pc \in {"idle", "apply"}

ThreadsTyped == /\ thread \in [Proc -> ThreadRow]
                /\ \A p \in Proc : ThreadFits(thread[p], phase[p])

TypeInv == FilesTyped /\ TablesTyped /\ ProcsTyped /\ ThreadsTyped

LEMMA Apart ==
  /\ NONE \notin Snap /\ NONE \notin Name /\ NONE \notin Conflict
  /\ \A k \in ClaimRow : k # NONE
  /\ \A r \in Put : r # NONE
  BY ConflictAssumption DEF ClaimRow, Put

\* Where a claim has its file renamed from and to.
LEMMA ClaimPlaces ==
  ASSUME NEW k \in Wanted
  PROVE  k.at \in Place /\ Target(k) \in Place
<1>1. k.at \in Place /\ k.to \in Name
  BY DEF Wanted
<1>2. k.at[1] \in Folder
  BY <1>1 DEF Place
<1> QED
  BY <1>1, <1>2 DEF Target, Place

LEMMA ClaimWanted == \A k \in ClaimRow : k \in Wanted /\ k.snap \in Snap /\ k.owner \in Proc
  BY DEF ClaimRow, Wanted

----------------------------------------------------------------------------
(* The table of conflicts.                                                 *)

RowClosed(c) == /\ conflicts[c].status = "pending" /\ conflicts'[c].status \in Final
                /\ conflicts'[c].name = conflicts[c].name /\ conflicts'[c].snap = conflicts[c].snap
                /\ conflicts'[c].home = conflicts[c].home

RowOpened(c) == /\ conflicts[c].status = "none" /\ conflicts'[c].status = "pending"
                /\ conflicts'[c].name \in Name

\* Rows are closed at most.
RowsClose == /\ conflicts' \in [Conflict -> Row]
             /\ \A c \in Conflict : conflicts'[c] = conflicts[c] \/ RowClosed(c)

\* A row is opened once and closed once.
RowsMove == /\ conflicts' \in [Conflict -> Row]
            /\ \A c \in Conflict : conflicts'[c] = conflicts[c] \/ RowClosed(c) \/ RowOpened(c)

LEMMA RowsSame ==
  ASSUME TablesTyped, conflicts' = conflicts
  PROVE  RowsClose
  BY DEF TablesTyped, RowsClose

\* A status is written into a pending row.
LEMMA RowClosing ==
  ASSUME TablesTyped, NEW c \in Conflict, conflicts[c].status = "pending", NEW st \in Final,
         conflicts'[c] = [conflicts[c] EXCEPT !.status = st]
  PROVE  RowClosed(c) /\ conflicts'[c].status = st /\ conflicts'[c] \in Row
<1>1. conflicts[c] \in Row
  BY DEF TablesTyped
<1> QED
  BY <1>1 DEF Row, RowClosed

\* What becomes of the rows of a file whose pending rows are given up.
LEMMA WithoutPendingRows ==
  ASSUME TablesTyped, NEW n
  PROVE  /\ WithoutPending(n) \in [Conflict -> Row]
         /\ \A c \in Conflict :
              IF conflicts[c].status = "pending" /\ conflicts[c].name = n
              THEN /\ WithoutPending(n)[c].status = "obsolete"
                   /\ WithoutPending(n)[c].name = conflicts[c].name
                   /\ WithoutPending(n)[c].snap = conflicts[c].snap
                   /\ WithoutPending(n)[c].home = conflicts[c].home
              ELSE WithoutPending(n)[c] = conflicts[c]
<1> SUFFICES ASSUME NEW c \in Conflict
    PROVE /\ WithoutPending(n)[c] \in Row
          /\ IF conflicts[c].status = "pending" /\ conflicts[c].name = n
             THEN /\ WithoutPending(n)[c].status = "obsolete"
                  /\ WithoutPending(n)[c].name = conflicts[c].name
                  /\ WithoutPending(n)[c].snap = conflicts[c].snap
                  /\ WithoutPending(n)[c].home = conflicts[c].home
             ELSE WithoutPending(n)[c] = conflicts[c]
  BY DEF WithoutPending
<1>1. WithoutPending(n)[c] = IF conflicts[c].status = "pending" /\ conflicts[c].name = n
                             THEN [conflicts[c] EXCEPT !.status = "obsolete"] ELSE conflicts[c]
  BY DEF WithoutPending, Pending
<1>2. conflicts[c] \in Row
  BY DEF TablesTyped
<1> QED
  BY <1>1, <1>2 DEF Row, Final

LEMMA WithoutPendingMoves ==
  ASSUME TablesTyped, NEW n, conflicts' = WithoutPending(n)
  PROVE  RowsClose
  BY WithoutPendingRows DEF RowsClose, RowClosed, Final

\* A registration gives up every pending row of the file but one that is equal, and
\* opens none that is equal to a cancelled one.
LEMMA RegisterRows ==
  ASSUME TablesTyped, NEW n \in Name, NEW snap \in Snap \cup {NONE}, NEW home \in Snap \cup {NONE},
         Register(n, snap, home)
  PROVE  \/ conflicts' = conflicts
         \/ conflicts' = WithoutPending(n)
         \/ \E c \in Conflict :
              /\ conflicts[c].status = "none"
              /\ conflicts'[c] = [status |-> "pending", name |-> n, snap |-> snap, home |-> home]
              /\ conflicts'[c] \in Row
              /\ \A q \in Conflict \ {c} : conflicts'[q] = WithoutPending(n)[q]
              /\ conflicts' \in [Conflict -> Row]
              /\ Matching(n, snap, home, "cancelled") = {}
<1> DEFINE r == [status |-> "pending", name |-> n, snap |-> snap, home |-> home]
<1>1. ASSUME NEW c \in Conflict, FreeId(c), conflicts' = [WithoutPending(n) EXCEPT ![c] = r]
      PROVE  /\ conflicts[c].status = "none" /\ conflicts'[c] = r /\ r \in Row
             /\ \A q \in Conflict \ {c} : conflicts'[q] = WithoutPending(n)[q]
             /\ conflicts' \in [Conflict -> Row]
  <2>1. r \in Row
    BY DEF Row
  <2>2. conflicts[c].status = "none"
    BY <1>1 DEF FreeId, Conflict
  <2> HIDE DEF r
  <2> QED
    BY <1>1, <2>1, <2>2, WithoutPendingRows
<1> QED
  BY <1>1 DEF Register

LEMMA RegisterMoves ==
  ASSUME TablesTyped, NEW n \in Name, NEW snap \in Snap \cup {NONE}, NEW home \in Snap \cup {NONE},
         Register(n, snap, home)
  PROVE  RowsMove
<1>1. CASE conflicts' = conflicts
  BY <1>1, RowsSame DEF RowsClose, RowsMove
<1>2. CASE conflicts' = WithoutPending(n)
  BY <1>2, WithoutPendingMoves DEF RowsClose, RowsMove
<1>3. ASSUME NEW c \in Conflict, conflicts[c].status = "none",
             conflicts'[c] = [status |-> "pending", name |-> n, snap |-> snap, home |-> home],
             \A q \in Conflict \ {c} : conflicts'[q] = WithoutPending(n)[q],
             conflicts' \in [Conflict -> Row]
      PROVE  RowsMove
  <2>1. RowOpened(c)
    BY <1>3 DEF RowOpened
  <2>2. \A q \in Conflict \ {c} : conflicts'[q] = conflicts[q] \/ RowClosed(q)
    BY <1>3, WithoutPendingRows DEF RowClosed, Final
  <2> QED
    BY <1>3, <2>1, <2>2 DEF RowsMove
<1> QED
  BY <1>1, <1>2, <1>3, RegisterRows

\* A claim goes, and a pending row may be closed with it.
LEMMA CloseRows ==
  ASSUME TablesTyped, NEW c \in Conflict, NEW st \in Final, Close(c, st)
  PROVE  /\ RowsClose
         /\ \A q \in Conflict \ {c} : conflicts'[q] = conflicts[q] /\ claims'[q] = claims[q]
         /\ \/ UNCHANGED tables /\ (conflicts[c].status # "pending" \/ claims[c] # NONE)
            \/ RowClosed(c) /\ conflicts'[c].status = st /\ claims'[c] = NONE
               /\ (st = "cancelled" => claims[c] = NONE)
         /\ claims' \in [Conflict -> ClaimRow \cup {NONE}]
<1>1. CASE ~(conflicts[c].status = "pending" /\ (st = "cancelled" => claims[c] = NONE))
  BY <1>1, RowsSame DEF Close, tables, TablesTyped
<1>2. CASE conflicts[c].status = "pending" /\ (st = "cancelled" => claims[c] = NONE)
  <2> DEFINE r == [conflicts[c] EXCEPT !.status = st]
  <2>1. conflicts' = [conflicts EXCEPT ![c] = r] /\ claims' = [claims EXCEPT ![c] = NONE]
    BY <1>2 DEF Close, TablesTyped
  <2>2. r \in Row
    BY DEF TablesTyped, Row
  <2> HIDE DEF r
  <2>3. /\ conflicts'[c] = r /\ claims'[c] = NONE
        /\ \A q \in Conflict \ {c} : conflicts'[q] = conflicts[q] /\ claims'[q] = claims[q]
        /\ conflicts' \in [Conflict -> Row] /\ claims' \in [Conflict -> ClaimRow \cup {NONE}]
    BY <2>1, <2>2 DEF TablesTyped
  <2>4. RowClosed(c) /\ conflicts'[c].status = st
    BY <1>2, <2>3, RowClosing DEF r
  <2> QED
    BY <1>2, <2>3, <2>4 DEF RowsClose
<1> QED
  BY <1>1, <1>2

LEMMA ApplyRows ==
  ASSUME TablesTyped, NEW c \in Conflict, NEW q,
         NEW verdict \in Verdicts, Apply(c, q, verdict)
  PROVE  /\ RowsClose
         /\ \A a \in Conflict \ {c} : conflicts'[a] = conflicts[a] /\ claims'[a] = claims[a]
         /\ \/ UNCHANGED tables /\ (claims[c] = NONE \/ claims[c].owner # q)
            \/ /\ claims[c] # NONE /\ claims[c].owner = q /\ claims'[c] = NONE
               /\ \/ RowClosed(c) /\ conflicts'[c].status = verdict
                  \/ conflicts'[c] = conflicts[c] /\ (verdict = "free" \/ conflicts[c].status # "pending")
         /\ claims' \in [Conflict -> ClaimRow \cup {NONE}]
<1>1. CASE claims[c] = NONE \/ claims[c].owner # q
  BY <1>1, RowsSame DEF Apply, tables, TablesTyped
<1>2. CASE ~(claims[c] = NONE \/ claims[c].owner # q)
  <2>1. /\ claims' = [claims EXCEPT ![c] = NONE]
        /\ conflicts' = IF verdict # "free" /\ conflicts[c].status = "pending"
                        THEN [conflicts EXCEPT ![c].status = verdict] ELSE conflicts
    BY <1>2 DEF Apply
  <2>2. /\ claims'[c] = NONE /\ claims' \in [Conflict -> ClaimRow \cup {NONE}]
        /\ \A a \in Conflict \ {c} : claims'[a] = claims[a]
    BY <2>1 DEF TablesTyped
  <2>3. CASE verdict # "free" /\ conflicts[c].status = "pending"
    <3> DEFINE r == [conflicts[c] EXCEPT !.status = verdict]
    <3>1. conflicts' = [conflicts EXCEPT ![c] = r] /\ verdict \in Final
      BY <2>1, <2>3 DEF TablesTyped, Final, Verdicts
    <3>2. r \in Row
      BY <3>1 DEF TablesTyped, Row
    <3> HIDE DEF r
    <3>3. /\ conflicts'[c] = r /\ \A a \in Conflict \ {c} : conflicts'[a] = conflicts[a]
          /\ conflicts' \in [Conflict -> Row]
      BY <3>1, <3>2 DEF TablesTyped
    <3>4. RowClosed(c) /\ conflicts'[c].status = verdict
      BY <2>3, <3>1, <3>3, RowClosing DEF r
    <3> QED
      BY <1>2, <2>2, <3>3, <3>4 DEF RowsClose
  <2>4. CASE ~(verdict # "free" /\ conflicts[c].status = "pending")
    BY <1>2, <2>1, <2>2, <2>4, RowsSame
  <2> QED
    BY <2>3, <2>4
<1> QED
  BY <1>1, <1>2

\* The rows whose move had ended when its process died.
LEMMA BeginRows ==
  ASSUME TablesTyped, NEW p \in Proc, Begin(p)
  PROVE  /\ RowsClose
         /\ \A c \in Conflict : conflicts'[c].status \in {conflicts[c].status, "obsolete"}
<1> DEFINE done == {m[1] : m \in {o \in UNION {open[q] : q \in {q \in Proc : phase[q] = "dead"}} :
                                  Home(o[1]) = o[2]}}
<1>1. conflicts' = [c \in Conflict |->
        IF conflicts[c].status = "pending" /\ conflicts[c].name \in done
        THEN [conflicts[c] EXCEPT !.status = "obsolete"] ELSE conflicts[c]]
  BY DEF Begin
<1> HIDE DEF done
<1>2. ASSUME NEW c \in Conflict
      PROVE  /\ conflicts'[c] \in Row /\ conflicts'[c].status \in {conflicts[c].status, "obsolete"}
             /\ conflicts'[c] = conflicts[c] \/ RowClosed(c)
  <2>1. CASE conflicts'[c] = conflicts[c]
    BY <2>1 DEF TablesTyped
  <2>2. CASE conflicts[c].status = "pending"
             /\ conflicts'[c] = [conflicts[c] EXCEPT !.status = "obsolete"]
    BY <2>2, RowClosing DEF Final
  <2> QED
    BY <1>1, <2>1, <2>2
<1>3. conflicts' \in [Conflict -> Row]
  BY <1>1, <1>2
<1> QED
  BY <1>2, <1>3 DEF RowsClose

----------------------------------------------------------------------------
(* Types.                                                                  *)

\* What Track says of one conflict.
LEMMA TrackFacts ==
  ASSUME FilesTyped, NEW d \in [Place -> Snap \cup {NONE}],
         NEW k \in [Conflict -> ClaimRow \cup {NONE}], NEW by
  PROVE  /\ Track(d, k, by) \in [Conflict -> Put \cup {NONE}]
         /\ \A c \in Conflict :
              LET t == Track(d, k, by)[c]
              IN \/ /\ placed[c] # NONE /\ placed[c].still /\ d[placed[c].at] = placed[c].snap
                    /\ t = placed[c]
                 \/ /\ ~(placed[c] # NONE /\ placed[c].still /\ d[placed[c].at] = placed[c].snap)
                    /\ k[c] # NONE /\ d[Target(k[c])] = k[c].snap
                    /\ t # NONE /\ t.at = Target(k[c]) /\ t.snap = k[c].snap /\ t.still
                    /\ t.ours = (c = by)
                 \/ /\ ~(placed[c] # NONE /\ placed[c].still /\ d[placed[c].at] = placed[c].snap)
                    /\ ~(k[c] # NONE /\ d[Target(k[c])] = k[c].snap)
                    /\ placed[c] = NONE /\ t = NONE
                 \/ /\ ~(placed[c] # NONE /\ placed[c].still /\ d[placed[c].at] = placed[c].snap)
                    /\ ~(k[c] # NONE /\ d[Target(k[c])] = k[c].snap)
                    /\ placed[c] # NONE /\ t # NONE /\ ~t.still
<1> DEFINE was(c) == placed[c] # NONE /\ placed[c].still /\ d[placed[c].at] = placed[c].snap
           there(c) == k[c] # NONE /\ d[Target(k[c])] = k[c].snap
           new(c) == [at |-> Target(k[c]), snap |-> k[c].snap, still |-> TRUE, ours |-> c = by]
           lost(c) == [placed[c] EXCEPT !.still = FALSE]
<1>1. Track(d, k, by) = [c \in Conflict |-> IF was(c) THEN placed[c] ELSE IF there(c) THEN new(c)
                           ELSE IF placed[c] = NONE THEN NONE ELSE lost(c)]
  BY DEF Track
<1>2. ASSUME NEW c \in Conflict, there(c)
      PROVE  /\ new(c) \in Put /\ new(c).at = Target(k[c]) /\ new(c).snap = k[c].snap
             /\ new(c).still /\ new(c).ours = (c = by)
  <2>1. k[c] \in ClaimRow
    BY <1>2
  <2>2. Target(k[c]) \in Place /\ k[c].snap \in Snap
    BY <2>1, ClaimWanted, ClaimPlaces
  <2> QED
    BY <2>2 DEF Put
<1>3. ASSUME NEW c \in Conflict, placed[c] # NONE
      PROVE  lost(c) \in Put /\ ~lost(c).still
  <2>1. placed[c] \in Put
    BY <1>3 DEF FilesTyped
  <2> QED
    BY <2>1 DEF Put
<1> HIDE DEF new, lost
<1>4. \A c \in Conflict : placed[c] \in Put \cup {NONE}
  BY DEF FilesTyped
<1> QED
  BY <1>1, <1>2, <1>3, <1>4, Apart

LEMMA QueuedTyped ==
  ASSUME FilesTyped, ProcsTyped, NEW p \in Proc, NEW N
  PROVE  Queued(p, N) \in [Proc -> [Name -> Snap \cup {NONE}]]
<1>1. [n \in Name |-> IF n \in N \cap Matched /\ Source(n) # NONE THEN Source(n)
                      ELSE pending[p][n]] \in [Name -> Snap \cup {NONE}]
  <2> SUFFICES ASSUME NEW n \in Name PROVE Source(n) \in Snap \cup {NONE}
    BY DEF ProcsTyped
  <2> QED
    BY DEF FilesTyped, Source, Place, Folder
<1> QED
  BY <1>1 DEF Queued, ProcsTyped

\* The thread of one process moves on.
LEMMA ThreadSet ==
  ASSUME ThreadsTyped, NEW p \in Proc, NEW r, thread' = [thread EXCEPT ![p] = r]
  PROVE  thread'[p] = r /\ \A q \in Proc \ {p} : thread'[q] = thread[q]
  BY DEF ThreadsTyped

LEMMA ThreadSetTyped ==
  ASSUME ThreadsTyped, NEW p \in Proc, NEW r, ThreadFits(r, phase[p]), phase' = phase,
         thread' = [thread EXCEPT ![p] = r]
  PROVE  ThreadsTyped'
<1>1. r \in ThreadRow
  BY DEF ThreadFits
<1>2. thread' \in [Proc -> ThreadRow]
  BY <1>1 DEF ThreadsTyped
<1>3. \A q \in Proc : ThreadFits(thread'[q], phase'[q])
  BY ThreadSet DEF ThreadsTyped
<1> QED
  BY <1>2, <1>3 DEF ThreadsTyped

LEMMA GotoRow ==
  ASSUME ThreadsTyped, NEW p \in Proc, NEW pc, Goto(p, pc)
  PROVE  /\ thread'[p].pc = pc /\ thread'[p].name = thread[p].name
         /\ thread'[p].snap = thread[p].snap /\ thread'[p].home = thread[p].home
         /\ Con(p)' = Con(p) /\ Claim(p)' = Claim(p) /\ thread'[p].verdict = thread[p].verdict
         /\ \A q \in Proc \ {p} : thread'[q] = thread[q]
  BY DEF ThreadsTyped, ThreadRow, Goto, Con, Claim

LEMMA GotoTyped ==
  ASSUME ThreadsTyped, NEW p \in Proc, NEW pc \in Resolving \cup {"release"}, Goto(p, pc),
         phase[p] = "run", phase' = phase, Con(p) \in Conflict, Claim(p) \in ClaimRow
  PROVE  ThreadsTyped'
<1> DEFINE r == [thread[p] EXCEPT !.pc = pc]
<1>1. thread[p] \in ThreadRow
  BY DEF ThreadsTyped
<1>2. r \in ThreadRow /\ r.pc = pc /\ r.con = Con(p) /\ r.claim = Claim(p)
  BY <1>1 DEF ThreadRow, Con, Claim
<1>3. thread' = [thread EXCEPT ![p] = r]
  BY DEF Goto, ThreadsTyped
<1> HIDE DEF r
<1>4. ThreadFits(r, phase[p])
  BY <1>2, ClaimWanted DEF ThreadFits, Resolving, OnConflict
<1> QED
  BY <1>3, <1>4, ThreadSetTyped

LEMMA IdleFits == \A ph : ThreadFits(Idle, ph)
<1>1. Idle \in ThreadRow /\ Idle.pc = "idle"
  BY DEF Idle, ThreadRow
<1> QED
  BY <1>1 DEF ThreadFits, OnConflict, Resolving

LEMMA DoneTyped ==
  ASSUME ThreadsTyped, NEW p \in Proc, Done(p), phase' = phase
  PROVE  ThreadsTyped' /\ thread'[p] = Idle /\ \A q \in Proc \ {p} : thread'[q] = thread[q]
  BY ThreadSetTyped, ThreadSet, IdleFits DEF Done

LEMMA ThreadsSame ==
  ASSUME ThreadsTyped, UNCHANGED <<thread, phase>>
  PROVE  ThreadsTyped'
  BY DEF ThreadsTyped

\* A thread that is at a conflict.
LEMMA AtTyped ==
  ASSUME ThreadsTyped, NEW p \in Proc, thread[p].pc \in OnConflict
  PROVE  /\ Con(p) \in Conflict /\ Claim(p) \in Wanted
         /\ thread[p].pc # "claim" => Claim(p) \in ClaimRow
  BY DEF ThreadsTyped, ThreadFits, Con, Claim

LEMMA TypeInit == Init => TypeInv
<1> SUFFICES ASSUME Init PROVE TypeInv
  OBVIOUS
<1>1. FilesTyped
  <2>1. ASSUME NEW x \in Place PROVE <<x[1], x[2], 0>> \in Snap
    BY DEF Place, Snap
  <2> QED
    BY <2>1 DEF Init, FilesTyped, NoClaims
<1>2. TablesTyped
  <2>1. NoRow \in Row /\ NoRow.status = "none"
    BY DEF NoRow, Row
  <2> QED
    BY <2>1 DEF Init, TablesTyped, NoClaims
<1>3. ProcsTyped
  <2>1. NoMove \in MoveRow
    BY DEF NoMove, MoveRow
  <2> QED
    BY <2>1 DEF Init, ProcsTyped, NoFiles, NoClaims
<1>4. ThreadsTyped
  <2>1. Idle \in ThreadRow
    BY DEF Idle, ThreadRow
  <2> QED
    BY <2>1, IdleFits DEF Init, ThreadsTyped
<1> QED
  BY <1>1, <1>2, <1>3, <1>4 DEF TypeInv

LEMMA FilesSame ==
  ASSUME FilesTyped, UNCHANGED <<disk, placed>>
  PROVE  FilesTyped'
  BY DEF FilesTyped

LEMMA TablesSame ==
  ASSUME TablesTyped, UNCHANGED tables
  PROVE  TablesTyped'
  BY DEF TablesTyped, tables

LEMMA TablesMove ==
  ASSUME TablesTyped, RowsMove \/ RowsClose, claims' \in [Conflict -> ClaimRow \cup {NONE}]
  PROVE  TablesTyped'
<1>1. \A c \in Conflict : conflicts'[c].status # "none" => conflicts'[c].name \in Name
  BY DEF TablesTyped, RowsMove, RowsClose, RowClosed, RowOpened
<1> QED
  BY <1>1 DEF TablesTyped, RowsMove, RowsClose

LEMMA ProcsMove ==
  ASSUME ProcsTyped, UNCHANGED phase,
         used' = used \/ Mishap,
         pending' = pending \/ pending' \in [Proc -> [Name -> Snap \cup {NONE}]],
         moves' = moves \/ moves' \in [Proc -> [Name -> MoveRow]],
         listed' = listed \/ listed' \in [Proc -> [Conflict -> ClaimRow \cup {NONE}]]
  PROVE  ProcsTyped'
<1>1. used' \in [commands : Nat, mishaps : Nat]
  BY DEF ProcsTyped, Mishap
<1> QED
  BY <1>1 DEF ProcsTyped

LEMMA PendingSet ==
  ASSUME ProcsTyped, NEW p \in Proc, NEW n \in Name, NEW s \in Snap \cup {NONE}
  PROVE  [pending EXCEPT ![p][n] = s] \in [Proc -> [Name -> Snap \cup {NONE}]]
<1>1. [pending[p] EXCEPT ![n] = s] \in [Name -> Snap \cup {NONE}]
  BY DEF ProcsTyped
<1> QED
  BY <1>1 DEF ProcsTyped

LEMMA MovesSet ==
  ASSUME ProcsTyped, NEW p \in Proc, NEW n \in Name, NEW m \in MoveRow
  PROVE  [moves EXCEPT ![p][n] = m] \in [Proc -> [Name -> MoveRow]]
<1>1. [moves[p] EXCEPT ![n] = m] \in [Name -> MoveRow]
  BY DEF ProcsTyped
<1> QED
  BY <1>1 DEF ProcsTyped

LEMMA DiskMoves ==
  ASSUME TypeInv, NEW d \in [Place -> Snap \cup {NONE}], NEW by, DiskBecomes(d, by)
  PROVE  FilesTyped'
<1>1. Track(d, claims, by) \in [Conflict -> Put \cup {NONE}]
  BY TrackFacts DEF TypeInv, TablesTyped
<1> QED
  BY <1>1 DEF DiskBecomes, FilesTyped

LEMMA TypeUser ==
  ASSUME TypeInv, NEW x \in Place, UserWrite(x) \/ UserDelete(x) \/ \E y \in Place : UserMove(x, y)
  PROVE  TypeInv'
<1>1. /\ UNCHANGED <<tables, phase, pending, thread, listed, worker>> /\ Mishap
      /\ \E d \in [Place -> Snap \cup {NONE}] : DiskBecomes(d, NONE)
  <2>1. CASE UserWrite(x)
    <3>1. <<x[1], x[2], used.mishaps + 1>> \in Snap
      BY DEF TypeInv, ProcsTyped, Place, Snap
    <3> QED
      BY <2>1, <3>1 DEF UserWrite, TypeInv, FilesTyped
  <2>2. CASE UserDelete(x)
    BY <2>2 DEF UserDelete, TypeInv, FilesTyped
  <2>3. ASSUME NEW y \in Place, UserMove(x, y)
        PROVE  /\ UNCHANGED <<tables, phase, pending, thread, listed, worker>> /\ Mishap
               /\ \E d \in [Place -> Snap \cup {NONE}] : DiskBecomes(d, NONE)
    BY <2>3 DEF UserMove, TypeInv, FilesTyped
  <2> QED
    BY <2>1, <2>2, <2>3
<1>2. FilesTyped'
  BY <1>1, DiskMoves
<1>3. TablesTyped' /\ ProcsTyped' /\ ThreadsTyped'
  BY <1>1, TablesSame, ProcsMove, ThreadsSame DEF TypeInv, worker
<1> QED
  BY <1>2, <1>3 DEF TypeInv

\* The organizer thread, as far as it takes up files.
LEMMA TypeFiles ==
  ASSUME TypeInv, NEW p \in Proc,
         \/ SeeDestination(p) \/ Ask(p)
         \/ \E x \in Place : TakeEvent(p, x)
         \/ \E n \in Name : TakeStable(p, n)
  PROVE  TypeInv'
<1> USE DEF TypeInv
<1>1. CASE SeeDestination(p)
  <2> DEFINE r == [thread[p] EXCEPT !.pc = "register", !.home = Home(thread[p].name)]
  <2>1. thread[p] \in ThreadRow /\ thread[p].pc = "occupied" /\ phase[p] = "run"
    BY <1>1 DEF SeeDestination, At, ThreadsTyped
  <2>2. thread[p].name \in Name
    BY <2>1 DEF ThreadsTyped, ThreadFits
  <2>3. Home(thread[p].name) \in Snap \cup {NONE}
    BY <2>2 DEF Home, FilesTyped, Place, Folder
  <2>4. r \in ThreadRow /\ r.pc = "register" /\ r.name \in Name
    BY <2>1, <2>2, <2>3 DEF ThreadRow
  <2>5. thread' = [thread EXCEPT ![p] = r]
    BY <1>1 DEF SeeDestination, ThreadsTyped
  <2> HIDE DEF r
  <2>6. ThreadFits(r, phase[p])
    BY <2>1, <2>4 DEF ThreadFits, OnConflict, Resolving
  <2> QED
    BY <1>1, <2>5, <2>6, ThreadSetTyped, FilesSame, TablesSame, ProcsMove DEF SeeDestination, worker
<1>2. CASE Ask(p)
  <2> DEFINE t == thread[p]
  <2>1. t \in ThreadRow /\ t.pc = "register" /\ t.name \in Name
    BY <1>2 DEF Ask, At, ThreadsTyped, ThreadFits
  <2>2. t.snap \in Snap \cup {NONE} /\ t.home \in Snap \cup {NONE}
    BY <2>1 DEF ThreadRow
  <2>3. [pending EXCEPT ![p][t.name] = t.snap] \in [Proc -> [Name -> Snap \cup {NONE}]]
    BY <2>1, <2>2 DEF ProcsTyped
  <2>4. TablesTyped'
    <3>1. claims' = claims /\ (conflicts' = conflicts \/ Register(t.name, t.snap, t.home))
      BY <1>2 DEF Ask
    <3>2. RowsMove \/ RowsClose
      BY <3>1, <2>1, <2>2, RowsSame, RegisterMoves
    <3> QED
      BY <3>1, <3>2, TablesMove DEF TablesTyped
  <2> QED
    BY <1>2, <2>3, <2>4, DoneTyped, FilesSame, ProcsMove DEF Ask, worker, Fault
<1>3. ASSUME NEW x \in Place, TakeEvent(p, x) PROVE TypeInv'
  BY <1>3, QueuedTyped, FilesSame, TablesSame, ThreadsSame, ProcsMove DEF TakeEvent, worker
<1>4. ASSUME NEW n \in Name, TakeStable(p, n) PROVE TypeInv'
  <2> DEFINE r == [Idle EXCEPT !.pc = "occupied", !.name = n, !.snap = Source(n)]
             m == [NoMove EXCEPT !.pc = "queued", !.snap = Source(n)]
  <2>1. Source(n) \in Snap \cup {NONE}
    BY DEF FilesTyped, Source, Place, Folder
  <2>2. r \in ThreadRow /\ r.pc = "occupied" /\ r.name \in Name /\ m \in MoveRow
    BY <2>1 DEF ThreadRow, Idle, MoveRow, NoMove
  <2>3. phase[p] = "run" /\ UNCHANGED <<disk, tables, phase, events, listed, open, placed>>
    BY <1>4 DEF TakeStable, Free
  <2>4. pending' \in [Proc -> [Name -> Snap \cup {NONE}]]
    <3>1. \/ pending' = [pending EXCEPT ![p][n] = Source(n)]
          \/ pending' = [pending EXCEPT ![p][n] = NONE]
      BY <1>4 DEF TakeStable
    <3> QED
      BY <3>1, <2>1, PendingSet
  <2>5. moves' = moves \/ moves' \in [Proc -> [Name -> MoveRow]]
    <3>1. moves' = moves \/ moves' = [moves EXCEPT ![p][n] = m]
      BY <1>4 DEF TakeStable
    <3> HIDE DEF m
    <3> QED
      BY <3>1, <2>2, MovesSet
  <2>6. ThreadsTyped'
    <3>1. thread' = thread \/ thread' = [thread EXCEPT ![p] = r]
      BY <1>4 DEF TakeStable
    <3> HIDE DEF r
    <3>2. ThreadFits(r, phase[p])
      BY <2>2, <2>3 DEF ThreadFits, OnConflict, Resolving
    <3> QED
      BY <3>1, <3>2, <2>3, ThreadSetTyped, ThreadsSame
  <2>7. used' = used
    BY <1>4 DEF TakeStable
  <2> QED
    BY <2>3, <2>4, <2>5, <2>6, <2>7, FilesSame, TablesSame, ProcsMove
<1> QED
  BY <1>1, <1>2, <1>3, <1>4

LEMMA CommandTyped ==
  ASSUME ProcsTyped, NEW p \in Proc, Command(p)
  PROVE  used' \in [commands : Nat, mishaps : Nat]
<1>1. used' = [used EXCEPT !.commands = used.commands + 1]
  BY DEF Command
<1> QED
  BY <1>1 DEF ProcsTyped

LEMMA TypeCommand ==
  ASSUME TypeInv, NEW p \in Proc, NEW c \in Conflict,
         Cancel(p, c) \/ \E f \in Folder, t \in Name : Resolve(p, c, f, t)
  PROVE  TypeInv'
<1> USE DEF TypeInv
<1>1. CASE Cancel(p, c)
  <2>1. TablesTyped'
    BY <1>1, CloseRows, TablesMove DEF Cancel, Final
  <2>2. used' \in [commands : Nat, mishaps : Nat]
    BY <1>1, CommandTyped DEF Cancel
  <2>3. UNCHANGED <<disk, phase, pending, thread, listed, worker, placed>>
    BY <1>1 DEF Cancel
  <2> QED
    BY <2>1, <2>2, <2>3, FilesSame, ThreadsSame DEF ProcsTyped, worker
<1>2. ASSUME NEW f \in Folder, NEW t \in Name, Resolve(p, c, f, t)
      PROVE  TypeInv'
  <2> DEFINE row == conflicts[c]
             k == [owner |-> p, at |-> <<f, row.name>>, to |-> t,
                   snap |-> IF f = "source" THEN row.snap ELSE row.home]
             r == [Idle EXCEPT !.pc = "claim", !.name = row.name, !.snap = row.snap,
                               !.home = row.home, !.con = c, !.claim = k]
  <2>1. row \in Row /\ row.name \in Name
    BY <1>2 DEF Resolve, TablesTyped
  <2>2. k \in Wanted
    BY <2>1 DEF Wanted, Place, Row
  <2> HIDE DEF k
  <2>3. r \in ThreadRow /\ r.pc = "claim" /\ r.con = c /\ r.claim = k
    BY <2>1, <2>2 DEF ThreadRow, Idle, Row
  <2>4. thread' = [thread EXCEPT ![p] = r] /\ phase[p] = "run"
    BY <1>2 DEF Resolve, Command, Free, k
  <2> HIDE DEF r
  <2>5. ThreadFits(r, phase[p])
    BY <2>2, <2>3, <2>4 DEF ThreadFits, OnConflict, Resolving
  <2>6. used' \in [commands : Nat, mishaps : Nat]
    BY <1>2, CommandTyped DEF Resolve
  <2>7. UNCHANGED <<disk, tables, phase, pending, listed, worker, placed>>
    BY <1>2 DEF Resolve
  <2>8. ThreadsTyped'
    BY <2>4, <2>5, <2>7, ThreadSetTyped
  <2> QED
    BY <2>6, <2>7, <2>8, FilesSame, TablesSame DEF ProcsTyped, worker
<1> QED
  BY <1>1, <1>2

LEMMA VerdictKnown == \A k : Verdict(k) \in Verdicts
  BY DEF Verdict, Verdicts

\* Where a thread stands that resolves a conflict.
LEMMA AtConflict ==
  ASSUME TypeInv, NEW p \in Proc, NEW pc \in OnConflict, At(p, pc)
  PROVE  /\ phase[p] = "run" /\ thread[p].pc = pc
         /\ Con(p) \in Conflict /\ Claim(p) \in Wanted
         /\ pc # "claim" => Claim(p) \in ClaimRow
  BY AtTyped DEF At, TypeInv

LEMMA TypeLook ==
  ASSUME TypeInv, NEW p \in Proc, NEW pc \in {"apply", "obsolete"}, NEW con \in Conflict,
         NEW claim \in ClaimRow, NEW r \in ThreadRow, r.pc = pc, r.con = con, r.claim = claim,
         pc = "apply" => r.verdict \in Verdicts,
         phase[p] = "run" \/ (phase[p] = "start" /\ pc = "apply"), phase' = phase,
         thread' = [thread EXCEPT ![p] = r]
  PROVE  ThreadsTyped'
<1>1. ThreadFits(r, phase[p])
  BY ClaimWanted DEF ThreadFits, OnConflict, Resolving
<1> QED
  BY <1>1, ThreadSetTyped DEF TypeInv

LEMMA TypeTaken ==
  ASSUME TypeInv, NEW p \in Proc, TakeClaim(p)
  PROVE  TypeInv'
<1> USE DEF TypeInv
<1>1. phase[p] = "run" /\ Con(p) \in Conflict /\ Claim(p) \in Wanted
  BY AtConflict DEF TakeClaim, OnConflict, Resolving
<1>2. UNCHANGED <<disk, conflicts, phase, events, pending, listed, worker>>
  BY DEF TakeClaim
<1>3. claims' \in [Conflict -> ClaimRow \cup {NONE}] /\ ThreadsTyped'
  <2>1. CASE claims' = claims /\ Done(p)
    BY <1>2, <2>1, DoneTyped DEF TablesTyped
  <2>2. CASE claims' = [claims EXCEPT ![Con(p)] = Claim(p)] /\ Goto(p, "check")
             /\ Claim(p).snap # NONE
    <3>1. Claim(p) \in ClaimRow
      BY <1>1, <2>2 DEF Wanted, ClaimRow
    <3> QED
      BY <1>1, <1>2, <2>2, <3>1, GotoTyped DEF TablesTyped, Resolving
  <2> QED
    BY <2>1, <2>2 DEF TakeClaim
<1>4. FilesTyped'
  <2>1. placed' = Track(disk, claims', NONE)
    BY DEF TakeClaim
  <2> QED
    BY <1>2, <1>3, <2>1, TrackFacts DEF FilesTyped
<1>5. TablesTyped'
  BY <1>2, <1>3 DEF TablesTyped
<1>6. used' = used \/ Mishap
  BY DEF TakeClaim, Fault
<1> QED
  BY <1>2, <1>3, <1>4, <1>5, <1>6, ProcsMove DEF worker

LEMMA TypeResolve ==
  ASSUME TypeInv, NEW p \in Proc, ResolveStep(p)
  PROVE  TypeInv'
<1> USE DEF TypeInv
<1>1. CASE Check(p)
  <2> DEFINE r == [thread[p] EXCEPT !.pc = "obsolete", !.verdict = "release"]
  <2>1. phase[p] = "run" /\ Con(p) \in Conflict /\ Claim(p) \in ClaimRow
    BY <1>1, AtConflict DEF Check, OnConflict, Resolving
  <2>2. thread[p] \in ThreadRow
    BY DEF ThreadsTyped
  <2>3. r \in ThreadRow /\ r.pc = "obsolete" /\ r.con = Con(p) /\ r.claim = Claim(p)
    BY <2>2 DEF ThreadRow, Con, Claim, Resolving
  <2>4. \/ Goto(p, "release") \/ Goto(p, "guard")
        \/ thread' = [thread EXCEPT ![p] = r]
    BY <1>1 DEF Check, ThreadsTyped
  <2>5. UNCHANGED <<disk, tables, phase, events, pending, listed, worker, used, placed>>
    BY <1>1 DEF Check
  <2> HIDE DEF r
  <2>6. ThreadsTyped'
    BY <2>1, <2>3, <2>4, <2>5, GotoTyped, TypeLook DEF Resolving
  <2> QED
    BY <2>5, <2>6, FilesSame, TablesSame, ProcsMove DEF worker
<1>2. CASE Guard(p)
  <2>1. phase[p] = "run" /\ Con(p) \in Conflict /\ Claim(p) \in ClaimRow
    BY <1>2, AtConflict DEF Guard, OnConflict, Resolving
  <2>2. \/ Goto(p, "rename") \/ Goto(p, "look") \/ Goto(p, "obsolete")
    BY <1>2 DEF Guard
  <2>3. UNCHANGED <<disk, tables, phase, events, pending, listed, worker, used, placed>>
    BY <1>2 DEF Guard
  <2>4. ThreadsTyped'
    BY <2>1, <2>2, <2>3, GotoTyped DEF Resolving
  <2> QED
    BY <2>3, <2>4, FilesSame, TablesSame, ProcsMove DEF worker
<1>3. CASE Rename(p)
  <2>1. phase[p] = "run" /\ Con(p) \in Conflict /\ Claim(p) \in ClaimRow
    BY <1>3, AtConflict DEF Rename, OnConflict, Resolving
  <2>2. Claim(p).at \in Place /\ Target(Claim(p)) \in Place /\ Claim(p).snap \in Snap
    BY <2>1, ClaimWanted, ClaimPlaces
  <2>3. [disk EXCEPT ![Claim(p).at] = NONE, ![Target(Claim(p))] = Claim(p).snap]
          \in [Place -> Snap \cup {NONE}]
    BY <2>2 DEF FilesTyped
  <2>4. /\ UNCHANGED <<tables, phase, pending, listed, worker>>
        /\ used' = used \/ Mishap
        /\ \/ Goto(p, "obsolete") \/ Goto(p, "release") \/ Goto(p, "finish") \/ Goto(p, "look")
        /\ \/ UNCHANGED <<disk, placed>>
           \/ DiskBecomes([disk EXCEPT ![Claim(p).at] = NONE, ![Target(Claim(p))] = Claim(p).snap],
                          Con(p))
    BY <1>3 DEF Rename, Fault
  <2>5. FilesTyped'
    BY <2>3, <2>4, FilesSame, DiskMoves
  <2>6. ThreadsTyped'
    BY <2>1, <2>4, GotoTyped DEF Resolving
  <2> QED
    BY <2>4, <2>5, <2>6, TablesSame, ProcsMove DEF worker
<1>4. CASE Finish(p)
  <2>1. phase[p] = "run" /\ Con(p) \in Conflict /\ Claim(p) \in ClaimRow
    BY <1>4, AtConflict DEF Finish, OnConflict, Resolving
  <2>2. /\ UNCHANGED <<disk, phase, events, listed, worker, placed>>
        /\ used' = used \/ Mishap
        /\ \/ Goto(p, "look") /\ UNCHANGED <<tables, pending>>
           \/ Close(Con(p), "resolved") /\ Done(p) /\ pending' = Queued(p, Freed(p))
    BY <1>4 DEF Finish, Fault
  <2>3. TablesTyped'
    BY <2>1, <2>2, TablesSame, CloseRows, TablesMove DEF Final
  <2>4. ThreadsTyped'
    BY <2>1, <2>2, GotoTyped, DoneTyped DEF Resolving
  <2> QED
    BY <2>2, <2>3, <2>4, QueuedTyped, FilesSame, ProcsMove DEF worker
<1>5. CASE MarkObsolete(p)
  <2>1. phase[p] = "run" /\ Con(p) \in Conflict /\ Claim(p) \in ClaimRow
    BY <1>5, AtConflict DEF MarkObsolete, OnConflict, Resolving
  <2>2. /\ UNCHANGED <<disk, phase, events, pending, listed, worker, placed>>
        /\ used' = used \/ Mishap
        /\ Goto(p, "release") \/ Done(p)
        /\ UNCHANGED tables \/ Close(Con(p), "obsolete")
    BY <1>5 DEF MarkObsolete, Fault
  <2>3. TablesTyped'
    BY <2>1, <2>2, TablesSame, CloseRows, TablesMove DEF Final
  <2>4. ThreadsTyped'
    BY <2>1, <2>2, GotoTyped, DoneTyped DEF Resolving
  <2> QED
    BY <2>2, <2>3, <2>4, FilesSame, ProcsMove DEF worker
<1>6. CASE Release(p)
  <2>1. /\ UNCHANGED <<disk, conflicts, phase, events, pending, listed, worker, placed>>
        /\ used' = used \/ Mishap
        /\ Done(p)
        /\ claims' = claims \/ claims' = [claims EXCEPT ![Con(p)] = NONE]
    BY <1>6 DEF Release, Fault, Unclaimed
  <2>2. TablesTyped'
    BY <2>1 DEF TablesTyped
  <2> QED
    BY <2>1, <2>2, DoneTyped, FilesSame, ProcsMove DEF worker
<1>7. CASE Look(p)
  <2> DEFINE r == [thread[p] EXCEPT !.pc = "apply", !.verdict = Verdict(Claim(p))]
  <2>1. phase[p] = "run" /\ Con(p) \in Conflict /\ Claim(p) \in ClaimRow
    BY <1>7, AtConflict DEF Look, OnConflict, Resolving
  <2>2. thread[p] \in ThreadRow
    BY DEF ThreadsTyped
  <2>3. r \in ThreadRow /\ r.pc = "apply" /\ r.con = Con(p) /\ r.claim = Claim(p)
        /\ r.verdict \in Verdicts
    BY <2>2, VerdictKnown DEF ThreadRow, Con, Claim, Verdicts
  <2>4. Done(p) \/ thread' = [thread EXCEPT ![p] = r]
    BY <1>7 DEF Look, ThreadsTyped
  <2>5. /\ UNCHANGED <<disk, tables, phase, events, pending, listed, worker, placed>>
        /\ used' = used \/ Mishap
    BY <1>7 DEF Look, Fault
  <2> HIDE DEF r
  <2>6. ThreadsTyped'
    BY <2>1, <2>3, <2>4, <2>5, DoneTyped, TypeLook
  <2> QED
    BY <2>5, <2>6, FilesSame, TablesSame, ProcsMove DEF worker
<1>8. CASE ApplyOwn(p)
  <2>1. phase[p] = "run" /\ Con(p) \in Conflict /\ thread[p].verdict \in Verdicts
    BY <1>8, AtConflict DEF ApplyOwn, OnConflict, ThreadsTyped, ThreadFits
  <2>2. /\ UNCHANGED <<disk, phase, events, listed, worker, placed>>
        /\ used' = used \/ Mishap
        /\ Done(p)
        /\ pending' \in {pending, Queued(p, Freed(p))}
        /\ UNCHANGED tables \/ Apply(Con(p), p, thread[p].verdict)
    BY <1>8 DEF ApplyOwn, Fault
  <2>3. TablesTyped'
    BY <2>1, <2>2, TablesSame, ApplyRows, TablesMove
  <2> QED
    BY <2>2, <2>3, QueuedTyped, DoneTyped, FilesSame, ProcsMove DEF worker
<1> QED
  BY <1>1, <1>2, <1>3, <1>4, <1>5, <1>6, <1>7, <1>8, TypeTaken DEF ResolveStep

LEMMA TypeStart ==
  ASSUME TypeInv, NEW p \in Proc,
         Start(p) \/ ApplyRow(p) \/ Begin(p) \/ \E c \in Conflict : LookAtRow(p, c)
  PROVE  TypeInv'
<1> USE DEF TypeInv
<1>1. CASE Start(p)
  <2>1. /\ UNCHANGED <<disk, tables, pending, thread, moves, placed>> /\ phase[p] = "new"
        /\ phase' = [phase EXCEPT ![p] = "start"]
        /\ used' = used \/ Mishap
        /\ listed' \in [Proc -> [Conflict -> ClaimRow \cup {NONE}]]
    BY <1>1 DEF Start, Fault, worker, ProcsTyped, TablesTyped
  <2>2. used' \in [commands : Nat, mishaps : Nat]
    BY <2>1 DEF ProcsTyped, Mishap
  <2>3. ProcsTyped'
    BY <2>1, <2>2 DEF ProcsTyped
  <2>4. ThreadsTyped'
    <3>1. ThreadFits(thread[p], phase'[p])
      BY <2>1 DEF ThreadsTyped, ThreadFits, ProcsTyped
    <3> QED
      BY <3>1, <2>1 DEF ThreadsTyped, ProcsTyped
  <2> QED
    BY <2>1, <2>3, <2>4, FilesSame, TablesSame
<1>2. CASE ApplyRow(p)
  <2> DEFINE r == [placed[Con(p)] EXCEPT !.ours = FALSE]
  <2>1. phase[p] = "start" /\ thread[p].pc = "apply" /\ thread[p].verdict \in Verdicts
        /\ Con(p) \in Conflict
    BY <1>2, AtTyped DEF ApplyRow, OnConflict, ThreadsTyped, ThreadFits
  <2>2. /\ UNCHANGED <<disk, phase, events, pending, worker>> /\ Done(p)
        /\ used' = used \/ Mishap
        /\ listed' = listed \/ listed' = [listed EXCEPT ![p] = NoClaims]
        /\ UNCHANGED tables \/ Apply(Con(p), Claim(p).owner, thread[p].verdict)
        /\ \/ placed' = placed
           \/ placed[Con(p)] # NONE /\ placed' = [placed EXCEPT ![Con(p)] = r]
    BY <1>2 DEF ApplyRow, Fault, FilesTyped
  <2>3. placed[Con(p)] # NONE => r \in Put
    <3>1. placed[Con(p)] \in Put \cup {NONE}
      BY <2>1 DEF FilesTyped
    <3> QED
      BY <3>1 DEF Put
  <2> HIDE DEF r
  <2>4. FilesTyped'
    BY <2>1, <2>2, <2>3 DEF FilesTyped
  <2>5. TablesTyped'
    BY <2>1, <2>2, TablesSame, ApplyRows, TablesMove
  <2>6. listed' \in [Proc -> [Conflict -> ClaimRow \cup {NONE}]]
    <3>1. listed \in [Proc -> [Conflict -> ClaimRow \cup {NONE}]]
      BY DEF ProcsTyped
    <3>2. NoClaims \in [Conflict -> ClaimRow \cup {NONE}]
      BY DEF NoClaims
    <3>3. CASE listed' = [listed EXCEPT ![p] = NoClaims]
      <4> HIDE DEF NoClaims
      <4> QED
        BY <3>1, <3>2, <3>3
    <3> QED
      BY <2>2, <3>1, <3>3
  <2> QED
    BY <2>2, <2>4, <2>5, <2>6, DoneTyped, ProcsMove DEF worker
<1>3. CASE Begin(p)
  <2>1. /\ UNCHANGED <<disk, claims, events, thread, listed, moves, used, placed>>
        /\ phase' = [phase EXCEPT ![p] = "run"] /\ phase[p] = "start" /\ thread[p] = Idle
        /\ pending' = Queued(p, Name)
    BY <1>3 DEF Begin
  <2>2. ProcsTyped'
    BY <2>1, QueuedTyped DEF ProcsTyped
  <2>3. TablesTyped'
    BY <1>3, <2>1, BeginRows, TablesMove DEF TablesTyped
  <2>4. ThreadsTyped'
    BY <2>1, IdleFits DEF ThreadsTyped, ProcsTyped
  <2> QED
    BY <2>1, <2>2, <2>3, <2>4, FilesSame
<1>4. ASSUME NEW c \in Conflict, LookAtRow(p, c) PROVE TypeInv'
  <2> DEFINE k == listed[p][c]
             r == [Idle EXCEPT !.pc = "apply", !.con = c, !.claim = k, !.verdict = Verdict(k)]
  <2>1. phase[p] = "start" /\ k \in ClaimRow
    <3>1. phase[p] = "start" /\ k # NONE
      BY <1>4 DEF LookAtRow
    <3>2. k \in ClaimRow \cup {NONE}
      BY DEF ProcsTyped
    <3> QED
      BY <3>1, <3>2
  <2>2. /\ UNCHANGED <<disk, tables, phase, events, pending, worker, used>>
        /\ listed' = [listed EXCEPT ![p][c] = NONE]
        /\ \/ UNCHANGED <<thread, placed>>
           \/ thread' = [thread EXCEPT ![p] = r] /\ placed' = Track(disk, [claims EXCEPT ![c] = k], NONE)
    BY <1>4 DEF LookAtRow
  <2>3. r \in ThreadRow /\ r.pc = "apply" /\ r.con = c /\ r.claim = k /\ r.verdict \in Verdicts
    BY <2>1, VerdictKnown, ClaimWanted DEF ThreadRow, Idle, Verdicts
  <2>4. [claims EXCEPT ![c] = k] \in [Conflict -> ClaimRow \cup {NONE}]
    BY <2>1 DEF TablesTyped
  <2> HIDE DEF r, k
  <2>5. ThreadsTyped'
    BY <2>1, <2>2, <2>3, TypeLook, ThreadsSame
  <2>6. FilesTyped'
    <3>1. Track(disk, [claims EXCEPT ![c] = k], NONE) \in [Conflict -> Put \cup {NONE}]
      BY <2>4, TrackFacts DEF FilesTyped
    <3> QED
      BY <2>2, <3>1, FilesSame DEF FilesTyped
  <2>7. listed' \in [Proc -> [Conflict -> ClaimRow \cup {NONE}]]
    <3>1. [listed[p] EXCEPT ![c] = NONE] \in [Conflict -> ClaimRow \cup {NONE}]
      BY DEF ProcsTyped
    <3> QED
      BY <2>2, <3>1 DEF ProcsTyped
  <2> QED
    BY <2>2, <2>5, <2>6, <2>7, TablesSame, ProcsMove DEF worker
<1> QED
  BY <1>1, <1>2, <1>3, <1>4

LEMMA TypeWorker ==
  ASSUME TypeInv, NEW p \in Proc, WorkerStep(p)
  PROVE  TypeInv'
<1> USE DEF TypeInv
<1> PICK n \in Name : TakeMove(p, n) \/ SeeCollision(p, n) \/ AskInstead(p, n) \/ Move(p, n)
                        \/ CloseMove(p, n)
  BY DEF WorkerStep
<1>1. moves[p][n] \in MoveRow /\ moves[p][n].snap \in Snap \cup {NONE}
      /\ moves[p][n].home \in Snap \cup {NONE}
  BY DEF ProcsTyped, MoveRow
<1>2. ASSUME NEW pc \in {"occupied", "move", "close"}, MoveTo(p, n, pc)
      PROVE  moves' \in [Proc -> [Name -> MoveRow]]
  <2>1. [moves[p][n] EXCEPT !.pc = pc] \in MoveRow
    BY <1>1 DEF MoveRow
  <2>2. moves' = [moves EXCEPT ![p][n] = [moves[p][n] EXCEPT !.pc = pc]]
    BY <1>2 DEF MoveTo, ProcsTyped
  <2> QED
    BY <2>1, <2>2, MovesSet
<1>3. EndMove(p, n) => moves' \in [Proc -> [Name -> MoveRow]]
  <2>1. NoMove \in MoveRow
    BY DEF NoMove, MoveRow
  <2> QED
    BY <2>1, MovesSet DEF EndMove
<1>4. CASE TakeMove(p, n)
  BY <1>2, <1>3, <1>4, FilesSame, TablesSame, ThreadsSame, ProcsMove DEF TakeMove
<1>5. CASE SeeCollision(p, n)
  <2> DEFINE m == [moves[p][n] EXCEPT !.pc = "register", !.home = Home(n)]
  <2>1. Home(n) \in Snap \cup {NONE}
    BY DEF Home, FilesTyped, Place, Folder
  <2>2. m \in MoveRow
    BY <1>1, <2>1 DEF MoveRow
  <2>3. EndMove(p, n) \/ moves' = [moves EXCEPT ![p][n] = m]
    BY <1>5 DEF SeeCollision, ProcsTyped
  <2> HIDE DEF m
  <2>4. moves' \in [Proc -> [Name -> MoveRow]]
    BY <1>3, <2>2, <2>3, MovesSet
  <2> QED
    BY <1>5, <2>4, FilesSame, TablesSame, ThreadsSame, ProcsMove DEF SeeCollision
<1>6. CASE AskInstead(p, n)
  <2>1. /\ UNCHANGED <<disk, claims, phase, pending, thread, listed, placed>> /\ EndMove(p, n)
        /\ used' = used \/ Mishap
        /\ conflicts' = conflicts \/ Register(n, moves[p][n].snap, moves[p][n].home)
    BY <1>6 DEF AskInstead, Fault
  <2>2. TablesTyped'
    BY <1>1, <2>1, RowsSame, RegisterMoves, TablesMove DEF TablesTyped
  <2> QED
    BY <1>3, <2>1, <2>2, FilesSame, ThreadsSame, ProcsMove
<1>7. CASE Move(p, n)
  <2>1. /\ UNCHANGED <<tables, phase, pending, thread, listed, open>>
        /\ used' = used \/ Mishap
        /\ EndMove(p, n) \/ MoveTo(p, n, "occupied") \/ MoveTo(p, n, "close")
        /\ \/ UNCHANGED <<disk, placed>>
           \/ /\ Source(n) = moves[p][n].snap
              /\ DiskBecomes([disk EXCEPT ![<<"source", n>>] = NONE,
                                          ![<<"home", n>>] = moves[p][n].snap], NONE)
    BY <1>7 DEF Move, Fault
  <2>2. [disk EXCEPT ![<<"source", n>>] = NONE, ![<<"home", n>>] = moves[p][n].snap]
          \in [Place -> Snap \cup {NONE}]
    BY <1>1 DEF FilesTyped
  <2>3. FilesTyped'
    BY <2>1, <2>2, FilesSame, DiskMoves
  <2> QED
    BY <1>2, <1>3, <2>1, <2>3, TablesSame, ThreadsSame, ProcsMove
<1>8. CASE CloseMove(p, n)
  <2>1. /\ UNCHANGED <<disk, claims, phase, pending, thread, listed, placed>> /\ EndMove(p, n)
        /\ used' = used \/ Mishap
        /\ conflicts' = conflicts \/ conflicts' = WithoutPending(n)
    BY <1>8 DEF CloseMove, Fault
  <2>2. TablesTyped'
    BY <2>1, RowsSame, WithoutPendingMoves, TablesMove DEF TablesTyped
  <2> QED
    BY <1>3, <2>1, <2>2, FilesSame, ThreadsSame, ProcsMove
<1> QED
  BY <1>4, <1>5, <1>6, <1>7, <1>8

LEMMA TypeCrash ==
  ASSUME TypeInv, NEW p \in Proc, Crash(p)
  PROVE  TypeInv'
<1> USE DEF TypeInv
<1>1. /\ phase' = [phase EXCEPT ![p] = "dead"] /\ pending' = [pending EXCEPT ![p] = NoFiles]
      /\ thread' = [thread EXCEPT ![p] = Idle] /\ listed' = [listed EXCEPT ![p] = NoClaims]
      /\ moves' = [moves EXCEPT ![p] = [n \in Name |-> NoMove]]
      /\ UNCHANGED <<disk, tables, used, placed>>
  BY DEF Crash
<1>2. ProcsTyped'
  <2>1. NoMove \in MoveRow
    BY DEF NoMove, MoveRow
  <2> QED
    BY <1>1, <2>1 DEF ProcsTyped, NoFiles, NoClaims
<1>3. ThreadsTyped'
  <2>1. Idle \in ThreadRow
    BY IdleFits DEF ThreadFits
  <2> QED
    BY <1>1, <2>1, IdleFits DEF ThreadsTyped, ProcsTyped
<1> QED
  BY <1>1, <1>2, <1>3, FilesSame, TablesSame

LEMMA TypeStep == TypeInv /\ [Next]_vars => TypeInv'
<1> SUFFICES ASSUME TypeInv, [Next]_vars PROVE TypeInv'
  OBVIOUS
<1>1. CASE User
  BY <1>1, TypeUser, TypeCommand DEF User
<1>2. ASSUME NEW p \in Proc, ThreadStep(p) PROVE TypeInv'
  BY <1>2, TypeFiles, TypeResolve DEF ThreadStep
<1>3. ASSUME NEW p \in Proc, StartStep(p) PROVE TypeInv'
  BY <1>3, TypeStart DEF StartStep
<1>4. CASE UNCHANGED vars
  BY <1>4, FilesSame, TablesSame, ThreadsSame, ProcsMove DEF vars, TypeInv, worker
<1> QED
  BY <1>1, <1>2, <1>3, <1>4, TypeWorker, TypeCrash DEF Next

\* The tables, the files and what the threads and workers are at have their types.
THEOREM ConflictsTypes == Spec => []TypeInv
  BY TypeInit, TypeStep, PTL DEF Spec

----------------------------------------------------------------------------
(* A file is asked about once.                                             *)

\* Rows are opened by a registration only.
LEMMA RowsStep ==
  ASSUME TypeInv, [Next]_vars
  PROVE  \/ RowsClose
         \/ \E n \in Name, snap \in Snap \cup {NONE}, home \in Snap \cup {NONE} :
              Register(n, snap, home)
<1> USE DEF TypeInv
<1> DEFINE Asks == \E n \in Name, snap \in Snap \cup {NONE}, home \in Snap \cup {NONE} :
                     Register(n, snap, home)
<1>1. ASSUME NEW x \in Place, UserWrite(x) \/ UserDelete(x) \/ \E y \in Place : UserMove(x, y)
      PROVE  RowsClose
  BY <1>1, RowsSame DEF UserWrite, UserDelete, UserMove, tables
<1>2. ASSUME NEW p \in Proc, NEW c \in Conflict,
             Cancel(p, c) \/ \E f \in Folder, t \in Name : Resolve(p, c, f, t)
      PROVE  RowsClose
  BY <1>2, RowsSame, CloseRows DEF Cancel, Resolve, tables, Final
<1>3. ASSUME NEW p \in Proc, ThreadStep(p) PROVE RowsClose \/ Asks
  <2>1. CASE Ask(p)
    <3>1. thread[p] \in ThreadRow /\ thread[p].name \in Name
      BY <2>1 DEF Ask, At, ThreadsTyped, ThreadFits
    <3>2. thread[p].snap \in Snap \cup {NONE} /\ thread[p].home \in Snap \cup {NONE}
      BY <3>1 DEF ThreadRow
    <3> QED
      BY <2>1, <3>1, <3>2, RowsSame DEF Ask
  <2>2. CASE Finish(p)
    BY <2>2, AtConflict, CloseRows, RowsSame DEF Finish, OnConflict, Resolving, tables, Final
  <2>3. CASE MarkObsolete(p)
    BY <2>3, AtConflict, CloseRows, RowsSame DEF MarkObsolete, OnConflict, Resolving, tables, Final
  <2>4. CASE ApplyOwn(p)
    <3>1. Con(p) \in Conflict /\ thread[p].verdict \in Verdicts
      BY <2>4, AtConflict DEF ApplyOwn, OnConflict, ThreadsTyped, ThreadFits
    <3> QED
      BY <2>4, <3>1, ApplyRows, RowsSame DEF ApplyOwn, tables
  <2>5. CASE SeeDestination(p) \/ \E x \in Place : TakeEvent(p, x)
    BY <2>5, RowsSame DEF SeeDestination, TakeEvent, tables
  <2>6. ASSUME NEW n \in Name, TakeStable(p, n) PROVE RowsClose
    BY <2>6, RowsSame DEF TakeStable, tables
  <2>7. CASE TakeClaim(p) \/ Check(p) \/ Guard(p) \/ Rename(p) \/ Release(p) \/ Look(p)
    BY <2>7, RowsSame DEF TakeClaim, Check, Guard, Rename, Release, Look, tables
  <2> QED
    BY <1>3, <2>1, <2>2, <2>3, <2>4, <2>5, <2>6, <2>7 DEF ThreadStep, ResolveStep
<1>4. ASSUME NEW p \in Proc, StartStep(p) PROVE RowsClose
  <2>1. CASE ApplyRow(p)
    <3>1. Con(p) \in Conflict /\ thread[p].verdict \in Verdicts
      BY <2>1, AtTyped DEF ApplyRow, OnConflict, ThreadsTyped, ThreadFits
    <3> QED
      BY <2>1, <3>1, ApplyRows, RowsSame DEF ApplyRow, tables
  <2>2. CASE Start(p) \/ \E c \in Conflict : LookAtRow(p, c)
    BY <2>2, RowsSame DEF Start, LookAtRow, tables
  <2> QED
    BY <1>4, <2>1, <2>2, BeginRows DEF StartStep
<1>5. ASSUME NEW p \in Proc, NEW n \in Name,
             TakeMove(p, n) \/ SeeCollision(p, n) \/ AskInstead(p, n) \/ Move(p, n) \/ CloseMove(p, n)
      PROVE  RowsClose \/ Asks
  <2>1. moves[p][n].snap \in Snap \cup {NONE} /\ moves[p][n].home \in Snap \cup {NONE}
    BY DEF ProcsTyped, MoveRow
  <2>2. CASE AskInstead(p, n)
    BY <2>1, <2>2, RowsSame DEF AskInstead
  <2>3. CASE CloseMove(p, n)
    BY <2>3, RowsSame, WithoutPendingMoves DEF CloseMove
  <2>4. CASE TakeMove(p, n) \/ SeeCollision(p, n) \/ Move(p, n)
    BY <2>4, RowsSame DEF TakeMove, SeeCollision, Move, tables
  <2> QED
    BY <1>5, <2>2, <2>3, <2>4
<1>6. ASSUME NEW p \in Proc, Crash(p) PROVE RowsClose
  BY <1>6, RowsSame DEF Crash, tables
<1>7. CASE UNCHANGED vars
  BY <1>7, RowsSame DEF vars, tables
<1> QED
  BY <1>1, <1>2, <1>3, <1>4, <1>5, <1>6, <1>7 DEF Next, User, WorkerStep

\* Two rows of a file: what AskedOnce asks of them, field by field.
LEMMA Equal ==
  ASSUME TablesTyped, NEW c \in Conflict, NEW q \in Conflict
  PROVE  (conflicts[q] = [conflicts[c] EXCEPT !.status = "cancelled"]) <=>
           /\ conflicts[q].status = "cancelled" /\ conflicts[q].name = conflicts[c].name
           /\ conflicts[q].snap = conflicts[c].snap /\ conflicts[q].home = conflicts[c].home
  BY DEF TablesTyped, Row

LEMMA AskedOnceCloses ==
  ASSUME TablesTyped, TablesTyped', AskedOnce, RowsClose
  PROVE  AskedOnce'
<1> SUFFICES ASSUME NEW c \in Conflict, NEW q \in Conflict, c # q,
                    conflicts'[c].status = "pending", conflicts'[q].name = conflicts'[c].name
             PROVE  /\ conflicts'[q].status # "pending"
                    /\ ~(conflicts'[q] = [conflicts'[c] EXCEPT !.status = "cancelled"])
  BY DEF AskedOnce
<1>1. conflicts'[c] = conflicts[c]
  BY DEF RowsClose, RowClosed, Final
<1>2. conflicts'[q] = conflicts[q]
  <2>1. conflicts[q].name = conflicts[c].name \/ conflicts'[q] = conflicts[q]
    BY <1>1 DEF RowsClose, RowClosed
  <2>2. conflicts[q].status # "pending" \/ conflicts'[q] = conflicts[q]
    BY <1>1, <2>1 DEF AskedOnce
  <2> QED
    BY <2>2 DEF RowsClose, RowClosed
<1> QED
  BY <1>1, <1>2, Equal DEF AskedOnce

LEMMA AskedOnceOpens ==
  ASSUME TablesTyped, TablesTyped', AskedOnce, NEW n \in Name, NEW snap \in Snap \cup {NONE},
         NEW home \in Snap \cup {NONE}, NEW o \in Conflict,
         conflicts[o].status = "none",
         conflicts'[o] = [status |-> "pending", name |-> n, snap |-> snap, home |-> home],
         \A q \in Conflict \ {o} : conflicts'[q] = WithoutPending(n)[q],
         Matching(n, snap, home, "cancelled") = {}
  PROVE  AskedOnce'
<1> SUFFICES ASSUME NEW c \in Conflict, NEW q \in Conflict, c # q,
                    conflicts'[c].status = "pending", conflicts'[q].name = conflicts'[c].name
             PROVE  /\ conflicts'[q].status # "pending"
                    /\ ~(conflicts'[q] = [conflicts'[c] EXCEPT !.status = "cancelled"])
  BY DEF AskedOnce
<1>1. ASSUME NEW r \in Conflict \ {o}, conflicts'[r].name = n
      PROVE  conflicts'[r].status # "pending" /\ conflicts[r].name = n
  BY <1>1, WithoutPendingRows
<1>2. CASE c = o
  <2>1. q # o /\ conflicts'[q].name = n /\ conflicts'[q].status # "pending"
    BY <1>1, <1>2
  <2>2. ASSUME conflicts'[q] = [conflicts'[c] EXCEPT !.status = "cancelled"] PROVE FALSE
    <3>1. conflicts'[q] = [status |-> "cancelled", name |-> n, snap |-> snap, home |-> home]
      BY <1>2, <2>2
    <3>2. conflicts'[q].status = "cancelled"
      BY <3>1
    <3>3. conflicts'[q] = conflicts[q]
      BY <2>1, <3>2, WithoutPendingRows
    <3> QED
      BY <3>1, <3>3 DEF Matching
  <2> QED
    BY <2>1, <2>2
<1>3. CASE c # o
  <2>1. q # o /\ conflicts'[c].name # n
    BY <1>1, <1>3
  <2>2. conflicts'[c] = conflicts[c] /\ conflicts'[q] = conflicts[q]
    BY <1>3, <2>1, WithoutPendingRows
  <2> QED
    BY <2>2, Equal DEF AskedOnce
<1> QED
  BY <1>2, <1>3

\* A file is asked about once, and not again after the user has cancelled while both
\* files stay as they are.
THEOREM ConflictsAskedOnce == Spec => []AskedOnce
<1>1. Init => AskedOnce
  BY DEF Init, AskedOnce, NoRow
<1>2. TypeInv /\ TypeInv' /\ AskedOnce /\ [Next]_vars => AskedOnce'
  <2> SUFFICES ASSUME TypeInv, TypeInv', AskedOnce, [Next]_vars PROVE AskedOnce'
    OBVIOUS
  <2>1. TablesTyped /\ TablesTyped'
    BY DEF TypeInv
  <2>2. CASE RowsClose
    BY <2>1, <2>2, AskedOnceCloses
  <2>3. ASSUME NEW n \in Name, NEW snap \in Snap \cup {NONE}, NEW home \in Snap \cup {NONE},
               Register(n, snap, home)
        PROVE  AskedOnce'
    <3>1. CASE conflicts' = conflicts \/ conflicts' = WithoutPending(n)
      BY <2>1, <3>1, RowsSame, WithoutPendingMoves, AskedOnceCloses
    <3>2. ASSUME NEW c \in Conflict, conflicts[c].status = "none",
                 conflicts'[c] = [status |-> "pending", name |-> n, snap |-> snap, home |-> home],
                 \A q \in Conflict \ {c} : conflicts'[q] = WithoutPending(n)[q],
                 Matching(n, snap, home, "cancelled") = {}
          PROVE  AskedOnce'
      BY <2>1, <3>2, AskedOnceOpens
    <3> QED
      BY <2>1, <2>3, <3>1, <3>2, RegisterRows
  <2> QED
    BY <2>2, <2>3, RowsStep
<1> QED
  BY <1>1, <1>2, ConflictsTypes, PTL DEF Spec

----------------------------------------------------------------------------
(* One thread at a time works on the files of a conflict.                  *)

\* A thread of a running organizer works under its own claim, and a start settles the
\* claims of processes that are gone.
ClaimKept(p) ==
  /\ phase[p] = "run" /\ thread[p].pc \in Resolving \cup {"apply"} => claims[Con(p)] = Claim(p)
  /\ phase[p] = "run" /\ thread[p].pc \in OnConflict => Claim(p).owner = p
  /\ phase[p] = "start" /\ thread[p].pc = "apply" => phase[Claim(p).owner] = "dead"

ClaimInv == \A p \in Proc : ClaimKept(p)

\* What a step of one process leaves to the others.
Frame(p) ==
  /\ \A q \in Proc \ {p} : thread'[q] = thread[q] /\ phase'[q] = phase[q]
  /\ phase[p] = "dead" => phase'[p] = "dead"
  /\ \A c \in Conflict :
       \/ claims'[c] = claims[c] \/ claims[c] = NONE
       \/ claims[c].owner = p \/ phase[claims[c].owner] = "dead"

LEMMA OthersKeep ==
  ASSUME TypeInv, ClaimInv, NEW p \in Proc, Frame(p)
  PROVE  \A q \in Proc \ {p} : ClaimKept(q)'
<1> SUFFICES ASSUME NEW q \in Proc \ {p} PROVE ClaimKept(q)'
  OBVIOUS
<1>1. ClaimKept(q) /\ Con(q)' = Con(q) /\ Claim(q)' = Claim(q) /\ phase'[q] = phase[q]
      /\ thread'[q].pc = thread[q].pc
  BY DEF ClaimInv, Frame, Con, Claim
<1>2. ASSUME phase[q] = "run", thread[q].pc \in Resolving \cup {"apply"}
      PROVE  claims'[Con(q)] = Claim(q)
  <2>1. Con(q) \in Conflict /\ Claim(q) \in ClaimRow /\ claims[Con(q)] = Claim(q)
        /\ Claim(q).owner = q
    BY <1>1, <1>2, AtTyped DEF ClaimKept, OnConflict, Resolving, TypeInv
  <2> QED
    BY <1>2, <2>1, Apart DEF Frame
<1>3. ASSUME phase[q] = "start", thread[q].pc = "apply"
      PROVE  phase'[Claim(q).owner] = "dead"
  <2>1. Claim(q).owner \in Proc /\ phase[Claim(q).owner] = "dead"
    BY <1>1, <1>3, AtTyped, ClaimWanted DEF ClaimKept, OnConflict, TypeInv
  <2> QED
    BY <2>1 DEF Frame
<1> QED
  BY <1>1, <1>2, <1>3 DEF ClaimKept

LEMMA ClaimsSame ==
  ASSUME ClaimInv, UNCHANGED <<thread, claims, phase>>
  PROVE  ClaimInv'
  BY DEF ClaimInv, ClaimKept, Con, Claim

\* A thread that is at no conflict has nothing to keep.
LEMMA IdleKeeps ==
  ASSUME NEW p \in Proc, thread'[p].pc \notin OnConflict
  PROVE  ClaimKept(p)'
  BY DEF ClaimKept, OnConflict, Resolving

\* A thread that goes on under its claim.
LEMMA GotoKeeps ==
  ASSUME TypeInv, ClaimInv, NEW p \in Proc, NEW pc \in Resolving \cup {"release"}, Goto(p, pc),
         phase[p] = "run", thread[p].pc \in Resolving, UNCHANGED <<phase, claims>>
  PROVE  ClaimInv'
<1>1. ClaimKept(p)'
  BY GotoRow DEF ClaimInv, ClaimKept, OnConflict, Resolving, TypeInv
<1>2. Frame(p)
  BY GotoRow DEF Frame, TypeInv
<1> QED
  BY <1>1, <1>2, OthersKeep DEF ClaimInv

\* A thread that ends, with the claim that it has or had.
LEMMA DoneKeeps ==
  ASSUME TypeInv, ClaimInv, NEW p \in Proc, Done(p), UNCHANGED phase,
         \A c \in Conflict :
           \/ claims'[c] = claims[c] \/ claims[c] = NONE
           \/ claims[c].owner = p \/ phase[claims[c].owner] = "dead"
  PROVE  ClaimInv'
<1>1. thread'[p] = Idle /\ \A q \in Proc \ {p} : thread'[q] = thread[q]
  BY DoneTyped DEF TypeInv
<1>2. ClaimKept(p)'
  BY <1>1, IdleKeeps DEF Idle, OnConflict, Resolving
<1>3. Frame(p)
  BY <1>1 DEF Frame
<1> QED
  BY <1>2, <1>3, OthersKeep DEF ClaimInv

\* What the claim of a thread's conflict is, when the thread is at it.
LEMMA ClaimHeld ==
  ASSUME TypeInv, ClaimInv, NEW p \in Proc, NEW pc \in OnConflict, At(p, pc)
  PROVE  /\ Con(p) \in Conflict /\ Claim(p).owner = p
         /\ pc \in Resolving \cup {"apply"} => claims[Con(p)] = Claim(p)
  BY AtConflict DEF At, ClaimInv, ClaimKept

LEMMA ClaimResolve ==
  ASSUME TypeInv, ClaimInv, NEW p \in Proc, ResolveStep(p)
  PROVE  ClaimInv'
<1>1. CASE TakeClaim(p)
  <2>1. phase[p] = "run" /\ thread[p].pc = "claim" /\ Con(p) \in Conflict /\ Claim(p).owner = p
        /\ phase' = phase
    BY <1>1, ClaimHeld DEF TakeClaim, At, OnConflict
  <2>2. CASE claims' = claims /\ Done(p)
    BY <2>1, <2>2, DoneKeeps
  <2>3. CASE claims' = [claims EXCEPT ![Con(p)] = Claim(p)] /\ Goto(p, "check")
             /\ claims[Con(p)] = NONE
    <3>1. Frame(p)
      BY <2>1, <2>3, GotoRow DEF Frame, TypeInv, TablesTyped
    <3>2. claims'[Con(p)] = Claim(p)
      BY <2>1, <2>3 DEF TypeInv, TablesTyped
    <3>3. ClaimKept(p)'
      BY <2>1, <2>3, <3>2, GotoRow DEF ClaimKept, TypeInv
    <3> QED
      BY <3>1, <3>3, OthersKeep DEF ClaimInv
  <2> QED
    BY <1>1, <2>2, <2>3 DEF TakeClaim
<1>2. CASE Check(p)
  <2> DEFINE r == [thread[p] EXCEPT !.pc = "obsolete", !.verdict = "release"]
  <2>1. /\ phase[p] = "run" /\ thread[p].pc = "check" /\ Claim(p).owner = p
        /\ claims[Con(p)] = Claim(p) /\ UNCHANGED <<phase, claims>>
    BY <1>2, ClaimHeld DEF Check, At, OnConflict, Resolving, tables
  <2>2. CASE Goto(p, "release") \/ Goto(p, "guard")
    BY <2>1, <2>2, GotoKeeps DEF Resolving
  <2>3. CASE thread' = [thread EXCEPT ![p] = r]
    <3>1. r.pc = "obsolete" /\ r.con = Con(p) /\ r.claim = Claim(p)
      BY DEF TypeInv, ThreadsTyped, ThreadRow, Con, Claim
    <3> HIDE DEF r
    <3>2. Con(p)' = Con(p) /\ Claim(p)' = Claim(p) /\ thread'[p].pc = "obsolete"
          /\ \A q \in Proc \ {p} : thread'[q] = thread[q]
      BY <2>3, <3>1, ThreadSet DEF Con, Claim, TypeInv
    <3>3. ClaimKept(p)' /\ Frame(p)
      BY <2>1, <3>2 DEF ClaimKept, Frame
    <3> QED
      BY <3>3, OthersKeep DEF ClaimInv
  <2> QED
    BY <1>2, <2>2, <2>3 DEF Check, TypeInv, ThreadsTyped
<1>3. CASE Guard(p)
  BY <1>3, GotoKeeps DEF Guard, At, Resolving, tables
<1>4. CASE Rename(p)
  BY <1>4, GotoKeeps DEF Rename, At, Resolving, tables
<1>5. CASE Finish(p)
  <2>1. /\ phase[p] = "run" /\ thread[p].pc = "finish" /\ Con(p) \in Conflict
        /\ Claim(p).owner = p /\ claims[Con(p)] = Claim(p) /\ phase' = phase
    BY <1>5, ClaimHeld DEF Finish, At, OnConflict, Resolving
  <2>2. CASE Goto(p, "look") /\ UNCHANGED tables
    BY <2>1, <2>2, GotoKeeps DEF Resolving, tables
  <2>3. CASE Done(p) /\ Close(Con(p), "resolved")
    BY <2>1, <2>3, CloseRows, DoneKeeps DEF TypeInv, Final
  <2> QED
    BY <1>5, <2>2, <2>3 DEF Finish
<1>6. CASE MarkObsolete(p)
  <2>1. /\ phase[p] = "run" /\ thread[p].pc = "obsolete" /\ Con(p) \in Conflict
        /\ Claim(p).owner = p /\ claims[Con(p)] = Claim(p) /\ phase' = phase
    BY <1>6, ClaimHeld DEF MarkObsolete, At, OnConflict, Resolving
  <2>2. \A c \in Conflict : claims'[c] = claims[c] \/ claims[c].owner = p
    BY <1>6, <2>1, CloseRows DEF MarkObsolete, TypeInv, Final, tables
  <2>3. CASE Done(p)
    BY <2>1, <2>2, <2>3, DoneKeeps
  <2>4. CASE Goto(p, "release")
    <3>1. ClaimKept(p)' /\ Frame(p)
      BY <2>1, <2>2, <2>4, GotoRow DEF ClaimKept, Frame, TypeInv, Resolving
    <3> QED
      BY <3>1, OthersKeep DEF ClaimInv
  <2> QED
    BY <1>6, <2>3, <2>4 DEF MarkObsolete
<1>7. CASE Release(p)
  <2>1. \A c \in Conflict : claims'[c] = claims[c] \/ claims[c].owner = p
    BY <1>7 DEF Release, Unclaimed, TypeInv, TablesTyped
  <2> QED
    BY <1>7, <2>1, DoneKeeps DEF Release
<1>8. CASE Look(p)
  <2> DEFINE r == [thread[p] EXCEPT !.pc = "apply", !.verdict = Verdict(Claim(p))]
  <2>1. /\ phase[p] = "run" /\ thread[p].pc = "look" /\ Claim(p).owner = p
        /\ claims[Con(p)] = Claim(p) /\ UNCHANGED <<phase, claims>>
    BY <1>8, ClaimHeld DEF Look, At, OnConflict, Resolving, tables
  <2>2. CASE Done(p)
    BY <2>1, <2>2, DoneKeeps
  <2>3. CASE thread' = [thread EXCEPT ![p] = r]
    <3>1. r.pc = "apply" /\ r.con = Con(p) /\ r.claim = Claim(p)
      BY DEF TypeInv, ThreadsTyped, ThreadRow, Con, Claim
    <3> HIDE DEF r
    <3>2. Con(p)' = Con(p) /\ Claim(p)' = Claim(p) /\ thread'[p].pc = "apply"
          /\ \A q \in Proc \ {p} : thread'[q] = thread[q]
      BY <2>3, <3>1, ThreadSet DEF Con, Claim, TypeInv
    <3>3. ClaimKept(p)' /\ Frame(p)
      BY <2>1, <3>2 DEF ClaimKept, Frame
    <3> QED
      BY <3>3, OthersKeep DEF ClaimInv
  <2> QED
    BY <1>8, <2>2, <2>3 DEF Look, TypeInv, ThreadsTyped
<1>9. CASE ApplyOwn(p)
  <2>1. Con(p) \in Conflict /\ Claim(p).owner = p /\ claims[Con(p)] = Claim(p)
        /\ thread[p].verdict \in Verdicts /\ phase' = phase /\ Done(p)
    BY <1>9, ClaimHeld DEF ApplyOwn, At, OnConflict, TypeInv, ThreadsTyped, ThreadFits
  <2>2. \A c \in Conflict : claims'[c] = claims[c] \/ claims[c].owner = p
    BY <1>9, <2>1, ApplyRows DEF ApplyOwn, TypeInv, tables
  <2> QED
    BY <2>1, <2>2, DoneKeeps
<1> QED
  BY <1>1, <1>2, <1>3, <1>4, <1>5, <1>6, <1>7, <1>8, <1>9 DEF ResolveStep

LEMMA ClaimFiles ==
  ASSUME TypeInv, ClaimInv, NEW p \in Proc,
         \/ SeeDestination(p) \/ Ask(p)
         \/ \E x \in Place : TakeEvent(p, x)
         \/ \E n \in Name : TakeStable(p, n)
  PROVE  ClaimInv'
<1>1. CASE SeeDestination(p)
  <2>1. \A q \in Proc \ {p} : thread'[q] = thread[q]
    BY <1>1 DEF SeeDestination, TypeInv, ThreadsTyped
  <2>2. thread'[p].pc = "register"
    BY <1>1 DEF SeeDestination, TypeInv, ThreadsTyped, ThreadRow
  <2>3. ClaimKept(p)' /\ Frame(p)
    BY <1>1, <2>1, <2>2, IdleKeeps DEF SeeDestination, Frame, OnConflict, Resolving, tables
  <2> QED
    BY <2>3, OthersKeep DEF ClaimInv
<1>2. CASE Ask(p)
  BY <1>2, DoneKeeps DEF Ask
<1>3. CASE \E x \in Place : TakeEvent(p, x)
  BY <1>3, ClaimsSame DEF TakeEvent, tables
<1>4. ASSUME NEW n \in Name, TakeStable(p, n) PROVE ClaimInv'
  <2> DEFINE r == [Idle EXCEPT !.pc = "occupied", !.name = n, !.snap = Source(n)]
  <2>1. UNCHANGED <<claims, phase>>
    BY <1>4 DEF TakeStable, tables
  <2>2. CASE thread' = thread
    BY <2>1, <2>2, ClaimsSame
  <2>3. CASE thread' = [thread EXCEPT ![p] = r]
    <3>1. r.pc = "occupied"
      BY DEF Idle
    <3> HIDE DEF r
    <3>2. ClaimKept(p)' /\ Frame(p)
      BY <2>1, <2>3, <3>1, ThreadSet, IdleKeeps DEF Frame, OnConflict, Resolving, TypeInv
    <3> QED
      BY <3>2, OthersKeep DEF ClaimInv
  <2> QED
    BY <1>4, <2>2, <2>3 DEF TakeStable
<1> QED
  BY <1>1, <1>2, <1>3, <1>4

LEMMA ClaimCommand ==
  ASSUME TypeInv, ClaimInv, NEW p \in Proc, NEW c \in Conflict,
         Cancel(p, c) \/ \E f \in Folder, t \in Name : Resolve(p, c, f, t)
  PROVE  ClaimInv'
<1>1. CASE Cancel(p, c)
  <2>1. claims' = claims
    BY <1>1, CloseRows DEF Cancel, TypeInv, TablesTyped, Final, tables
  <2> QED
    BY <1>1, <2>1, ClaimsSame DEF Cancel
<1>2. ASSUME NEW f \in Folder, NEW t \in Name, Resolve(p, c, f, t)
      PROVE  ClaimInv'
  <2> DEFINE row == conflicts[c]
             k == [owner |-> p, at |-> <<f, row.name>>, to |-> t,
                   snap |-> IF f = "source" THEN row.snap ELSE row.home]
             r == [Idle EXCEPT !.pc = "claim", !.name = row.name, !.snap = row.snap,
                               !.home = row.home, !.con = c, !.claim = k]
  <2>1. r.pc = "claim" /\ r.claim.owner = p
    BY DEF Idle
  <2>2. thread' = [thread EXCEPT ![p] = r] /\ phase[p] = "run" /\ UNCHANGED <<claims, phase>>
    BY <1>2 DEF Resolve, Command, Free, tables
  <2> HIDE DEF r
  <2>3. thread'[p] = r /\ \A q \in Proc \ {p} : thread'[q] = thread[q]
    BY <2>2, ThreadSet DEF TypeInv
  <2>4. ClaimKept(p)' /\ Frame(p)
    BY <2>1, <2>2, <2>3 DEF ClaimKept, Frame, Claim, OnConflict, Resolving
  <2> QED
    BY <2>4, OthersKeep DEF ClaimInv
<1> QED
  BY <1>1, <1>2

LEMMA ClaimStart ==
  ASSUME TypeInv, ClaimInv, NEW p \in Proc,
         Start(p) \/ ApplyRow(p) \/ Begin(p) \/ \E c \in Conflict : LookAtRow(p, c)
  PROVE  ClaimInv'
<1>1. CASE Start(p)
  <2>1. thread[p].pc = "idle" /\ UNCHANGED <<thread, claims>>
        /\ \A q \in Proc \ {p} : phase'[q] = phase[q]
    BY <1>1 DEF Start, TypeInv, ThreadsTyped, ThreadFits, ProcsTyped, tables
  <2>2. phase[p] = "new"
    BY <1>1 DEF Start
  <2>3. ClaimKept(p)' /\ Frame(p)
    BY <2>1, <2>2, IdleKeeps DEF Frame, OnConflict, Resolving
  <2> QED
    BY <2>3, OthersKeep DEF ClaimInv
<1>2. CASE ApplyRow(p)
  <2>1. /\ Con(p) \in Conflict /\ thread[p].verdict \in Verdicts /\ phase' = phase /\ Done(p)
        /\ phase[Claim(p).owner] = "dead"
        /\ UNCHANGED tables \/ Apply(Con(p), Claim(p).owner, thread[p].verdict)
    BY <1>2, AtTyped DEF ApplyRow, ClaimInv, ClaimKept, OnConflict, TypeInv, ThreadsTyped, ThreadFits
  <2>2. \A c \in Conflict : claims'[c] = claims[c] \/ phase[claims[c].owner] = "dead"
    BY <2>1, ApplyRows DEF TypeInv, tables
  <2> QED
    BY <2>1, <2>2, DoneKeeps
<1>3. CASE Begin(p)
  <2>1. thread[p] = Idle /\ UNCHANGED <<thread, claims>> /\ phase[p] = "start"
        /\ \A q \in Proc \ {p} : phase'[q] = phase[q]
    BY <1>3 DEF Begin, TypeInv, ProcsTyped
  <2>2. ClaimKept(p)' /\ Frame(p)
    BY <2>1, IdleKeeps DEF Frame, OnConflict, Resolving, Idle
  <2> QED
    BY <2>2, OthersKeep DEF ClaimInv
<1>4. ASSUME NEW c \in Conflict, LookAtRow(p, c) PROVE ClaimInv'
  <2> DEFINE k == listed[p][c]
             r == [Idle EXCEPT !.pc = "apply", !.con = c, !.claim = k, !.verdict = Verdict(k)]
  <2>1. UNCHANGED <<claims, phase>> /\ phase[p] = "start"
    BY <1>4 DEF LookAtRow, tables
  <2>2. CASE thread' = thread
    BY <2>1, <2>2, ClaimsSame
  <2>3. CASE thread' = [thread EXCEPT ![p] = r] /\ phase[k.owner] = "dead"
    <3>1. r.pc = "apply" /\ r.claim = k
      BY DEF Idle
    <3> HIDE DEF r, k
    <3>2. thread'[p] = r /\ \A q \in Proc \ {p} : thread'[q] = thread[q]
      BY <2>3, ThreadSet DEF TypeInv
    <3>3. ClaimKept(p)' /\ Frame(p)
      BY <2>1, <2>3, <3>1, <3>2 DEF ClaimKept, Frame, Claim
    <3> QED
      BY <3>3, OthersKeep DEF ClaimInv
  <2> QED
    BY <1>4, <2>2, <2>3 DEF LookAtRow
<1> QED
  BY <1>1, <1>2, <1>3, <1>4

LEMMA ClaimStep == TypeInv /\ ClaimInv /\ [Next]_vars => ClaimInv'
<1> SUFFICES ASSUME TypeInv, ClaimInv, [Next]_vars PROVE ClaimInv'
  OBVIOUS
<1>1. ASSUME NEW x \in Place, UserWrite(x) \/ UserDelete(x) \/ \E y \in Place : UserMove(x, y)
      PROVE  ClaimInv'
  BY <1>1, ClaimsSame DEF UserWrite, UserDelete, UserMove, tables
<1>2. CASE User
  BY <1>1, <1>2, ClaimCommand DEF User
<1>3. ASSUME NEW p \in Proc, ThreadStep(p) PROVE ClaimInv'
  BY <1>3, ClaimFiles, ClaimResolve DEF ThreadStep
<1>4. ASSUME NEW p \in Proc, StartStep(p) PROVE ClaimInv'
  BY <1>4, ClaimStart DEF StartStep
<1>5. ASSUME NEW p \in Proc, WorkerStep(p) PROVE ClaimInv'
  BY <1>5, ClaimsSame DEF WorkerStep, TakeMove, SeeCollision, AskInstead, Move, CloseMove, tables
<1>6. ASSUME NEW p \in Proc, Crash(p) PROVE ClaimInv'
  <2>1. thread'[p] = Idle /\ claims' = claims /\ phase'[p] = "dead"
        /\ \A q \in Proc \ {p} : thread'[q] = thread[q] /\ phase'[q] = phase[q]
    BY <1>6 DEF Crash, TypeInv, ThreadsTyped, ProcsTyped, tables
  <2>2. ClaimKept(p)' /\ Frame(p)
    BY <2>1, IdleKeeps DEF Frame, OnConflict, Resolving, Idle
  <2> QED
    BY <2>2, OthersKeep DEF ClaimInv
<1>7. CASE UNCHANGED vars
  BY <1>7, ClaimsSame DEF vars, tables
<1> QED
  BY <1>2, <1>3, <1>4, <1>5, <1>6, <1>7 DEF Next

LEMMA ClaimTypes == Spec => [](TypeInv /\ ClaimInv)
<1>1. Init => ClaimInv
  BY DEF Init, ClaimInv, ClaimKept, Idle, Resolving, OnConflict
<1> QED
  BY <1>1, ClaimStep, ConflictsTypes, PTL DEF Spec

\* One thread at a time works on the files of a conflict: the one that its claim names.
THEOREM ConflictsOneResolver == Spec => []OneResolver
<1>1. ClaimInv => OneResolver
  BY DEF ClaimInv, ClaimKept, OneResolver
<1> QED
  BY <1>1, ClaimTypes, PTL

----------------------------------------------------------------------------
(* The row tells what has become of the rename.                            *)

\* The file is where the resolution put it.
So(c) == placed[c] # NONE /\ placed[c].still /\ placed[c].ours

\* The ghost follows the disk: what is still there is there, and a claimed file that
\* has got to its new name was noticed.
RowFollows(c) ==
  /\ placed[c] # NONE /\ placed[c].still => disk[placed[c].at] = placed[c].snap
  /\ claims[c] # NONE /\ disk[Target(claims[c])] = claims[c].snap => placed[c] # NONE

RowKept(c) ==
  /\ RowFollows(c)
  /\ claims[c] # NONE => conflicts[c].status \notin {"none", "cancelled"}
  /\ conflicts[c].status = "pending" /\ claims[c] # NONE /\ So(c)
       => placed[c].at = Target(claims[c]) /\ placed[c].snap = claims[c].snap
  /\ conflicts[c].status = "resolved" => placed[c] # NONE
  /\ So(c) => \/ conflicts[c].status \in {"resolved", "obsolete"}
              \/ conflicts[c].status = "pending" /\ claims[c] # NONE

\* Before the rename, and after a look that has found it undone, a thread knows of an
\* open row that its file is not at the new name.
Unmoved(p) ==
  \/ thread[p].pc \in {"check", "guard", "rename", "obsolete", "release"}
  \/ thread[p].pc = "apply" /\ thread[p].verdict = "free"

ThreadKept(p) ==
  /\ phase[p] = "run" /\ thread[p].pc \in OnConflict => conflicts[Con(p)].status # "none"
  /\ phase[p] = "run" /\ Unmoved(p) /\ conflicts[Con(p)].status = "pending" => ~So(Con(p))
  /\ phase[p] = "run" /\ thread[p].pc = "release" /\ conflicts[Con(p)].status = "pending"
       => claims[Con(p)] = Claim(p)
  /\ phase[p] = "start" /\ Unmoved(p) /\ conflicts[Con(p)].status = "pending"
       /\ claims[Con(p)] = Claim(p) => ~So(Con(p))
  /\ thread[p].pc = "finish" \/ (thread[p].pc = "apply" /\ thread[p].verdict = "resolved")
       => placed[Con(p)] # NONE

RecordInv == /\ \A c \in Conflict : RowKept(c)
             /\ \A p \in Proc : ThreadKept(p)

\* No resolution has put a file anywhere.
Fades(c) == /\ placed[c] # NONE => placed'[c] # NONE
            /\ So(c)' => So(c) /\ placed'[c] = placed[c]

\* What a step does to a row and its claim.
Change(c) ==
  \/ conflicts'[c] = conflicts[c] /\ claims'[c] = claims[c]
  \/ /\ RowClosed(c) /\ conflicts'[c].status # "cancelled" /\ claims'[c] \in {claims[c], NONE}
     /\ conflicts'[c].status = "resolved" => placed[c] # NONE
  \/ RowClosed(c) /\ conflicts'[c].status = "cancelled" /\ claims[c] = NONE /\ claims'[c] = NONE
  \/ RowOpened(c) /\ claims'[c] = claims[c]
  \/ /\ conflicts'[c] = conflicts[c] /\ conflicts[c].status = "pending"
     /\ claims[c] = NONE
  \/ /\ conflicts'[c] = conflicts[c] /\ claims'[c] = NONE
     /\ conflicts[c].status = "pending" => ~So(c)'

LEMMA RowChanges ==
  ASSUME TypeInv, TypeInv', NEW c \in Conflict, RowKept(c), Fades(c), RowFollows(c)', Change(c)
  PROVE  RowKept(c)'
<1>1. CASE conflicts'[c] = conflicts[c] /\ claims'[c] = claims[c]
  BY <1>1 DEF RowKept, Fades
<1>2. CASE /\ RowClosed(c) /\ conflicts'[c].status # "cancelled" /\ claims'[c] \in {claims[c], NONE}
           /\ conflicts'[c].status = "resolved" => placed[c] # NONE
  BY <1>2 DEF RowKept, Fades, RowClosed, Final
<1>3. CASE RowClosed(c) /\ conflicts'[c].status = "cancelled" /\ claims[c] = NONE /\ claims'[c] = NONE
  BY <1>3 DEF RowKept, Fades, RowClosed, Final
<1>4. CASE RowOpened(c) /\ claims'[c] = claims[c]
  BY <1>4 DEF RowKept, Fades, RowOpened
<1>5. CASE /\ conflicts'[c] = conflicts[c] /\ conflicts[c].status = "pending"
           /\ claims[c] = NONE
  BY <1>5 DEF RowKept, Fades
<1>6. CASE /\ conflicts'[c] = conflicts[c] /\ claims'[c] = NONE
           /\ conflicts[c].status = "pending" => ~So(c)'
  BY <1>6 DEF RowKept, Fades
<1> QED
  BY <1>1, <1>2, <1>3, <1>4, <1>5, <1>6 DEF Change

\* What Track makes of the ghost.
LEMMA TrackFollows ==
  ASSUME TypeInv, NEW k \in [Conflict -> ClaimRow \cup {NONE}], NEW by,
         disk' \in [Place -> Snap \cup {NONE}], placed' = Track(disk', k, by), NEW c \in Conflict
  PROVE  /\ placed[c] # NONE => placed'[c] # NONE
         /\ placed'[c] # NONE /\ placed'[c].still => disk'[placed'[c].at] = placed'[c].snap
         /\ k[c] # NONE /\ disk'[Target(k[c])] = k[c].snap => placed'[c] # NONE
         /\ So(c)' => \/ So(c) /\ placed'[c] = placed[c]
                      \/ /\ c = by /\ k[c] # NONE
                         /\ placed'[c].at = Target(k[c]) /\ placed'[c].snap = k[c].snap
<1>1. LET t == placed'[c]
      IN \/ /\ placed[c] # NONE /\ placed[c].still /\ disk'[placed[c].at] = placed[c].snap
            /\ t = placed[c]
         \/ /\ ~(placed[c] # NONE /\ placed[c].still /\ disk'[placed[c].at] = placed[c].snap)
            /\ k[c] # NONE /\ disk'[Target(k[c])] = k[c].snap
            /\ t # NONE /\ t.at = Target(k[c]) /\ t.snap = k[c].snap /\ t.still
            /\ t.ours = (c = by)
         \/ /\ ~(placed[c] # NONE /\ placed[c].still /\ disk'[placed[c].at] = placed[c].snap)
            /\ ~(k[c] # NONE /\ disk'[Target(k[c])] = k[c].snap)
            /\ placed[c] = NONE /\ t = NONE
         \/ /\ ~(placed[c] # NONE /\ placed[c].still /\ disk'[placed[c].at] = placed[c].snap)
            /\ ~(k[c] # NONE /\ disk'[Target(k[c])] = k[c].snap)
            /\ placed[c] # NONE /\ t # NONE /\ ~t.still
  BY TrackFacts DEF TypeInv
<1> QED
  BY <1>1 DEF So

\* What happens to the files without a resolution.
LEMMA TrackFades ==
  ASSUME TypeInv, disk' \in [Place -> Snap \cup {NONE}],
         claims' \in [Conflict -> ClaimRow \cup {NONE}], placed' = Track(disk', claims', NONE)
  PROVE  \A c \in Conflict : Fades(c) /\ RowFollows(c)'
<1>1. \A c \in Conflict : c # NONE
  BY Apart
<1> QED
  BY <1>1, TrackFollows DEF Fades, RowFollows

\* Nothing happens to the files.
LEMMA FilesStay ==
  ASSUME RecordInv, UNCHANGED <<disk, placed>>,
         \A c \in Conflict : claims'[c] \in {claims[c], NONE}
  PROVE  \A c \in Conflict : Fades(c) /\ RowFollows(c)'
  BY DEF RecordInv, RowKept, RowFollows, Fades, So

LEMMA TablesStay ==
  ASSUME UNCHANGED tables
  PROVE  \A c \in Conflict : Change(c) /\ claims'[c] \in {claims[c], NONE}
  BY DEF tables, Change

\* A row that is open was open before.
LEMMA ChangeOpen ==
  ASSUME NEW c \in Conflict, Change(c), conflicts[c].status # "none"
  PROVE  /\ conflicts'[c].status # "none"
         /\ conflicts'[c].status = "pending" => conflicts[c].status = "pending"
  BY DEF Change, RowClosed, RowOpened, Final

\* Steps that leave the threads and the claims.
LEMMA RecordStays ==
  ASSUME TypeInv, TypeInv', RecordInv, UNCHANGED <<thread, phase, claims>>,
         \A c \in Conflict : Change(c) /\ Fades(c) /\ RowFollows(c)'
  PROVE  RecordInv'
<1>1. \A c \in Conflict : RowKept(c)'
  BY RowChanges DEF RecordInv
<1>2. ASSUME NEW p \in Proc PROVE ThreadKept(p)'
  <2>1. ThreadKept(p) /\ Con(p)' = Con(p) /\ Claim(p)' = Claim(p) /\ Unmoved(p)' = Unmoved(p)
        /\ thread'[p] = thread[p]
    BY DEF RecordInv, Con, Claim, Unmoved
  <2>2. CASE thread[p].pc \notin OnConflict
    BY <2>1, <2>2 DEF ThreadKept, Unmoved, OnConflict, Resolving
  <2>3. CASE thread[p].pc \in OnConflict
    <3>1. Con(p) \in Conflict /\ RowKept(Con(p)) /\ (thread[p].pc # "claim" => Claim(p) \in ClaimRow)
      BY <2>3, AtTyped DEF RecordInv, TypeInv
    <3>2. claims[Con(p)] = Claim(p) /\ thread[p].pc # "claim" => conflicts[Con(p)].status # "none"
      BY <3>1, Apart DEF RowKept
    <3>3. Change(Con(p)) /\ Fades(Con(p)) /\ claims'[Con(p)] = claims[Con(p)]
      BY <3>1
    <3>4. So(Con(p))' => So(Con(p))
      BY <2>1, <3>3 DEF Fades, So
    <3>5. conflicts[Con(p)].status # "none" =>
            /\ conflicts'[Con(p)].status # "none"
            /\ conflicts'[Con(p)].status = "pending" => conflicts[Con(p)].status = "pending"
      BY <3>1, <3>3, ChangeOpen
    <3>6. phase[p] = "run" => conflicts[Con(p)].status # "none"
      BY <2>1, <2>3 DEF ThreadKept
    <3>7. phase[p] = "start" => thread[p].pc # "claim"
      BY <2>3 DEF TypeInv, ThreadsTyped, ThreadFits
    <3>8. placed[Con(p)] # NONE => placed'[Con(p)] # NONE
      BY <3>3 DEF Fades
    <3> QED
      BY <2>1, <3>2, <3>3, <3>4, <3>5, <3>6, <3>7, <3>8 DEF ThreadKept
  <2> QED
    BY <2>2, <2>3
<1> QED
  BY <1>1, <1>2 DEF RecordInv

\* What a step of one process leaves of what the others know.
LEMMA OthersKnow ==
  ASSUME TypeInv, ClaimInv, RecordInv, NEW p \in Proc, Frame(p),
         \A c \in Conflict :
           /\ Change(c)
           /\ placed[c] # NONE => placed'[c] # NONE
           /\ So(c)' => \/ So(c)
                        \/ claims[c] # NONE /\ claims[c].owner = p /\ phase[p] = "run"
           /\ \/ claims'[c] \in {claims[c], NONE}
              \/ claims'[c].owner = p /\ phase[p] = "run"
  PROVE  \A q \in Proc \ {p} : ThreadKept(q)'
<1> SUFFICES ASSUME NEW q \in Proc \ {p} PROVE ThreadKept(q)'
  OBVIOUS
<1>1. ThreadKept(q) /\ ClaimKept(q) /\ Con(q)' = Con(q) /\ Claim(q)' = Claim(q)
      /\ Unmoved(q)' = Unmoved(q) /\ thread'[q] = thread[q] /\ phase'[q] = phase[q]
  BY DEF RecordInv, ClaimInv, Frame, Con, Claim, Unmoved
<1>2. CASE thread[q].pc \notin OnConflict
  BY <1>1, <1>2 DEF ThreadKept, Unmoved, OnConflict, Resolving
<1>3. CASE thread[q].pc \in OnConflict
  <2> DEFINE c == Con(q)
  <2>1. c \in Conflict /\ RowKept(c) /\ (thread[q].pc # "claim" => Claim(q) \in ClaimRow)
    BY <1>3, AtTyped DEF RecordInv, TypeInv
  <2>2. phase[q] = "run" => conflicts'[c].status # "none"
    BY <1>1, <1>3, <2>1, ChangeOpen DEF ThreadKept
  <2>3. ASSUME phase[q] = "run", Unmoved(q), conflicts'[c].status = "pending"
        PROVE  ~So(c)'
    <3>1. conflicts[c].status = "pending" /\ ~So(c)
      BY <1>1, <1>3, <2>1, <2>3, ChangeOpen DEF ThreadKept
    <3>2. claims[c] = Claim(q) /\ Claim(q).owner = q
      BY <1>1, <1>3, <2>3, <3>1 DEF ThreadKept, ClaimKept, Unmoved, Resolving
    <3> QED
      BY <1>1, <2>1, <3>1, <3>2 DEF So
  <2>4. ASSUME phase[q] = "run", thread[q].pc = "release", conflicts'[c].status = "pending"
        PROVE  claims'[c] = Claim(q)
    <3>1. claims[c] = Claim(q) /\ Claim(q).owner = q /\ Claim(q) # NONE
      BY <1>1, <1>3, <2>1, <2>4, ChangeOpen, Apart DEF ThreadKept, ClaimKept
    <3> QED
      BY <2>1, <2>4, <3>1 DEF Frame
  <2>5. ASSUME phase[q] = "start", Unmoved(q), conflicts'[c].status = "pending",
               claims'[c] = Claim(q)
        PROVE  ~So(c)'
    <3>1. thread[q].pc = "apply"
      BY <1>3, <2>5 DEF TypeInv, ThreadsTyped, ThreadFits, OnConflict, Resolving
    <3>2. phase[Claim(q).owner] = "dead" /\ Claim(q) # NONE
      BY <1>1, <2>1, <2>5, <3>1, Apart DEF ClaimKept
    <3>3. claims[c] = Claim(q)
      BY <2>1, <2>5, <3>2
    <3>4. conflicts[c].status = "pending" /\ ~So(c)
      BY <1>1, <2>1, <2>5, <3>2, <3>3, ChangeOpen DEF ThreadKept, RowKept
    <3> QED
      BY <1>1, <2>1, <3>2, <3>3, <3>4 DEF So
  <2> HIDE DEF c
  <2> QED
    BY <1>1, <2>1, <2>2, <2>3, <2>4, <2>5 DEF ThreadKept, c
<1> QED
  BY <1>2, <1>3

\* Steps of one process that put no file anywhere.
LEMMA RecordMoves ==
  ASSUME TypeInv, TypeInv', ClaimInv, RecordInv, NEW p \in Proc, Frame(p), ThreadKept(p)',
         \A c \in Conflict : /\ Change(c) /\ Fades(c) /\ RowFollows(c)'
                             /\ \/ claims'[c] \in {claims[c], NONE}
                                \/ claims'[c].owner = p /\ phase[p] = "run"
  PROVE  RecordInv'
<1>1. \A c \in Conflict : RowKept(c)'
  BY RowChanges DEF RecordInv
<1>2. \A c \in Conflict : (placed[c] # NONE => placed'[c] # NONE) /\ (So(c)' => So(c))
  BY DEF Fades
<1>3. \A q \in Proc \ {p} : ThreadKept(q)'
  BY <1>2, OthersKnow
<1> QED
  BY <1>1, <1>3 DEF RecordInv

LEMMA IdleKnows ==
  ASSUME NEW p \in Proc, thread'[p].pc \notin OnConflict
  PROVE  ThreadKept(p)'
  BY DEF ThreadKept, Unmoved, OnConflict, Resolving

LEMMA DoneFrame ==
  ASSUME TypeInv, NEW p \in Proc, Done(p), UNCHANGED phase,
         \A c \in Conflict :
           \/ claims'[c] = claims[c] \/ claims[c] = NONE
           \/ claims[c].owner = p \/ phase[claims[c].owner] = "dead"
  PROVE  Frame(p) /\ thread'[p] = Idle /\ ThreadKept(p)'
<1>1. thread'[p] = Idle /\ \A q \in Proc \ {p} : thread'[q] = thread[q]
  BY DoneTyped DEF TypeInv
<1> QED
  BY <1>1, IdleKnows DEF Frame, Idle, OnConflict, Resolving

LEMMA GotoFrame ==
  ASSUME TypeInv, NEW p \in Proc, NEW pc, Goto(p, pc), UNCHANGED phase,
         \A c \in Conflict :
           \/ claims'[c] = claims[c] \/ claims[c] = NONE
           \/ claims[c].owner = p \/ phase[claims[c].owner] = "dead"
  PROVE  /\ Frame(p) /\ thread'[p].pc = pc /\ thread'[p].verdict = thread[p].verdict
         /\ Con(p)' = Con(p) /\ Claim(p)' = Claim(p)
  BY GotoRow DEF Frame, TypeInv

\* Rows that are given up or opened, whose claims stay.
LEMMA GivenUp ==
  ASSUME TypeInv, NEW n, conflicts' = WithoutPending(n), UNCHANGED claims
  PROVE  \A c \in Conflict : Change(c)
<1>1. ASSUME NEW c \in Conflict PROVE Change(c)
  <2>1. CASE conflicts[c].status = "pending" /\ conflicts[c].name = n
    BY <2>1, WithoutPendingRows DEF Change, RowClosed, Final, TypeInv
  <2>2. CASE ~(conflicts[c].status = "pending" /\ conflicts[c].name = n)
    BY <2>2, WithoutPendingRows DEF Change, TypeInv
  <2> QED
    BY <2>1, <2>2
<1> QED
  BY <1>1

LEMMA Registered ==
  ASSUME TypeInv, NEW n \in Name, NEW snap \in Snap \cup {NONE}, NEW home \in Snap \cup {NONE},
         Register(n, snap, home), UNCHANGED claims
  PROVE  \A c \in Conflict : Change(c)
<1>1. CASE conflicts' = conflicts
  BY <1>1 DEF Change
<1>2. CASE conflicts' = WithoutPending(n)
  BY <1>2, GivenUp
<1>3. ASSUME NEW o \in Conflict, conflicts[o].status = "none",
             conflicts'[o] = [status |-> "pending", name |-> n, snap |-> snap, home |-> home],
             \A q \in Conflict \ {o} : conflicts'[q] = WithoutPending(n)[q]
      PROVE  \A c \in Conflict : Change(c)
  <2>1. Change(o)
    BY <1>3 DEF Change, RowOpened
  <2>2. ASSUME NEW c \in Conflict \ {o} PROVE Change(c)
    <3>1. CASE conflicts[c].status = "pending" /\ conflicts[c].name = n
      BY <1>3, <3>1, WithoutPendingRows DEF Change, RowClosed, Final, TypeInv
    <3>2. CASE ~(conflicts[c].status = "pending" /\ conflicts[c].name = n)
      BY <1>3, <3>2, WithoutPendingRows DEF Change, TypeInv
    <3> QED
      BY <3>1, <3>2
  <2> QED
    BY <2>1, <2>2
<1> QED
  BY <1>1, <1>2, <1>3, RegisterRows DEF TypeInv

LEMMA RecordUser ==
  ASSUME TypeInv, TypeInv', RecordInv, NEW x \in Place,
         UserWrite(x) \/ UserDelete(x) \/ \E y \in Place : UserMove(x, y)
  PROVE  RecordInv'
<1>1. UNCHANGED <<tables, thread, phase>> /\ placed' = Track(disk', claims, NONE)
  BY DEF UserWrite, UserDelete, UserMove, DiskBecomes
<1>2. \A c \in Conflict : Fades(c) /\ RowFollows(c)'
  BY <1>1, TrackFades DEF TypeInv, FilesTyped, TablesTyped, tables
<1> QED
  BY <1>1, <1>2, TablesStay, RecordStays DEF tables

LEMMA RecordWorker ==
  ASSUME TypeInv, TypeInv', RecordInv, NEW p \in Proc, WorkerStep(p)
  PROVE  RecordInv'
<1> PICK n \in Name : TakeMove(p, n) \/ SeeCollision(p, n) \/ AskInstead(p, n) \/ Move(p, n)
                        \/ CloseMove(p, n)
  BY DEF WorkerStep
<1>1. UNCHANGED <<thread, phase, claims>>
  BY DEF TakeMove, SeeCollision, AskInstead, Move, CloseMove, tables
<1>2. \A c \in Conflict : Fades(c) /\ RowFollows(c)'
  <2>1. CASE UNCHANGED <<disk, placed>>
    BY <1>1, <2>1, FilesStay
  <2>2. CASE placed' = Track(disk', claims, NONE)
    BY <1>1, <2>2, TrackFades DEF TypeInv, FilesTyped, TablesTyped
  <2> QED
    BY <2>1, <2>2 DEF TakeMove, SeeCollision, AskInstead, Move, CloseMove, DiskBecomes
<1>3. \A c \in Conflict : Change(c)
  <2>1. CASE conflicts' = conflicts
    BY <1>1, <2>1 DEF Change
  <2>2. CASE AskInstead(p, n)
    <3>1. moves[p][n].snap \in Snap \cup {NONE} /\ moves[p][n].home \in Snap \cup {NONE}
      BY DEF TypeInv, ProcsTyped, MoveRow
    <3> QED
      BY <1>1, <2>1, <2>2, <3>1, Registered DEF AskInstead
  <2>3. CASE CloseMove(p, n)
    BY <1>1, <2>1, <2>3, GivenUp DEF CloseMove
  <2> QED
    BY <2>1, <2>2, <2>3 DEF TakeMove, SeeCollision, Move, tables
<1> QED
  BY <1>1, <1>2, <1>3, RecordStays

LEMMA RecordFiles ==
  ASSUME TypeInv, TypeInv', ClaimInv, RecordInv, NEW p \in Proc,
         \/ SeeDestination(p) \/ Ask(p)
         \/ \E x \in Place : TakeEvent(p, x)
         \/ \E n \in Name : TakeStable(p, n)
  PROVE  RecordInv'
<1>1. UNCHANGED <<claims, phase, disk, placed>>
  BY DEF SeeDestination, Ask, TakeEvent, TakeStable, tables
<1>2. \A c \in Conflict : /\ Fades(c) /\ RowFollows(c)'
                          /\ claims'[c] \in {claims[c], NONE}
  BY <1>1, FilesStay
<1>3. CASE SeeDestination(p)
  <2>1. thread'[p].pc = "register" /\ \A q \in Proc \ {p} : thread'[q] = thread[q]
    BY <1>3 DEF SeeDestination, TypeInv, ThreadsTyped, ThreadRow
  <2>2. Frame(p) /\ ThreadKept(p)'
    BY <1>1, <2>1, IdleKnows DEF Frame, OnConflict, Resolving
  <2>3. \A c \in Conflict : Change(c)
    BY <1>3, TablesStay DEF SeeDestination
  <2> QED
    BY <1>2, <2>2, <2>3, RecordMoves
<1>4. CASE Ask(p)
  <2>1. thread[p] \in ThreadRow /\ thread[p].name \in Name
    BY <1>4 DEF Ask, At, TypeInv, ThreadsTyped, ThreadFits
  <2>2. thread[p].snap \in Snap \cup {NONE} /\ thread[p].home \in Snap \cup {NONE}
    BY <2>1 DEF ThreadRow
  <2>3. \A c \in Conflict : Change(c)
    BY <1>1, <1>4, <2>1, <2>2, Registered, TablesStay DEF Ask, tables
  <2>4. Frame(p) /\ ThreadKept(p)'
    BY <1>1, <1>4, DoneFrame DEF Ask
  <2> QED
    BY <1>2, <2>3, <2>4, RecordMoves
<1>5. CASE \E x \in Place : TakeEvent(p, x)
  BY <1>1, <1>2, <1>5, TablesStay, RecordStays DEF TakeEvent
<1>6. ASSUME NEW n \in Name, TakeStable(p, n) PROVE RecordInv'
  <2> DEFINE r == [Idle EXCEPT !.pc = "occupied", !.name = n, !.snap = Source(n)]
  <2>1. \A c \in Conflict : Change(c)
    BY <1>6, TablesStay DEF TakeStable
  <2>2. CASE thread' = thread
    BY <1>1, <1>2, <2>1, <2>2, RecordStays
  <2>3. CASE thread' = [thread EXCEPT ![p] = r]
    <3>1. r.pc = "occupied"
      BY DEF Idle
    <3> HIDE DEF r
    <3>2. Frame(p) /\ ThreadKept(p)'
      BY <1>1, <2>3, <3>1, ThreadSet, IdleKnows DEF Frame, OnConflict, Resolving, TypeInv
    <3> QED
      BY <1>2, <2>1, <3>2, RecordMoves
  <2> QED
    BY <1>6, <2>2, <2>3 DEF TakeStable
<1> QED
  BY <1>3, <1>4, <1>5, <1>6

LEMMA RecordCommand ==
  ASSUME TypeInv, TypeInv', ClaimInv, RecordInv, NEW p \in Proc, NEW c \in Conflict,
         Cancel(p, c) \/ \E f \in Folder, t \in Name : Resolve(p, c, f, t)
  PROVE  RecordInv'
<1>1. CASE Cancel(p, c)
  <2>1. UNCHANGED <<thread, phase, disk, placed>>
    BY <1>1 DEF Cancel
  <2>2. claims' = claims /\ \A q \in Conflict : Change(q)
    BY <1>1, CloseRows DEF Cancel, Change, TypeInv, TablesTyped, Final, tables
  <2> QED
    BY <2>1, <2>2, FilesStay, RecordStays
<1>2. ASSUME NEW f \in Folder, NEW t \in Name, Resolve(p, c, f, t)
      PROVE  RecordInv'
  <2> DEFINE row == conflicts[c]
             k == [owner |-> p, at |-> <<f, row.name>>, to |-> t,
                   snap |-> IF f = "source" THEN row.snap ELSE row.home]
             r == [Idle EXCEPT !.pc = "claim", !.name = row.name, !.snap = row.snap,
                               !.home = row.home, !.con = c, !.claim = k]
  <2>1. r.pc = "claim" /\ r.con = c
    BY DEF Idle
  <2>2. thread' = [thread EXCEPT ![p] = r] /\ phase[p] = "run" /\ conflicts[c].status = "pending"
        /\ UNCHANGED <<tables, phase, disk, placed>>
    BY <1>2 DEF Resolve, Command, Free
  <2> HIDE DEF r
  <2>3. thread'[p] = r /\ \A q \in Proc \ {p} : thread'[q] = thread[q]
    BY <2>2, ThreadSet DEF TypeInv
  <2>4. ThreadKept(p)' /\ Frame(p)
    BY <2>1, <2>2, <2>3 DEF ThreadKept, Unmoved, Frame, Con, tables
  <2> QED
    BY <2>2, <2>4, TablesStay, FilesStay, RecordMoves
<1> QED
  BY <1>1, <1>2

\* What the look at a claim's files tells: free, if its resolution has not put the file
\* at the new name, and resolved, if the file is there.
LEMMA VerdictTells ==
  ASSUME TypeInv, RecordInv, NEW c \in Conflict, NEW k \in ClaimRow
  PROVE  /\ Verdict(k) = "resolved" => disk[Target(k)] = k.snap
         /\ Verdict(k) = "free" /\ claims[c] = k /\ conflicts[c].status = "pending" => ~So(c)
<1>1. Verdict(k) = "resolved" => disk[Target(k)] = k.snap
  BY DEF Verdict
<1>2. ASSUME Verdict(k) = "free", claims[c] = k, conflicts[c].status = "pending", So(c)
      PROVE  FALSE
  <2>1. disk[Target(k)] = NONE
    BY <1>2 DEF Verdict
  <2>2. placed[c].at = Target(k) /\ placed[c].snap = k.snap /\ disk[placed[c].at] = placed[c].snap
    BY <1>2, Apart DEF RecordInv, RowKept, RowFollows, So
  <2>3. k.snap \in Snap
    BY ClaimWanted
  <2> QED
    BY <2>1, <2>2, <2>3, Apart
<1> QED
  BY <1>1, <1>2

LEMMA RecordTaken ==
  ASSUME TypeInv, TypeInv', ClaimInv, RecordInv, NEW p \in Proc, TakeClaim(p)
  PROVE  RecordInv'
<1>1. /\ phase[p] = "run" /\ thread[p].pc = "claim" /\ Con(p) \in Conflict /\ Claim(p).owner = p
      /\ UNCHANGED <<disk, conflicts, phase>> /\ placed' = Track(disk', claims', NONE)
  BY ClaimHeld DEF TakeClaim, At, OnConflict
<1>2. \A c \in Conflict : Fades(c) /\ RowFollows(c)'
  BY <1>1, TrackFades DEF TypeInv, FilesTyped, TablesTyped
<1>3. CASE claims' = claims /\ Done(p)
  <2>1. \A c \in Conflict : Change(c)
    BY <1>1, <1>3 DEF Change
  <2> QED
    BY <1>1, <1>2, <1>3, <2>1, DoneFrame, RecordMoves
<1>4. CASE claims' = [claims EXCEPT ![Con(p)] = Claim(p)] /\ Goto(p, "check")
           /\ claims[Con(p)] = NONE /\ conflicts[Con(p)].status = "pending"
  <2>1. claims'[Con(p)] = Claim(p) /\ \A c \in Conflict \ {Con(p)} : claims'[c] = claims[c]
    BY <1>1, <1>4 DEF TypeInv, TablesTyped
  <2>2. \A c \in Conflict : Change(c)
    BY <1>1, <1>4, <2>1 DEF Change
  <2>3. /\ Frame(p) /\ thread'[p].pc = "check"
        /\ Con(p)' = Con(p) /\ Claim(p)' = Claim(p)
    BY <1>1, <1>4, <2>1, GotoFrame
  <2>4. ~So(Con(p)) /\ (So(Con(p))' => So(Con(p)))
    <3>1. ~So(Con(p))
      BY <1>1, <1>4 DEF RecordInv, RowKept
    <3> QED
      BY <1>1, <1>2, <2>3, <3>1 DEF Fades, So
  <2>5. ThreadKept(p)'
    BY <1>1, <1>4, <2>3, <2>4 DEF ThreadKept, Unmoved
  <2> QED
    BY <1>1, <1>2, <2>1, <2>2, <2>3, <2>5, RecordMoves
<1> QED
  BY <1>3, <1>4 DEF TakeClaim

\* The thread goes on, and the files and tables stay as they are.
LEMMA RecordGoto ==
  ASSUME TypeInv, TypeInv', ClaimInv, RecordInv, NEW p \in Proc, NEW pc \in Resolving \cup {"release"},
         Goto(p, pc), UNCHANGED <<disk, placed, tables, phase>>, phase[p] = "run",
         thread[p].pc \in Resolving, pc # "finish",
         pc \in {"check", "guard", "rename", "obsolete", "release"} => Unmoved(p)
  PROVE  RecordInv'
<1>1. \A c \in Conflict : /\ Change(c) /\ Fades(c) /\ RowFollows(c)'
                          /\ claims'[c] \in {claims[c], NONE}
  BY TablesStay, FilesStay
<1>2. /\ Frame(p) /\ thread'[p].pc = pc
      /\ Con(p)' = Con(p) /\ Claim(p)' = Claim(p)
  BY GotoFrame DEF tables
<1>3. claims[Con(p)] = Claim(p)
  BY DEF ClaimInv, ClaimKept
<1>4. So(Con(p))' = So(Con(p))
  BY <1>2 DEF So
<1>5. ThreadKept(p)'
  BY <1>2, <1>3, <1>4 DEF ThreadKept, Unmoved, RecordInv, OnConflict, Resolving, tables
<1> QED
  BY <1>1, <1>2, <1>5, RecordMoves

LEMMA RecordLooks ==
  ASSUME TypeInv, TypeInv', ClaimInv, RecordInv, NEW p \in Proc, Check(p) \/ Guard(p) \/ Look(p)
  PROVE  RecordInv'
<1>1. CASE Check(p)
  <2> DEFINE r == [thread[p] EXCEPT !.pc = "obsolete", !.verdict = "release"]
  <2>1. /\ phase[p] = "run" /\ thread[p].pc = "check"
        /\ UNCHANGED <<disk, placed, tables, phase>>
    BY <1>1 DEF Check, At
  <2>2. CASE Goto(p, "release") \/ Goto(p, "guard")
    BY <2>1, <2>2, RecordGoto DEF Resolving, Unmoved
  <2>3. CASE thread' = [thread EXCEPT ![p] = r]
    <3>1. r.pc = "obsolete" /\ r.con = Con(p) /\ r.claim = Claim(p)
      BY DEF TypeInv, ThreadsTyped, ThreadRow, Con, Claim
    <3> HIDE DEF r
    <3>2. Con(p)' = Con(p) /\ Claim(p)' = Claim(p) /\ thread'[p].pc = "obsolete"
          /\ \A q \in Proc \ {p} : thread'[q] = thread[q]
      BY <2>3, <3>1, ThreadSet DEF Con, Claim, TypeInv
    <3>3. So(Con(p))' = So(Con(p))
      BY <2>1, <3>2 DEF So
    <3>4. ThreadKept(p)' /\ Frame(p)
      BY <2>1, <3>2, <3>3 DEF ThreadKept, Frame, Unmoved, RecordInv, OnConflict, Resolving, tables
    <3> QED
      BY <2>1, <3>4, TablesStay, FilesStay, RecordMoves
  <2> QED
    BY <1>1, <2>2, <2>3 DEF Check, TypeInv, ThreadsTyped
<1>2. CASE Guard(p)
  BY <1>2, RecordGoto DEF Guard, At, Resolving, Unmoved
<1>3. CASE Look(p)
  <2> DEFINE r == [thread[p] EXCEPT !.pc = "apply", !.verdict = Verdict(Claim(p))]
  <2>1. /\ phase[p] = "run" /\ thread[p].pc = "look" /\ Con(p) \in Conflict
        /\ Claim(p) \in ClaimRow /\ claims[Con(p)] = Claim(p)
        /\ UNCHANGED <<disk, placed, tables, phase>>
    BY <1>3, ClaimHeld, AtConflict DEF Look, At, OnConflict, Resolving
  <2>2. \A c \in Conflict : /\ Change(c) /\ Fades(c) /\ RowFollows(c)'
                            /\ claims'[c] \in {claims[c], NONE}
    BY <2>1, TablesStay, FilesStay
  <2>3. CASE Done(p)
    BY <2>1, <2>2, <2>3, DoneFrame, RecordMoves DEF tables
  <2>4. CASE thread' = [thread EXCEPT ![p] = r]
    <3>1. r.pc = "apply" /\ r.con = Con(p) /\ r.claim = Claim(p) /\ r.verdict = Verdict(Claim(p))
      BY DEF TypeInv, ThreadsTyped, ThreadRow, Con, Claim
    <3> HIDE DEF r
    <3>2. /\ Con(p)' = Con(p) /\ Claim(p)' = Claim(p) /\ thread'[p].pc = "apply"
          /\ thread'[p].verdict = Verdict(Claim(p)) /\ \A q \in Proc \ {p} : thread'[q] = thread[q]
      BY <2>4, <3>1, ThreadSet DEF Con, Claim, TypeInv
    <3>3. So(Con(p))' = So(Con(p))
      BY <2>1, <3>2 DEF So
    <3>4. /\ Verdict(Claim(p)) = "resolved" => placed[Con(p)] # NONE
          /\ Verdict(Claim(p)) = "free" /\ conflicts[Con(p)].status = "pending" => ~So(Con(p))
      BY <2>1, VerdictTells, Apart DEF RecordInv, RowKept, RowFollows
    <3>5. ThreadKept(p)' /\ Frame(p)
      BY <2>1, <3>2, <3>3, <3>4 DEF ThreadKept, Frame, Unmoved, RecordInv, OnConflict, Resolving, tables
    <3> QED
      BY <2>2, <3>5, RecordMoves
  <2> QED
    BY <1>3, <2>3, <2>4 DEF Look, TypeInv, ThreadsTyped
<1> QED
  BY <1>1, <1>2, <1>3

LEMMA RecordRename ==
  ASSUME TypeInv, TypeInv', ClaimInv, RecordInv, NEW p \in Proc, Rename(p)
  PROVE  RecordInv'
<1> DEFINE k == Claim(p)
           c == Con(p)
<1>1. /\ phase[p] = "run" /\ thread[p].pc = "rename" /\ c \in Conflict /\ k \in ClaimRow
      /\ k.owner = p /\ claims[c] = k /\ UNCHANGED <<tables, phase>>
  BY ClaimHeld, AtConflict DEF Rename, At, OnConflict, Resolving
<1>2. CASE UNCHANGED <<disk, placed>> /\ (Goto(p, "obsolete") \/ Goto(p, "release") \/ Goto(p, "look"))
  BY <1>1, <1>2, RecordGoto DEF Resolving, Unmoved
<1>3. CASE /\ DiskBecomes([disk EXCEPT ![k.at] = NONE, ![Target(k)] = k.snap], c)
           /\ Goto(p, "finish")
  <2>1. /\ disk' \in [Place -> Snap \cup {NONE}] /\ placed' = Track(disk', claims, c)
        /\ claims' = claims /\ conflicts' = conflicts
    BY <1>1, <1>3 DEF DiskBecomes, TypeInv, FilesTyped, tables
  <2>2. disk'[Target(k)] = k.snap
    <3>1. k.at \in Place /\ Target(k) \in Place
      BY <1>1, ClaimWanted, ClaimPlaces
    <3> QED
      BY <1>3, <3>1 DEF DiskBecomes, TypeInv, FilesTyped
  <2>3. ASSUME NEW a \in Conflict
        PROVE  /\ placed[a] # NONE => placed'[a] # NONE
               /\ RowFollows(a)'
               /\ So(a)' => \/ So(a) /\ placed'[a] = placed[a]
                            \/ /\ a = c /\ claims[a] # NONE
                               /\ placed'[a].at = Target(claims[a]) /\ placed'[a].snap = claims[a].snap
    BY <2>1, TrackFollows DEF RowFollows, TypeInv, TablesTyped
  <2>4. /\ Frame(p) /\ thread'[p].pc = "finish" /\ Con(p)' = Con(p) /\ Claim(p)' = Claim(p)
    BY <1>1, <1>3, <2>1, GotoFrame
  <2>5. \A a \in Conflict : Change(a)
    BY <2>1 DEF Change
  <2>6. ASSUME NEW a \in Conflict PROVE RowKept(a)'
    <3>1. CASE So(a)' => So(a) /\ placed'[a] = placed[a]
      BY <2>3, <2>5, <3>1, RowChanges DEF Fades, RecordInv
    <3>2. CASE ~(So(a)' => So(a) /\ placed'[a] = placed[a])
      <4>1. /\ a = c /\ claims[a] = k /\ k # NONE /\ placed'[a] # NONE
            /\ placed'[a].at = Target(claims[a]) /\ placed'[a].snap = claims[a].snap
        BY <1>1, <2>3, <3>2, Apart DEF So
      <4>2. conflicts[a].status \notin {"none", "cancelled"}
        BY <4>1 DEF RecordInv, RowKept
      <4>3. conflicts[a].status \in Final \cup {"none", "pending"}
        BY DEF TypeInv, TablesTyped, Row
      <4> QED
        BY <2>1, <2>3, <4>1, <4>2, <4>3 DEF RowKept, Final
    <3> QED
      BY <3>1, <3>2
  <2>7. ThreadKept(p)'
    <3>1. placed'[c] # NONE
      BY <1>1, <2>1, <2>2, TrackFollows, Apart DEF TypeInv, TablesTyped
    <3>2. conflicts'[c].status # "none"
      BY <1>1, <2>1 DEF RecordInv, ThreadKept, OnConflict, Resolving
    <3> QED
      BY <2>4, <3>1, <3>2 DEF ThreadKept, Unmoved
  <2>8. \A q \in Proc \ {p} : ThreadKept(q)'
    <3>1. ASSUME NEW a \in Conflict
          PROVE  So(a)' => So(a) \/ (claims[a] # NONE /\ claims[a].owner = p /\ phase[p] = "run")
      BY <1>1, <2>3
    <3> QED
      BY <2>1, <2>3, <2>4, <2>5, <3>1, OthersKnow
  <2> QED
    BY <2>6, <2>7, <2>8 DEF RecordInv
<1> QED
  BY <1>2, <1>3 DEF Rename

LEMMA RecordCloses ==
  ASSUME TypeInv, TypeInv', ClaimInv, RecordInv, NEW p \in Proc, Finish(p) \/ MarkObsolete(p)
  PROVE  RecordInv'
<1> DEFINE c == Con(p)
<1>1. /\ phase[p] = "run" /\ thread[p].pc \in {"finish", "obsolete"} /\ c \in Conflict
      /\ Claim(p).owner = p /\ claims[c] = Claim(p) /\ Claim(p) \in ClaimRow
      /\ UNCHANGED <<disk, placed, phase>>
  BY ClaimHeld, AtConflict DEF Finish, MarkObsolete, At, OnConflict, Resolving
<1>2. CASE UNCHANGED tables
  <2>1. Done(p) \/ Goto(p, "look") \/ (thread[p].pc = "obsolete" /\ Goto(p, "release"))
    BY DEF Finish, MarkObsolete, At
  <2>2. CASE Done(p)
    BY <1>1, <1>2, <2>2, DoneFrame, TablesStay, FilesStay, RecordMoves DEF tables
  <2>3. CASE ~Done(p)
    BY <1>1, <1>2, <2>1, <2>3, RecordGoto DEF Resolving, Unmoved
  <2> QED
    BY <2>2, <2>3
<1>3. ASSUME NEW st \in {"resolved", "obsolete"}, Close(c, st), ~UNCHANGED tables,
             st = "resolved" => thread[p].pc = "finish"
      PROVE  RecordInv'
  <2>1. /\ RowClosed(c) /\ conflicts'[c].status = st /\ claims'[c] = NONE
        /\ \A q \in Conflict \ {c} : conflicts'[q] = conflicts[q] /\ claims'[q] = claims[q]
    BY <1>1, <1>3, CloseRows DEF TypeInv, Final
  <2>2. st = "resolved" => placed[c] # NONE
    BY <1>3 DEF RecordInv, ThreadKept
  <2>3. \A q \in Conflict : Change(q) /\ claims'[q] \in {claims[q], NONE}
    BY <1>1, <2>1, <2>2 DEF Change
  <2>4. Done(p) \/ Goto(p, "release")
    BY <1>3 DEF Finish, MarkObsolete, Goto
  <2>5. CASE Done(p)
    BY <1>1, <2>1, <2>3, <2>5, FilesStay, DoneFrame, RecordMoves
  <2>6. CASE Goto(p, "release")
    <3>1. /\ Frame(p) /\ thread'[p].pc = "release" /\ Con(p)' = Con(p) /\ Claim(p)' = Claim(p)
      BY <1>1, <2>1, <2>6, GotoFrame
    <3>2. ThreadKept(p)'
      BY <1>1, <1>3, <2>1, <3>1 DEF ThreadKept, Unmoved
    <3> QED
      BY <1>1, <2>3, <3>1, <3>2, FilesStay, RecordMoves
  <2> QED
    BY <2>4, <2>5, <2>6
<1> QED
  BY <1>1, <1>2, <1>3 DEF Finish, MarkObsolete, At

LEMMA RecordReleases ==
  ASSUME TypeInv, TypeInv', ClaimInv, RecordInv, NEW p \in Proc, Release(p)
  PROVE  RecordInv'
<1> PICK c \in Conflict : c = Con(p)
  BY ClaimHeld DEF Release, OnConflict
<1>1. /\ phase[p] = "run" /\ thread[p].pc = "release"
      /\ UNCHANGED <<disk, placed, phase, conflicts>> /\ Done(p)
      /\ claims' \in {claims, Unclaimed(c, p)}
  BY ClaimHeld DEF Release, At, OnConflict
<1>2. ASSUME NEW q \in Conflict
      PROVE  /\ claims'[q] = claims[q] \/ (claims[q].owner = p /\ q = c /\ claims'[q] = NONE)
             /\ Change(q)
  <2>1. claims'[q] = claims[q] \/ (claims[q].owner = p /\ q = c /\ claims'[q] = NONE)
    BY <1>1 DEF Unclaimed, TypeInv, TablesTyped
  <2>2. conflicts[c].status = "pending" => ~So(c)'
    BY <1>1 DEF RecordInv, ThreadKept, Unmoved, So
  <2>3. CASE q = c
    BY <1>1, <2>1, <2>2, <2>3 DEF Change, So
  <2> QED
    BY <1>1, <2>1, <2>3 DEF Change
<1>3. \A q \in Conflict : /\ Change(q) /\ Fades(q) /\ RowFollows(q)'
                          /\ claims'[q] \in {claims[q], NONE}
  BY <1>1, <1>2, FilesStay
<1>4. Frame(p) /\ ThreadKept(p)'
  BY <1>1, <1>2, DoneFrame
<1> QED
  BY <1>3, <1>4, RecordMoves

\* A claim is settled by its verdict: an open row that is left open has no file at the
\* new name, or the file is not known to be its own.
LEMMA Settled ==
  ASSUME TypeInv, RecordInv, NEW c \in Conflict, NEW q, NEW v \in Verdicts,
         UNCHANGED tables \/ Apply(c, q, v),
         v = "resolved" => placed[c] # NONE,
         v = "free" /\ claims[c] # NONE /\ claims[c].owner = q /\ conflicts[c].status = "pending"
           => ~So(c)'
  PROVE  \A a \in Conflict : /\ Change(a) /\ claims'[a] \in {claims[a], NONE}
                             /\ claims'[a] = claims[a] \/ claims[a].owner = q
<1>1. CASE UNCHANGED tables
  BY <1>1, TablesStay DEF tables
<1>2. CASE Apply(c, q, v) /\ ~UNCHANGED tables
  <2>1. /\ \A a \in Conflict \ {c} : conflicts'[a] = conflicts[a] /\ claims'[a] = claims[a]
        /\ claims[c] # NONE /\ claims[c].owner = q /\ claims'[c] = NONE
        /\ \/ RowClosed(c) /\ conflicts'[c].status = v
           \/ conflicts'[c] = conflicts[c] /\ (v = "free" \/ conflicts[c].status # "pending")
    BY <1>2, ApplyRows DEF TypeInv
  <2>2. Change(c)
    <3>1. CASE RowClosed(c) /\ conflicts'[c].status = v
      BY <2>1, <3>1 DEF Change, Verdicts
    <3>2. CASE conflicts'[c] = conflicts[c] /\ (v = "free" \/ conflicts[c].status # "pending")
      <4>1. conflicts[c].status = "pending" => ~So(c)'
        BY <2>1, <3>2
      <4> QED
        BY <2>1, <3>2, <4>1 DEF Change
    <3> QED
      BY <2>1, <3>1, <3>2
  <2> QED
    BY <2>1, <2>2 DEF Change
<1> QED
  BY <1>1, <1>2

LEMMA RecordApplies ==
  ASSUME TypeInv, TypeInv', ClaimInv, RecordInv, NEW p \in Proc, ApplyOwn(p)
  PROVE  RecordInv'
<1> PICK c \in Conflict : c = Con(p)
  BY ClaimHeld DEF ApplyOwn, OnConflict
<1> DEFINE v == thread[p].verdict
<1>1. /\ phase[p] = "run" /\ thread[p].pc = "apply"
      /\ v \in Verdicts /\ UNCHANGED <<disk, placed, phase>> /\ Done(p)
      /\ UNCHANGED tables \/ Apply(c, p, v)
  BY ClaimHeld DEF ApplyOwn, At, OnConflict, TypeInv, ThreadsTyped, ThreadFits
<1>2. v = "resolved" => placed[c] # NONE
  BY <1>1 DEF RecordInv, ThreadKept
<1>3. v = "free" /\ conflicts[c].status = "pending" => ~So(c)'
  BY <1>1 DEF RecordInv, ThreadKept, Unmoved, So
<1> HIDE DEF v
<1>4. \A a \in Conflict : /\ Change(a) /\ claims'[a] \in {claims[a], NONE}
                          /\ claims'[a] = claims[a] \/ claims[a].owner = p
  BY <1>1, <1>2, <1>3, Settled
<1>5. Frame(p) /\ ThreadKept(p)'
  BY <1>1, <1>4, DoneFrame
<1> QED
  BY <1>1, <1>4, <1>5, FilesStay, RecordMoves

LEMMA RecordRow ==
  ASSUME TypeInv, TypeInv', ClaimInv, RecordInv, NEW p \in Proc, ApplyRow(p)
  PROVE  RecordInv'
<1> PICK c \in Conflict : c = Con(p)
  BY AtTyped DEF ApplyRow, OnConflict, TypeInv
<1> DEFINE v == thread[p].verdict
           o == Claim(p).owner
<1>1. /\ phase[p] = "start" /\ thread[p].pc = "apply" /\ Claim(p) \in ClaimRow
      /\ v \in Verdicts /\ UNCHANGED <<disk, phase>> /\ Done(p) /\ phase[o] = "dead"
  BY AtTyped DEF ApplyRow, ClaimInv, ClaimKept, OnConflict, TypeInv, ThreadsTyped, ThreadFits
<1>2. \/ UNCHANGED <<tables, placed>>
      \/ /\ Apply(c, o, v)
         /\ placed' = IF placed[c] # NONE /\ Replaced(p)
                      THEN [placed EXCEPT ![c].ours = FALSE] ELSE placed
  BY DEF ApplyRow
<1>3. /\ \A a \in Conflict \ {c} : placed'[a] = placed[a]
      /\ \/ placed'[c] = placed[c] /\ (UNCHANGED <<tables, placed>> \/ placed[c] = NONE \/ ~Replaced(p))
         \/ /\ placed[c] # NONE /\ placed'[c] # NONE /\ ~placed'[c].ours
            /\ placed'[c].at = placed[c].at /\ placed'[c].snap = placed[c].snap
            /\ placed'[c].still = placed[c].still
  <2>1. CASE \/ UNCHANGED <<tables, placed>>
             \/ placed' = placed /\ (placed[c] = NONE \/ ~Replaced(p))
    BY <2>1
  <2>2. CASE placed[c] # NONE /\ placed' = [placed EXCEPT ![c].ours = FALSE]
    <3> DEFINE r == [placed[c] EXCEPT !.ours = FALSE]
    <3>1. placed[c] \in Put
      BY <1>1, <2>2 DEF TypeInv, FilesTyped
    <3>2. r \in Put /\ ~r.ours /\ r.at = placed[c].at /\ r.snap = placed[c].snap
          /\ r.still = placed[c].still
      BY <3>1 DEF Put
    <3>3. placed' = [placed EXCEPT ![c] = r]
      BY <2>2 DEF TypeInv, FilesTyped
    <3> HIDE DEF r
    <3> QED
      BY <1>1, <2>2, <3>2, <3>3, Apart DEF TypeInv, FilesTyped
  <2> QED
    BY <1>2, <2>1, <2>2
<1>4. v = "resolved" => placed[c] # NONE
  BY <1>1 DEF RecordInv, ThreadKept
<1>5. CASE UNCHANGED <<tables, placed>>
  <2>1. Frame(p) /\ ThreadKept(p)'
    BY <1>1, <1>5, DoneFrame DEF tables
  <2> QED
    BY <1>1, <1>5, <2>1, TablesStay, FilesStay, RecordMoves
<1>6. CASE Apply(c, o, v) /\ ~UNCHANGED <<tables, placed>>
  <2>1. ASSUME v = "free", claims[c] # NONE, claims[c].owner = o, conflicts[c].status = "pending"
        PROVE  ~So(c)'
    <3>1. CASE claims[c] = Claim(p)
      <4>1. ~So(c)
        BY <1>1, <2>1, <3>1 DEF RecordInv, ThreadKept, Unmoved
      <4> QED
        BY <1>3, <4>1 DEF So
    <3>2. CASE claims[c] # Claim(p)
      <4>1. Replaced(p)
        BY <2>1, <3>2 DEF Replaced
      <4> QED
        BY <1>3, <1>6, <4>1 DEF So
    <3> QED
      BY <3>1, <3>2
  <2> HIDE DEF v
  <2>2. \A a \in Conflict : /\ Change(a) /\ claims'[a] \in {claims[a], NONE}
                            /\ claims'[a] = claims[a] \/ claims[a].owner = o
    BY <1>1, <1>4, <1>6, <2>1, Settled
  <2>3. Frame(p) /\ ThreadKept(p)'
    BY <1>1, <2>2, DoneFrame
  <2>4. ASSUME NEW a \in Conflict PROVE Fades(a) /\ RowFollows(a)'
    <3>1. RowFollows(a)
      BY DEF RecordInv, RowKept
    <3>2. CASE placed'[a] = placed[a]
      BY <1>1, <2>2, <3>1, <3>2 DEF Fades, RowFollows, So
    <3>3. CASE a = c /\ placed'[a] # placed[a]
      BY <1>1, <1>3, <2>2, <3>1, <3>3 DEF Fades, RowFollows, So
    <3> QED
      BY <1>3, <3>2, <3>3
  <2> QED
    BY <2>2, <2>3, <2>4, RecordMoves
<1> QED
  BY <1>2, <1>5, <1>6

LEMMA RecordStart ==
  ASSUME TypeInv, TypeInv', ClaimInv, RecordInv, NEW p \in Proc, Start(p) \/ Begin(p) \/ Crash(p)
  PROVE  RecordInv'
<1>1. /\ UNCHANGED <<disk, placed, claims>> /\ thread'[p].pc = "idle"
      /\ \A q \in Proc \ {p} : thread'[q] = thread[q] /\ phase'[q] = phase[q]
      /\ phase[p] = "dead" => phase'[p] = "dead"
  BY DEF Start, Begin, Crash, TypeInv, ThreadsTyped, ThreadFits, ProcsTyped, Idle, tables
<1>2. Frame(p) /\ ThreadKept(p)'
  BY <1>1, IdleKnows DEF Frame, OnConflict, Resolving
<1>3. \A c \in Conflict : Change(c)
  <2>1. CASE UNCHANGED tables
    BY <2>1, TablesStay
  <2>2. CASE Begin(p)
    BY <1>1, <2>2, BeginRows DEF Change, RowsClose, RowClosed, TypeInv
  <2> QED
    BY <2>1, <2>2 DEF Start, Crash
<1> QED
  BY <1>1, <1>2, <1>3, FilesStay, RecordMoves

LEMMA RecordListed ==
  ASSUME TypeInv, TypeInv', ClaimInv, RecordInv, NEW p \in Proc, NEW c \in Conflict, LookAtRow(p, c)
  PROVE  RecordInv'
<1> DEFINE k == listed[p][c]
           r == [Idle EXCEPT !.pc = "apply", !.con = c, !.claim = k, !.verdict = Verdict(k)]
<1>1. phase[p] = "start" /\ UNCHANGED <<tables, phase, disk>> /\ k \in ClaimRow
  <2>1. k \in ClaimRow \cup {NONE}
    BY DEF TypeInv, ProcsTyped
  <2> QED
    BY <2>1 DEF LookAtRow
<1>2. CASE UNCHANGED <<thread, placed>>
  BY <1>1, <1>2, TablesStay, FilesStay, RecordStays DEF tables
<1>3. CASE thread' = [thread EXCEPT ![p] = r] /\ placed' = Track(disk, [claims EXCEPT ![c] = k], NONE)
  <2>1. /\ r.pc = "apply" /\ r.con = c /\ r.claim = k /\ r.verdict = Verdict(k)
    BY DEF Idle
  <2> HIDE DEF r, k
  <2>2. /\ thread'[p] = r /\ \A q \in Proc \ {p} : thread'[q] = thread[q]
    BY <1>3, ThreadSet DEF TypeInv
  <2>3. Con(p)' = c /\ Claim(p)' = k
    BY <2>1, <2>2 DEF Con, Claim
  <2> DEFINE n == [claims EXCEPT ![c] = k]
  <2>4. n \in [Conflict -> ClaimRow \cup {NONE}] /\ n[c] = k
    BY <1>1 DEF TypeInv, TablesTyped
  <2>5. placed' = Track(disk', n, NONE) /\ disk' \in [Place -> Snap \cup {NONE}]
    BY <1>1, <1>3 DEF TypeInv, FilesTyped
  <2> HIDE DEF n
  <2>6. ASSUME NEW a \in Conflict
        PROVE  /\ Fades(a) /\ RowFollows(a)'
               /\ n[a] # NONE /\ disk'[Target(n[a])] = n[a].snap => placed'[a] # NONE
    <3>1. a # NONE
      BY Apart
    <3>2. /\ placed[a] # NONE => placed'[a] # NONE
          /\ placed'[a] # NONE /\ placed'[a].still => disk'[placed'[a].at] = placed'[a].snap
          /\ n[a] # NONE /\ disk'[Target(n[a])] = n[a].snap => placed'[a] # NONE
          /\ So(a)' => So(a) /\ placed'[a] = placed[a]
      BY <2>4, <2>5, <3>1, TrackFollows
    <3>3. claims[a] # NONE /\ disk[Target(claims[a])] = claims[a].snap => placed[a] # NONE
      BY DEF RecordInv, RowKept, RowFollows
    <3> QED
      BY <1>1, <3>2, <3>3 DEF Fades, RowFollows, tables
  <2>7. ThreadKept(p)'
    <3>1. Verdict(k) = "resolved" => placed'[c] # NONE
      BY <1>1, <2>4, <2>6, VerdictTells, Apart
    <3>2. Verdict(k) = "free" /\ conflicts'[c].status = "pending" /\ claims'[c] = k => ~So(c)
      BY <1>1, VerdictTells DEF tables
    <3>3. So(c)' => So(c)
      BY <2>6 DEF Fades
    <3>4. So(Con(p))' => So(c)'
      BY <2>3 DEF So
    <3> QED
      BY <1>1, <2>1, <2>2, <2>3, <3>1, <3>2, <3>3, <3>4 DEF ThreadKept, Unmoved
  <2>8. Frame(p)
    BY <1>1, <2>2 DEF Frame, tables
  <2> QED
    BY <1>1, <2>6, <2>7, <2>8, TablesStay, RecordMoves
<1> QED
  BY <1>2, <1>3 DEF LookAtRow

LEMMA RecordStep == TypeInv /\ TypeInv' /\ ClaimInv /\ RecordInv /\ [Next]_vars => RecordInv'
<1> SUFFICES ASSUME TypeInv, TypeInv', ClaimInv, RecordInv, [Next]_vars PROVE RecordInv'
  OBVIOUS
<1>1. CASE User
  BY <1>1, RecordUser, RecordCommand DEF User
<1>2. ASSUME NEW p \in Proc, ThreadStep(p) PROVE RecordInv'
  BY <1>2, RecordFiles, RecordTaken, RecordLooks, RecordRename, RecordCloses, RecordReleases,
     RecordApplies DEF ThreadStep, ResolveStep
<1>3. ASSUME NEW p \in Proc, StartStep(p) PROVE RecordInv'
  BY <1>3, RecordStart, RecordRow, RecordListed DEF StartStep
<1>4. CASE UNCHANGED vars
  BY <1>4, TablesStay, FilesStay, RecordStays DEF vars, tables
<1> QED
  BY <1>1, <1>2, <1>3, <1>4, RecordWorker, RecordStart DEF Next

\* A conflict is resolved only when its file was seen at the new name, and while the file
\* is where its resolution put it, its row is neither cancelled nor open to another.
THEOREM ConflictsRenameIsRecorded == Spec => []RenameIsRecorded
<1>1. Init => RecordInv
  BY DEF Init, RecordInv, RowKept, RowFollows, ThreadKept, Unmoved, So, NoRow, NoClaims, Idle,
         OnConflict, Resolving
<1>2. RecordInv => RenameIsRecorded
  BY DEF RecordInv, RowKept, So, RenameIsRecorded
<1> QED
  BY <1>1, <1>2, RecordStep, TypeStep, ClaimTypes, PTL DEF Spec
=============================================================================
