---------------------- MODULE OrganizerCommandsProofs ----------------------
(***************************************************************************)
(* Every command is answered at most once, what a pause or a rule change   *)
(* has revoked is not started, and the interface shows the rule that is in *)
(* force, for any number of commands, files, versions and faults.          *)
(***************************************************************************)
EXTENDS OrganizerCommands, TLAPS, FiniteSetTheorems, WellFoundedInduction

(***************************************************************************)
(* Answers.  Commands wait in the order of their ids, every id is below    *)
(* the counter (or the counter is used up), and none of the commands that  *)
(* wait, are in hand or are registered has been answered.                  *)
(***************************************************************************)
Pcs == {"top", "command", "files", "leaving", "hanging", "ended"}
Thread == [pc : Pcs, command : Message \cup {NONE}, done : Nat, ready : SUBSET File]
Waiting(i) == \E n \in DOMAIN channel : channel[n].id = i
InHand(i) == thread.pc = "command" /\ thread.command.id = i

IdType ==
  /\ counter \in 0..MaxId
  /\ accepted \subseteq Id
  /\ channel \in Seq(Message)
  /\ thread \in Thread
  /\ thread.pc = "command" => thread.command \in Message
  /\ sent \in [Id -> Nat]

IdInv ==
  /\ IdType
  /\ registered \subseteq accepted
  /\ \A i \in accepted : counter = 0 \/ i < counter
  /\ \A i \in Id : Waiting(i) \/ InHand(i) => i \in accepted /\ sent[i] = 0
  /\ \A i \in Id : i \in registered \/ i \notin accepted => sent[i] = 0
  /\ \A m, n \in DOMAIN channel : m < n => channel[m].id < channel[n].id
  /\ \A i \in Id : InHand(i) => \A n \in DOMAIN channel : i < channel[n].id
  /\ AnsweredOnce

\* What an action does to the variables of IdInv.
idParts == <<counter, accepted, registered, channel, thread, sent>>

Accepts ==
  /\ counter # 0
  /\ counter' = Following(counter)
  /\ \/ UNCHANGED <<accepted, registered, channel>>
     \/ /\ accepted' = accepted \cup {counter}
        /\ registered' = registered \cup {counter}
        /\ \E c \in Requests : channel' = Append(channel, [id |-> counter, do |-> c])
  /\ UNCHANGED <<thread, sent>>

PutsDown ==
  /\ thread' \in Thread /\ thread'.pc # "command"
  /\ UNCHANGED <<counter, accepted, registered, channel, sent>>

TakesNext ==
  /\ channel # << >>
  /\ \E n \in Nat : thread' = Place("command", Head(channel), n, {})
  /\ channel' = Tail(channel)

Takes ==
  /\ TakesNext
  /\ thread.pc # "command"
  /\ UNCHANGED <<counter, accepted, registered, sent>>

Answers ==
  /\ thread.pc = "command"
  /\ sent' = [sent EXCEPT ![thread.command.id] = @ + 1]
  /\ registered' = registered \ {thread.command.id}
  /\ TakesNext \/ (thread' \in Thread /\ thread'.pc # "command" /\ channel' = channel)
  /\ UNCHANGED <<counter, accepted>>

Drains ==
  /\ registered' = {}
  /\ \/ UNCHANGED <<channel, sent, thread>>
     \/ /\ channel' = << >>
        /\ thread' \in Thread /\ thread'.pc # "command"
        /\ sent' = [i \in Id |-> IF i \in registered THEN sent[i] + 1 ELSE sent[i]]
  /\ UNCHANGED <<counter, accepted>>

LEMMA FollowingFact ==
  ASSUME NEW n \in 0..MaxId
  PROVE  Following(n) \in 0..MaxId /\ (Following(n) = 0 \/ Following(n) = n + 1)
  BY CommandsAssumption, SMT DEF Following

LEMMA AcceptsKeeps == ASSUME IdInv, Accepts PROVE IdInv'
<1>1. counter \in Id /\ counter' \in 0..MaxId /\ (counter' = 0 \/ counter' = counter + 1)
  BY FollowingFact, CommandsAssumption DEF Accepts, IdInv, IdType, Id
<1>2. CASE UNCHANGED <<accepted, registered, channel>>
  BY <1>1, <1>2 DEF Accepts, IdInv, IdType, Id, Waiting, InHand, AnsweredOnce
<1>3. CASE /\ accepted' = accepted \cup {counter}
           /\ registered' = registered \cup {counter}
           /\ \E c \in Requests : channel' = Append(channel, [id |-> counter, do |-> c])
  <2>1. PICK c \in Requests : channel' = Append(channel, [id |-> counter, do |-> c])
    BY <1>3
  <2>2. /\ channel' \in Seq(Message)
        /\ DOMAIN channel' = 1..(Len(channel) + 1)
        /\ DOMAIN channel = 1..Len(channel) /\ Len(channel) \in Nat
        /\ \A n \in 1..Len(channel) : channel'[n] = channel[n]
        /\ channel'[Len(channel) + 1].id = counter
    BY <1>1, <2>1 DEF IdInv, IdType, Message
  <2>3. IdType'
    BY <1>1, <1>3, <2>2 DEF Accepts, IdInv, IdType
  <2>4. \A n \in DOMAIN channel : channel[n].id \in Id /\ channel[n].id < counter
    <3>1. \A n \in DOMAIN channel : channel[n] \in Message
      BY DEF IdInv, IdType
    <3>2. \A n \in DOMAIN channel : channel[n].id \in Id
      BY <3>1 DEF Message
    <3> QED
      BY <1>1, <3>2 DEF Accepts, IdInv, Waiting
  <2>5. \A i \in Id : Waiting(i)' => Waiting(i) \/ i = counter
    BY <2>2 DEF Waiting
  <2>6. \A i \in Id : (InHand(i)' <=> InHand(i)) /\ sent'[i] = sent[i]
    BY DEF Accepts, InHand
  <2>7. sent[counter] = 0 /\ counter \notin accepted
    BY <1>1 DEF Accepts, IdInv, Id
  <2>8. \A m, n \in DOMAIN channel' : m < n => channel'[m].id < channel'[n].id
    BY <2>2, <2>4 DEF IdInv
  <2>9. \A i \in Id : InHand(i)' => \A n \in DOMAIN channel' : i < channel'[n].id
    BY <1>1, <2>2, <2>4, <2>6 DEF IdInv, Accepts
  <2>10. \A i \in accepted' : counter' = 0 \/ i < counter'
    BY <1>1, <1>3 DEF Accepts, IdInv, IdType, Id
  <2> QED
    BY <1>3, <2>3, <2>5, <2>6, <2>7, <2>8, <2>9, <2>10 DEF IdInv, AnsweredOnce
<1> QED
  BY <1>2, <1>3, Zenon DEF Accepts

LEMMA PutsDownKeeps == ASSUME IdInv, PutsDown PROVE IdInv'
  BY DEF PutsDown, IdInv, IdType, Waiting, InHand, AnsweredOnce

\* What Tail leaves.
LEMMA NextFact ==
  ASSUME IdInv, TakesNext
  PROVE  /\ channel' \in Seq(Message)
         /\ \A n \in DOMAIN channel' : n \in Nat /\ n + 1 \in DOMAIN channel
                                       /\ channel'[n] = channel[n + 1]
         /\ Head(channel) \in Message
         /\ Head(channel) = channel[1] /\ 1 \in DOMAIN channel
         /\ thread' \in Thread /\ thread'.pc = "command" /\ thread'.command = Head(channel)
<1>1. /\ channel \in Seq(Message) /\ channel # << >>
      /\ channel' = Tail(channel)
  BY DEF IdInv, IdType, TakesNext
<1>2. Head(channel) \in Message /\ Head(channel) = channel[1] /\ 1 \in DOMAIN channel
  BY <1>1
<1>3. \A n \in DOMAIN channel' : n \in Nat /\ n + 1 \in DOMAIN channel
                                 /\ channel'[n] = channel[n + 1]
  BY <1>1
<1>4. thread' \in Thread /\ thread'.pc = "command" /\ thread'.command = Head(channel)
  BY <1>2 DEF TakesNext, Place, Thread, Pcs
<1> QED
  BY <1>1, <1>2, <1>3, <1>4

\* The ids that wait after Tail waited before, behind the one now in hand.
LEMMA NextIds ==
  ASSUME IdInv, TakesNext
  PROVE  /\ \A i \in Id : Waiting(i)' => Waiting(i)
         /\ \A i \in Id : InHand(i)' <=> i = channel[1].id
         /\ Waiting(channel[1].id) /\ channel[1].id \in Id
         /\ \A n \in DOMAIN channel' : channel[1].id < channel'[n].id
         /\ \A m, n \in DOMAIN channel' : m < n => channel'[m].id < channel'[n].id
<1>1. channel[1].id \in Id
  BY NextFact DEF Message
<1>2. \A m, n \in DOMAIN channel : m < n => channel[m].id < channel[n].id
  BY DEF IdInv
<1>3. \A i \in Id : Waiting(i)' => Waiting(i)
  BY NextFact DEF Waiting
<1>4. \A i \in Id : InHand(i)' <=> i = channel[1].id
  BY NextFact DEF InHand
<1>5. \A n \in DOMAIN channel' : channel[1].id < channel'[n].id
  BY NextFact, <1>2
<1>6. \A m, n \in DOMAIN channel' : m < n => channel'[m].id < channel'[n].id
  BY NextFact, <1>2
<1>7. Waiting(channel[1].id)
  BY NextFact DEF Waiting
<1> QED
  BY <1>1, <1>3, <1>4, <1>5, <1>6, <1>7

LEMMA TakesKeeps == ASSUME IdInv, Takes PROVE IdInv'
<1>1. TakesNext
  BY DEF Takes
<1>2. IdType'
  BY <1>1, NextFact DEF Takes, IdInv, IdType
<1> QED
  BY <1>1, <1>2, NextIds DEF Takes, IdInv, AnsweredOnce

LEMMA AnswersKeeps == ASSUME IdInv, Answers PROVE IdInv'
<1> DEFINE me == thread.command.id
<1>1. me \in Id /\ InHand(me) /\ sent[me] = 0 /\ me \in accepted
  BY DEF Answers, IdInv, IdType, InHand, Message
<1>2. \A n \in DOMAIN channel : me < channel[n].id
  BY <1>1 DEF IdInv
<1>3. \A i \in Id : Waiting(i) => i # me
  BY <1>1, <1>2 DEF Waiting, Id
<1>4. /\ sent' \in [Id -> Nat]
      /\ sent'[me] = 1 /\ \A i \in Id \ {me} : sent'[i] = sent[i]
  BY <1>1 DEF Answers, IdInv, IdType
<1>5. AnsweredOnce'
  BY <1>4 DEF IdInv, AnsweredOnce
<1>6. \A i \in Id : i \in registered' \/ i \notin accepted' => sent'[i] = 0
  BY <1>1, <1>4 DEF Answers, IdInv
<1>7. CASE TakesNext
  <2>1. IdType'
    BY <1>4, <1>7, NextFact DEF Answers, IdInv, IdType
  <2>2. \A i \in Id : Waiting(i)' \/ InHand(i)' => i \in accepted' /\ sent'[i] = 0
    BY <1>3, <1>4, <1>7, NextIds DEF Answers, IdInv
  <2> QED
    BY <1>5, <1>6, <1>7, <2>1, <2>2, NextIds DEF Answers, IdInv
<1>8. CASE thread' \in Thread /\ thread'.pc # "command" /\ channel' = channel
  <2>1. \A i \in Id : (Waiting(i)' <=> Waiting(i)) /\ ~InHand(i)'
    BY <1>8 DEF Waiting, InHand
  <2>2. IdType'
    BY <1>4, <1>8 DEF Answers, IdInv, IdType
  <2> QED
    BY <1>3, <1>4, <1>5, <1>6, <1>8, <2>1, <2>2 DEF Answers, IdInv
<1> QED
  BY <1>7, <1>8 DEF Answers

LEMMA DrainsKeeps == ASSUME IdInv, Drains PROVE IdInv'
<1>1. CASE UNCHANGED <<channel, sent, thread>>
  BY <1>1 DEF Drains, IdInv, IdType, Waiting, InHand, AnsweredOnce
<1>2. CASE /\ channel' = << >>
           /\ thread' \in Thread /\ thread'.pc # "command"
           /\ sent' = [i \in Id |-> IF i \in registered THEN sent[i] + 1 ELSE sent[i]]
  <2>1. \A i \in Id : sent'[i] <= 1 /\ sent'[i] \in Nat /\ (i \notin accepted => sent'[i] = 0)
    BY <1>2 DEF IdInv, IdType, AnsweredOnce
  <2>2. channel' \in Seq(Message) /\ DOMAIN channel' = {}
    BY <1>2
  <2>3. IdType'
    BY <1>2, <2>1, <2>2 DEF Drains, IdInv, IdType
  <2> QED
    BY <1>2, <2>1, <2>2, <2>3 DEF Drains, IdInv, Waiting, InHand, AnsweredOnce
<1> QED
  BY <1>1, <1>2 DEF Drains

\* Every action does one of these, or leaves the variables alone.
IdStep == Accepts \/ PutsDown \/ Takes \/ Answers \/ Drains \/ UNCHANGED idParts

LEMMA IdStepKeeps == ASSUME IdInv, IdStep PROVE IdInv'
<1>1. CASE UNCHANGED idParts
  BY <1>1 DEF idParts, IdInv, IdType, Waiting, InHand, AnsweredOnce
<1> QED
  BY <1>1, AcceptsKeeps, PutsDownKeeps, TakesKeeps, AnswersKeeps, DrainsKeeps DEF IdStep

LEMMA RespondAnswers ==
  ASSUME IdInv, NEW k, Processing(k), NEW says, Respond(says)
  PROVE  IdStep
<1>1. thread.pc = "command" /\ UNCHANGED <<counter, accepted>>
  BY DEF Processing
<1>2. CASE manager = "gone"
  <2>1. thread' = Leave /\ UNCHANGED <<registered, sent, channel>>
    BY <1>2 DEF Respond
  <2>2. thread' \in Thread /\ thread'.pc # "command"
    BY <2>1 DEF Leave, Place, Thread, Pcs
  <2> QED
    BY <1>1, <2>1, <2>2 DEF IdStep, PutsDown
<1>3. CASE manager # "gone"
  <2>1. /\ sent' = [sent EXCEPT ![thread.command.id] = @ + 1]
        /\ registered' = registered \ {thread.command.id}
    BY <1>3, Zenon DEF Respond, Settled
  <2>2. \/ /\ channel # << >>
           /\ thread' = Place("command", Head(channel), thread.done + 1, {})
           /\ channel' = Tail(channel)
        \/ thread' = Place("files", NONE, 0, Ripe') /\ channel' = channel
    BY <1>3, Zenon DEF Respond
  <2>3. thread.done + 1 \in Nat
    BY DEF IdInv, IdType, Thread
  <2>4. Place("files", NONE, 0, Ripe') \in Thread /\ Place("files", NONE, 0, Ripe').pc # "command"
    BY DEF Place, Thread, Pcs, Ripe
  <2>5. TakesNext \/ (thread' \in Thread /\ thread'.pc # "command" /\ channel' = channel)
    BY <2>2, <2>3, <2>4, Zenon DEF TakesNext
  <2> QED
    BY <1>1, <2>1, <2>5, Zenon DEF IdStep, Answers
<1> QED
  BY <1>2, <1>3

LEMMA EveryIdStep == ASSUME IdInv, Next PROVE IdStep
<1> USE DEF IdStep
<1>1. ASSUME NEW c \in Requests, Enqueue(c) PROVE IdStep
  BY <1>1, Zenon DEF Enqueue, Allocable, Accepts
<1>2. CASE ReadEvents \/ DropFlag
  BY <1>2, Zenon DEF ReadEvents, DropFlag, idParts, idVars
<1>3. CASE DropStop
  BY <1>3 DEF DropStop, Drains
<1>4. CASE DropEnd \/ HealthCheck
  BY <1>4 DEF DropEnd, HealthCheck, idParts, idVars
<1>5. CASE Receive
  <2>1. thread.pc # "command" /\ UNCHANGED <<counter, accepted, registered, sent>>
    BY <1>5 DEF Receive, idVars
  <2>2. CASE thread' = Leave /\ channel' = channel
    <3>1. thread' \in Thread /\ thread'.pc # "command"
      BY <2>2 DEF Leave, Place, Thread, Pcs
    <3> QED
      BY <2>1, <2>2, <3>1 DEF PutsDown
  <2>3. CASE channel # << >> /\ thread' = Place("command", Head(channel), 0, {})
             /\ channel' = Tail(channel)
    BY <2>1, <2>3, 0 \in Nat, Zenon DEF Takes, TakesNext
  <2>4. CASE thread' = Place("files", NONE, 0, Ripe) /\ channel' = channel
    <3>1. thread' \in Thread /\ thread'.pc # "command"
      BY <2>4 DEF Place, Thread, Pcs, Ripe
    <3> QED
      BY <2>1, <2>4, <3>1 DEF PutsDown
  <2> QED
    BY <1>5, <2>2, <2>3, <2>4, Zenon DEF Receive
<1>6. CASE Command
  <2>1. ASSUME SetRules PROVE IdStep
    BY <2>1, RespondAnswers, Zenon DEF SetRules
  <2>2. ASSUME RejectRules PROVE IdStep
    BY <2>2, RespondAnswers, Zenon DEF RejectRules
  <2>3. ASSUME PauseRule PROVE IdStep
    BY <2>3, RespondAnswers, Zenon DEF PauseRule
  <2>4. ASSUME ResumeRule PROVE IdStep
    BY <2>4, RespondAnswers, Zenon DEF ResumeRule
  <2>5. ASSUME CreateFolder PROVE IdStep
    BY <2>5, RespondAnswers, Zenon DEF CreateFolder
  <2>6. ASSUME RetryOperation PROVE IdStep
    BY <2>6, RespondAnswers, Zenon DEF RetryOperation
  <2> QED
    BY <1>6, <2>1, <2>2, <2>3, <2>4, <2>5, <2>6 DEF Command
<1>7. CASE LeaveBatch \/ FilesDone \/ Panic \/ Hang \/ \E f \in File : StableFile(f)
  <2>1. UNCHANGED <<counter, accepted, registered, channel, sent>>
    BY <1>7, Zenon DEF LeaveBatch, FilesDone, Panic, Hang, StableFile, idVars
  <2>2. thread' \in Thread /\ thread'.pc # "command"
    <3>1. CASE LeaveBatch \/ Panic
      BY <3>1 DEF LeaveBatch, Panic, Leave, Place, Thread, Pcs
    <3>2. CASE FilesDone
      BY <3>2 DEF FilesDone, NoPlace, Thread, Pcs
    <3>3. CASE Hang
      BY <3>3 DEF Hang, IdInv, IdType, Thread, Pcs
    <3>4. ASSUME NEW f \in File, StableFile(f) PROVE thread' \in Thread /\ thread'.pc # "command"
      BY <3>4 DEF StableFile, IdInv, IdType, Thread, Pcs
    <3> QED
      BY <1>7, <3>1, <3>2, <3>3, <3>4
  <2> QED
    BY <2>1, <2>2 DEF PutsDown
<1>8. CASE Unwind
  <2>1. thread' \in Thread /\ thread'.pc # "command"
    BY <1>8 DEF Unwind, Place, Thread, Pcs
  <2> QED
    BY <1>8, <2>1, Zenon DEF Unwind, Drains
<1>9. CASE Worker
  BY <1>9, Zenon DEF Worker, WorkerTakes, WorkerRechecks, WorkerMoves, idParts, idVars
<1> QED
  BY <1>1, <1>2, <1>3, <1>4, <1>5, <1>6, <1>7, <1>8, <1>9
     DEF Next, Interface, Dropping, Loop

LEMMA IdInit == Init => IdInv
<1> SUFFICES ASSUME Init PROVE IdInv
  OBVIOUS
<1>1. channel = << >> /\ channel \in Seq(Message) /\ DOMAIN channel = {}
  BY DEF Init
<1>2. thread \in Thread /\ thread.pc # "command"
  BY DEF Init, NoPlace, Thread, Pcs
<1>3. /\ sent = [i \in Id |-> 0] /\ accepted = {} /\ registered = {}
      /\ counter \in 0..MaxId
  BY CommandsAssumption DEF Init
<1> QED
  BY <1>1, <1>2, <1>3 DEF IdInv, IdType, Waiting, InHand, AnsweredOnce

\* A command is answered at most once, by the thread or by the guard that runs
\* when the thread ends, however often the counter would wrap around.
THEOREM CommandsAnsweredOnce == Spec => []AnsweredOnce
<1>1. Init => IdInv
  BY IdInit
<1>2. IdInv /\ [Next]_vars => IdInv'
  <2>1. ASSUME IdInv, UNCHANGED vars PROVE IdInv'
    <3>1. UNCHANGED idParts
      BY <2>1 DEF vars, idVars, idParts
    <3> QED
      BY <2>1, <3>1, IdStepKeeps DEF IdStep
  <2> QED
    BY <2>1, EveryIdStep, IdStepKeeps
<1>3. IdInv => AnsweredOnce
  BY DEF IdInv
<1> QED
  BY <1>1, <1>2, <1>3, PTL DEF Spec

(***************************************************************************)
(* Activation.  Whatever a pending file, a request in the queue or the     *)
(* worker carries was dispatched under some flag and version.  Of the      *)
(* raised flags only the current one and the strayed ones are left, and    *)
(* what carries the current one while it is raised belongs to the rule in  *)
(* force.                                                                  *)
(***************************************************************************)
Carried(g, v) ==
  \/ \E f \in File : pending[f] # NONE /\ pending[f].flag = g /\ pending[f].version = v
  \/ \E n \in DOMAIN queue : queue[n].flag = g /\ queue[n].version = v
  \/ worker.pc # "idle" /\ worker.flag = g /\ worker.version = v

Asked == [pc : {"idle"}, file : File, flag : Nat, version : Version]

FlagType ==
  /\ IdType
  /\ flag \in Nat /\ fresh \in Nat
  /\ rule \in Rule
  /\ pending \in [File -> Pending \cup {NONE}]
  /\ queue \in Seq(Asked)
  /\ worker \in [pc : {"idle", "checked", "cleared"}, file : File \cup {NONE},
                 flag : Nat \cup {NONE}, version : Version \cup {NONE}]
  /\ \A f \in thread.ready : pending[f] # NONE

FlagInv ==
  /\ raised \subseteq stray \cup {flag}
  /\ flag \in raised => rule.on
  /\ flag <= fresh
  /\ \A g \in raised \cup stray : g \in Nat /\ g <= fresh
  /\ \A g, v : Carried(g, v) =>
       /\ g \in Nat /\ g <= fresh
       /\ g \in raised \ stray => v = rule.version /\ ~paused

\* What an action does to rule, flags and carriers.
Carries == \A g, v : Carried(g, v)' =>
             Carried(g, v) \/ (g = flag' /\ v = rule'.version /\ ~paused')

KeepsFlags ==
  /\ Carries
  /\ UNCHANGED <<rule, flag, fresh, raised, stray>>
  /\ paused' => paused

NewFlag == fresh' = fresh + 1 /\ flag' = fresh + 1

ChangesRule ==
  /\ Carries /\ NewFlag
  /\ raised' = (raised \ {flag}) \cup (IF rule'.on THEN {flag'} ELSE {})
  /\ stray' = stray

Pauses ==
  /\ Carries /\ NewFlag
  /\ raised' = raised \ {flag}
  /\ UNCHANGED <<rule, stray>>

Resumes ==
  /\ Carries /\ NewFlag
  /\ rule.on
  /\ raised' = raised \cup {flag'}
  /\ stray' = stray \cup ({flag} \cap raised)
  /\ rule' = rule

LEMMA KeepsFlagsKeeps == ASSUME FlagType, FlagInv, KeepsFlags PROVE FlagInv'
<1>1. /\ rule' = rule /\ flag' = flag /\ fresh' = fresh /\ raised' = raised
      /\ stray' = stray /\ (~paused => ~paused')
  BY Zenon DEF KeepsFlags
<1> QED
  BY <1>1 DEF KeepsFlags, Carries, FlagType, FlagInv

\* A flag made before is not the new one, and what carries it is not raised
\* unless it is strayed.
LEMMA ChangesRuleKeeps == ASSUME FlagType, FlagInv, ChangesRule PROVE FlagInv'
<1>1. flag' \notin raised \cup stray /\ flag' = fresh'
  BY DEF ChangesRule, NewFlag, FlagType, FlagInv
<1>2. raised' \ stray' \subseteq {flag'}
  BY DEF ChangesRule, FlagInv
<1>3. \A g, v : Carried(g, v) => g \in Nat /\ g <= fresh /\ g # flag'
  BY DEF ChangesRule, NewFlag, FlagType, FlagInv
<1>4. \A g, v : Carried(g, v)' =>
        /\ g \in Nat /\ g <= fresh'
        /\ g \in raised' \ stray' => v = rule'.version /\ ~paused'
  BY <1>2, <1>3 DEF ChangesRule, NewFlag, Carries, FlagType
<1>5. \A g \in raised' \cup stray' : g \in Nat /\ g <= fresh'
  BY DEF ChangesRule, NewFlag, FlagType, FlagInv
<1> QED
  BY <1>1, <1>2, <1>4, <1>5 DEF ChangesRule, NewFlag, FlagType, FlagInv

LEMMA PausesKeeps == ASSUME FlagType, FlagInv, Pauses PROVE FlagInv'
<1>1. raised' \ stray' = {}
  BY DEF Pauses, FlagInv
<1>2. \A g, v : Carried(g, v)' => g \in Nat /\ g <= fresh'
  BY DEF Pauses, NewFlag, Carries, FlagType, FlagInv
<1>3. flag' \notin raised'
  BY DEF Pauses, NewFlag, FlagType, FlagInv
<1> QED
  BY <1>1, <1>2, <1>3 DEF Pauses, NewFlag, FlagType, FlagInv

LEMMA ResumesKeeps == ASSUME FlagType, FlagInv, Resumes PROVE FlagInv'
<1>1. raised' \ stray' \subseteq {flag'}
  BY DEF Resumes, FlagInv
<1>2. \A g, v : Carried(g, v) => g \in Nat /\ g <= fresh /\ g # flag'
  BY DEF Resumes, NewFlag, FlagType, FlagInv
<1>3. \A g, v : Carried(g, v)' =>
        /\ g \in Nat /\ g <= fresh'
        /\ g \in raised' \ stray' => v = rule'.version /\ ~paused'
  BY <1>1, <1>2 DEF Resumes, NewFlag, Carries, FlagType
<1>4. \A g \in raised' \cup stray' : g \in Nat /\ g <= fresh'
  BY DEF Resumes, NewFlag, FlagType, FlagInv
<1> QED
  BY <1>1, <1>3, <1>4 DEF Resumes, NewFlag, FlagType, FlagInv

FlagStep == KeepsFlags \/ ChangesRule \/ Pauses \/ Resumes

\* The part of FlagType that an action has to keep, without the ids.
FlagParts ==
  /\ flag' \in Nat /\ fresh' \in Nat
  /\ rule' \in Rule
  /\ pending' \in [File -> Pending \cup {NONE}]
  /\ queue' \in Seq(Asked)
  /\ worker' \in [pc : {"idle", "checked", "cleared"}, file : File \cup {NONE},
                  flag : Nat \cup {NONE}, version : Version \cup {NONE}]
  /\ \A f \in thread'.ready : pending'[f] # NONE

LEMMA RespondReady ==
  ASSUME NEW says, Respond(says)
  PROVE  \A f \in thread'.ready : pending'[f] # NONE
<1>1. thread'.ready \subseteq {f \in File : pending'[f] # NONE}
  <2>1. CASE thread' = Leave
    BY <2>1 DEF Leave, Place
  <2>2. ASSUME NEW c, NEW n, thread' = Place("command", c, n, {})
        PROVE  thread'.ready \subseteq {f \in File : pending'[f] # NONE}
    BY <2>2 DEF Place
  <2>3. CASE thread' = Place("files", NONE, 0, Ripe')
    BY <2>3 DEF Place, Ripe
  <2> QED
    BY <2>1, <2>2, <2>3, Zenon DEF Respond
<1> QED
  BY <1>1

LEMMA ScannedFact ==
  ASSUME NEW table \in [File -> Pending \cup {NONE}], NEW r \in Rule, NEW g \in Nat
  PROVE  /\ Scanned(table, r, g) \in [File -> Pending \cup {NONE}]
         /\ \A f \in File : \/ Scanned(table, r, g)[f] = table[f]
                            \/ /\ Scanned(table, r, g)[f].flag = g
                               /\ Scanned(table, r, g)[f].version = r.version
<1>1. r.version \in Version
  BY DEF Rule
<1>2. \A f \in File : (table[f] # NONE /\ table[f].ripe) \in BOOLEAN
  BY Zenon DEF Pending
<1>3. \A f \in File :
        [flag |-> g, version |-> r.version, ripe |-> table[f] # NONE /\ table[f].ripe]
          \in Pending
  BY <1>1, <1>2 DEF Pending, Flag
<1> QED
  BY <1>3 DEF Scanned

\* Carriers do not grow when only pending entries are dropped or get the new
\* flag.
LEMMA CarriesPending ==
  ASSUME queue' = queue, worker' = worker,
         \A f \in File : \/ pending'[f] = pending[f] \/ pending'[f] = NONE
                         \/ /\ pending'[f].flag = flag'
                            /\ pending'[f].version = rule'.version
                            /\ ~paused'
  PROVE  Carries
  BY DEF Carries, Carried

LEMMA SetRulesFlags == ASSUME FlagType, SetRules PROVE FlagParts /\ FlagStep
<1> DEFINE new == thread.command.do.rule
           kept == [f \in File |->
             IF pending[f] # NONE /\ pending[f].flag \in raised' THEN pending[f] ELSE NONE]
<1>1. new \in Rule
  <2>1. thread.command \in Message /\ thread.command.do.kind = "set"
    BY DEF SetRules, Processing, FlagType, IdType
  <2>2. thread.command.do \in Commands
    BY <2>1, CommandsAssumption DEF Message
  <2> QED
    BY <2>1, <2>2 DEF Commands
<1>2. /\ rule' = new /\ (paused' <=> paused /\ new.on)
      /\ queue' = queue /\ worker' = worker /\ stray' = stray
      /\ pending' = IF new # rule /\ new.on /\ ~paused' THEN Scanned(kept, new, flag') ELSE kept
  BY Zenon DEF SetRules
<1>3. \A f \in thread'.ready : pending'[f] # NONE
  BY RespondReady, Zenon DEF SetRules
<1>4. \/ new = rule /\ UNCHANGED <<flag, fresh, raised>>
      \/ /\ NewFlag
         /\ raised' = (raised \ {flag}) \cup (IF new.on THEN {fresh + 1} ELSE {})
  BY Zenon DEF SetRules, NewFlag, LoweredBySet
<1>5. flag' \in Nat /\ fresh' \in Nat
  BY <1>4 DEF NewFlag, FlagType
<1>6. kept \in [File -> Pending \cup {NONE}]
      /\ \A f \in File : kept[f] = pending[f] \/ kept[f] = NONE
  BY DEF FlagType
<1> HIDE DEF kept, new
<1>7. pending' \in [File -> Pending \cup {NONE}]
  BY <1>1, <1>2, <1>5, <1>6, ScannedFact
<1>8. \A f \in File : \/ pending'[f] = pending[f] \/ pending'[f] = NONE
                      \/ /\ pending'[f].flag = flag'
                         /\ pending'[f].version = rule'.version
                         /\ ~paused'
  <2>1. CASE new # rule /\ new.on /\ ~paused'
    BY <1>1, <1>2, <1>5, <1>6, <2>1, ScannedFact
  <2>2. CASE ~(new # rule /\ new.on /\ ~paused')
    BY <1>2, <1>6, <2>2
  <2> QED
    BY <2>1, <2>2
<1>9. Carries
  BY <1>2, <1>8, CarriesPending
<1>10. FlagParts
  BY <1>1, <1>2, <1>3, <1>5, <1>7 DEF FlagParts, FlagType
<1>11. CASE new = rule /\ UNCHANGED <<flag, fresh, raised>>
  <2>1. paused' => paused
    BY <1>2, Zenon
  <2>2. KeepsFlags
    BY <1>2, <1>9, <1>11, <2>1, Zenon DEF KeepsFlags
  <2> QED
    BY <1>10, <2>2, Zenon DEF FlagStep
<1>12. CASE /\ NewFlag
            /\ raised' = (raised \ {flag}) \cup (IF new.on THEN {fresh + 1} ELSE {})
  <2>1. rule'.on = new.on /\ flag' = fresh + 1
    BY <1>2, <1>12, Zenon DEF NewFlag
  <2>2. ChangesRule
    BY <1>2, <1>9, <1>12, <2>1, Zenon DEF ChangesRule
  <2> QED
    BY <1>10, <2>2, Zenon DEF FlagStep
<1> QED
  BY <1>4, <1>10, <1>11, <1>12

LEMMA PauseRuleFlags == ASSUME FlagType, PauseRule PROVE FlagParts /\ FlagStep
<1>1. rule' = rule /\ stray' = stray /\ queue' = queue /\ worker' = worker
  BY Zenon DEF PauseRule
<1>2. \A f \in thread'.ready : pending'[f] # NONE
  BY RespondReady, Zenon DEF PauseRule
<1>3. CASE rule.on
  <2>1. /\ raised' = raised \ {flag} /\ NewFlag
        /\ pending' = [f \in File |-> NONE]
    BY <1>3, Zenon DEF PauseRule, LoweredByPause, NewFlag
  <2>2. pending' \in [File -> Pending \cup {NONE}] /\ \A f \in File : pending'[f] = NONE
    BY <2>1
  <2>3. Carries
    BY <1>1, <2>2, CarriesPending
  <2>4. Pauses
    BY <1>1, <2>1, <2>3 DEF Pauses
  <2>5. FlagParts
    BY <1>1, <1>2, <2>1, <2>2 DEF FlagParts, FlagType, NewFlag
  <2> QED
    BY <2>4, <2>5, Zenon DEF FlagStep
<1>4. CASE ~rule.on
  <2>1. UNCHANGED <<raised, fresh, flag, paused, pending>>
    BY <1>4, Zenon DEF PauseRule
  <2>2. Carries
    BY <1>1, <2>1, CarriesPending
  <2>3. KeepsFlags
    BY <1>1, <2>1, <2>2, Zenon DEF KeepsFlags
  <2>4. FlagParts
    BY <1>1, <1>2, <2>1 DEF FlagParts, FlagType
  <2> QED
    BY <2>3, <2>4, Zenon DEF FlagStep
<1> QED
  BY <1>3, <1>4

LEMMA ResumeRuleFlags == ASSUME FlagType, ResumeRule PROVE FlagParts /\ FlagStep
<1>1. rule' = rule /\ queue' = queue /\ worker' = worker
  BY Zenon DEF ResumeRule
<1>2. \A f \in thread'.ready : pending'[f] # NONE
  BY RespondReady, Zenon DEF ResumeRule
<1>3. CASE rule.on
  <2>1. /\ raised' = raised \cup {fresh + 1} /\ NewFlag
        /\ stray' = stray \cup ({flag} \cap raised)
        /\ ~paused'
        /\ pending' = Scanned(pending, rule, flag')
    BY <1>3, Zenon DEF ResumeRule, NewFlag
  <2>2. flag' \in Nat /\ fresh' \in Nat /\ flag' = fresh + 1
    BY <2>1 DEF NewFlag, FlagType
  <2>3. pending' \in [File -> Pending \cup {NONE}]
        /\ \A f \in File : \/ pending'[f] = pending[f]
                           \/ pending'[f].flag = flag' /\ pending'[f].version = rule.version
    BY <2>1, <2>2, ScannedFact DEF FlagType
  <2>4. Carries
    BY <1>1, <2>1, <2>3, CarriesPending
  <2>5. Resumes
    BY <1>1, <1>3, <2>1, <2>2, <2>4, Zenon DEF Resumes
  <2>6. FlagParts
    BY <1>1, <1>2, <2>2, <2>3 DEF FlagParts, FlagType
  <2> QED
    BY <2>5, <2>6, Zenon DEF FlagStep
<1>4. CASE ~rule.on
  <2>1. UNCHANGED <<raised, fresh, flag, paused, pending, stray>>
    BY <1>4, Zenon DEF ResumeRule
  <2>2. Carries
    BY <1>1, <2>1, CarriesPending
  <2>3. KeepsFlags
    BY <1>1, <2>1, <2>2, Zenon DEF KeepsFlags
  <2>4. FlagParts
    BY <1>1, <1>2, <2>1 DEF FlagParts, FlagType
  <2> QED
    BY <2>3, <2>4, Zenon DEF FlagStep
<1> QED
  BY <1>3, <1>4

LEMMA CreateFolderFlags == ASSUME FlagType, CreateFolder PROVE FlagParts /\ FlagStep
<1>1. UNCHANGED ruleVars /\ queue' = queue /\ worker' = worker
  BY Zenon DEF CreateFolder
<1>2. /\ rule' = rule /\ flag' = flag /\ fresh' = fresh /\ raised' = raised
      /\ stray' = stray /\ (paused' <=> paused)
  BY <1>1, Zenon DEF ruleVars
<1>3. \A f \in thread'.ready : pending'[f] # NONE
  BY RespondReady, Zenon DEF CreateFolder
<1>4. \/ pending' = pending
      \/ ~paused /\ pending' = Scanned(pending, rule, flag)
  BY Zenon DEF CreateFolder
<1>5. pending' \in [File -> Pending \cup {NONE}]
      /\ \A f \in File : \/ pending'[f] = pending[f]
                         \/ /\ pending'[f].flag = flag'
                            /\ pending'[f].version = rule'.version
                            /\ ~paused'
  <2>1. CASE pending' = pending
    BY <2>1 DEF FlagType
  <2>2. CASE ~paused /\ pending' = Scanned(pending, rule, flag)
    <3>1. /\ Scanned(pending, rule, flag) \in [File -> Pending \cup {NONE}]
          /\ \A f \in File : \/ Scanned(pending, rule, flag)[f] = pending[f]
                             \/ /\ Scanned(pending, rule, flag)[f].flag = flag
                                /\ Scanned(pending, rule, flag)[f].version = rule.version
      BY ScannedFact DEF FlagType
    <3> QED
      BY <1>2, <2>2, <3>1
  <2> QED
    BY <1>4, <2>1, <2>2
<1>6. Carries
  BY <1>1, <1>5, CarriesPending
<1>7. KeepsFlags
  BY <1>2, <1>6, Zenon DEF KeepsFlags
<1>8. FlagParts
  BY <1>1, <1>2, <1>3, <1>5 DEF FlagParts, FlagType
<1> QED
  BY <1>7, <1>8, Zenon DEF FlagStep

\* A request carries what its file was pending with, or the current flag.
LEMMA CarriesRequest ==
  ASSUME FlagType, worker' = worker,
         \A h \in File : pending'[h] = pending[h] \/ pending'[h] = NONE,
         NEW f \in File, NEW g \in Nat, NEW v \in Version,
         queue' = Append(queue, Request(f, g, v)),
         Carried(g, v) \/ (g = flag' /\ v = rule'.version /\ ~paused')
  PROVE  Carries /\ queue' \in Seq(Asked)
<1>1. Request(f, g, v) \in Asked
      /\ Request(f, g, v).flag = g /\ Request(f, g, v).version = v
  BY DEF Request, Asked
<1>2. queue \in Seq(Asked)
  BY DEF FlagType
<1>3. /\ queue' \in Seq(Asked)
      /\ \A n \in DOMAIN queue' : \/ n \in DOMAIN queue /\ queue'[n] = queue[n]
                                  \/ queue'[n] = Request(f, g, v)
  BY <1>1, <1>2
<1> QED
  BY <1>1, <1>3 DEF Carries, Carried

LEMMA RetryOperationFlags == ASSUME FlagType, RetryOperation PROVE FlagParts /\ FlagStep
<1> DEFINE f == thread.command.do.file
<1>1. f \in File
  <2>1. thread.command \in Message /\ thread.command.do.kind = "retry"
    BY DEF RetryOperation, Processing, FlagType, IdType
  <2>2. thread.command.do \in Commands
    BY <2>1, CommandsAssumption DEF Message
  <2> QED
    BY <2>1, <2>2 DEF Commands
<1>2. UNCHANGED ruleVars /\ pending' = pending /\ worker' = worker
  BY Zenon DEF RetryOperation
<1>3. /\ rule' = rule /\ flag' = flag /\ fresh' = fresh /\ raised' = raised
      /\ stray' = stray /\ (paused' <=> paused)
  BY <1>2, Zenon DEF ruleVars
<1>4. \A h \in thread'.ready : pending'[h] # NONE
  BY RespondReady, Zenon DEF RetryOperation
<1>5. \/ queue' = queue
      \/ ~paused /\ queue' = Append(queue, Request(f, flag, rule.version))
  BY Zenon DEF RetryOperation
<1> HIDE DEF f
<1>6. Carries /\ queue' \in Seq(Asked)
  <2>1. CASE queue' = queue
    BY <1>2, <2>1, CarriesPending DEF FlagType
  <2>2. CASE ~paused /\ queue' = Append(queue, Request(f, flag, rule.version))
    <3>1. rule.version \in Version /\ flag \in Nat
      BY DEF FlagType, Rule
    <3>2. flag = flag' /\ rule.version = rule'.version /\ ~paused'
      BY <1>3, <2>2
    <3> QED
      BY <1>1, <1>2, <2>2, <3>1, <3>2, CarriesRequest
  <2> QED
    BY <1>5, <2>1, <2>2
<1>7. KeepsFlags
  BY <1>3, <1>6, Zenon DEF KeepsFlags
<1>8. FlagParts
  BY <1>2, <1>3, <1>4, <1>6 DEF FlagParts, FlagType
<1> QED
  BY <1>7, <1>8, Zenon DEF FlagStep

LEMMA StableFileFlags ==
  ASSUME FlagType, NEW f \in File, StableFile(f)
  PROVE  FlagParts /\ FlagStep
<1>1. UNCHANGED ruleVars /\ worker' = worker
      /\ f \in thread.ready /\ thread'.ready = thread.ready \ {f}
  <2>1. thread' = [thread EXCEPT !.ready = @ \ {f}] /\ f \in thread.ready
        /\ UNCHANGED ruleVars /\ worker' = worker
    BY Zenon DEF StableFile
  <2> QED
    BY <2>1 DEF FlagType, IdType, Thread
<1>2. /\ rule' = rule /\ flag' = flag /\ fresh' = fresh /\ raised' = raised
      /\ stray' = stray /\ (paused' <=> paused)
  BY <1>1, Zenon DEF ruleVars
<1>3. \/ pending' = [pending EXCEPT ![f] = NONE] /\ queue' = queue
      \/ pending' = pending /\ queue' = queue
      \/ /\ pending' = [pending EXCEPT ![f] = NONE]
         /\ queue' = Append(queue, Request(f, pending[f].flag, pending[f].version))
  BY Zenon DEF StableFile
<1>4. /\ pending' \in [File -> Pending \cup {NONE}]
      /\ \A h \in File : pending'[h] = pending[h] \/ pending'[h] = NONE
      /\ \A h \in File \ {f} : pending'[h] = pending[h]
  BY <1>3 DEF FlagType
<1>5. \A h \in thread'.ready : pending'[h] # NONE
  BY <1>1, <1>4 DEF FlagType, IdType, Thread
<1>6. Carries /\ queue' \in Seq(Asked)
  <2>1. CASE queue' = queue
    BY <1>1, <1>4, <2>1, CarriesPending DEF FlagType
  <2>2. CASE queue' = Append(queue, Request(f, pending[f].flag, pending[f].version))
    <3>1. pending[f] \in Pending
      BY <1>1 DEF FlagType
    <3>2. pending[f].flag \in Nat /\ pending[f].version \in Version
      BY <3>1 DEF Pending, Flag
    <3>3. Carried(pending[f].flag, pending[f].version)
      BY <1>1 DEF Carried, FlagType
    <3> QED
      BY <1>1, <1>4, <2>2, <3>2, <3>3, CarriesRequest
  <2> QED
    BY <1>3, <2>1, <2>2
<1>7. KeepsFlags
  BY <1>2, <1>6, Zenon DEF KeepsFlags
<1>8. FlagParts
  BY <1>1, <1>2, <1>4, <1>5, <1>6 DEF FlagParts, FlagType
<1> QED
  BY <1>7, <1>8, Zenon DEF FlagStep

LEMMA TailFact ==
  ASSUME NEW S, NEW q \in Seq(S), q # << >>
  PROVE  /\ Tail(q) \in Seq(S)
         /\ Head(q) = q[1] /\ q[1] \in S /\ 1 \in DOMAIN q
         /\ \A n \in DOMAIN Tail(q) : n + 1 \in DOMAIN q /\ Tail(q)[n] = q[n + 1]
  OBVIOUS

LEMMA WorkerFlags == ASSUME FlagType, Worker PROVE FlagParts /\ FlagStep
<1>1. UNCHANGED ruleVars /\ pending' = pending /\ thread' = thread
  BY Zenon DEF Worker, WorkerTakes, WorkerRechecks, WorkerMoves
<1>2. /\ rule' = rule /\ flag' = flag /\ fresh' = fresh /\ raised' = raised
      /\ stray' = stray /\ (paused' <=> paused)
  BY <1>1, Zenon DEF ruleVars
<1> DEFINE Workers == [pc : {"idle", "checked", "cleared"}, file : File \cup {NONE},
                       flag : Nat \cup {NONE}, version : Version \cup {NONE}]
<1>3. /\ queue' \in Seq(Asked)
      /\ worker' \in Workers
      /\ Carries
  <2>1. CASE WorkerTakes
    <3>1. /\ queue \in Seq(Asked) /\ queue # << >> /\ queue' = Tail(queue)
          /\ worker.pc = "idle"
      BY <2>1, Zenon DEF WorkerTakes, FlagType
    <3>2. \/ worker' = worker
          \/ worker' = [Head(queue) EXCEPT !.pc = "checked"]
      BY <2>1, Zenon DEF WorkerTakes
    <3>3. /\ queue' \in Seq(Asked)
          /\ Head(queue) = queue[1] /\ queue[1] \in Asked /\ 1 \in DOMAIN queue
          /\ \A n \in DOMAIN queue' : n + 1 \in DOMAIN queue /\ queue'[n] = queue[n + 1]
      BY <3>1, TailFact
    <3>4. \/ worker' = worker
          \/ /\ worker'.flag = queue[1].flag /\ worker'.version = queue[1].version
             /\ worker' \in Workers
      BY <3>2, <3>3 DEF Asked
    <3>5. worker' \in Workers
      BY <3>4 DEF FlagType
    <3> HIDE DEF Workers
    <3>6. Carries
      BY <1>1, <3>1, <3>3, <3>4 DEF Carries, Carried
    <3> QED
      BY <3>3, <3>5, <3>6
  <2>2. CASE WorkerRechecks
    <3>1. /\ queue' = queue /\ worker.pc = "checked"
          /\ \/ worker' = NoWork
             \/ worker' = [worker EXCEPT !.pc = "cleared"]
      BY <2>2, Zenon DEF WorkerRechecks
    <3>2. worker' \in Workers
      BY <3>1 DEF FlagType, NoWork
    <3>3. \/ worker'.pc = "idle"
          \/ worker'.flag = worker.flag /\ worker'.version = worker.version
      BY <3>1 DEF FlagType, NoWork
    <3>4. Carries
      BY <1>1, <3>1, <3>3 DEF Carries, Carried
    <3> QED
      BY <3>1, <3>2, <3>4 DEF FlagType
  <2>3. CASE WorkerMoves
    <3>1. queue' = queue /\ worker' = NoWork
      BY <2>3, Zenon DEF WorkerMoves
    <3>2. worker' \in Workers /\ worker'.pc = "idle"
      BY <3>1 DEF NoWork
    <3> QED
      BY <1>1, <3>1, <3>2 DEF Carries, Carried, FlagType
  <2> QED
    BY <2>1, <2>2, <2>3 DEF Worker
<1>4. KeepsFlags
  BY <1>2, <1>3, Zenon DEF KeepsFlags
<1>5. FlagParts
  BY <1>1, <1>2, <1>3 DEF FlagParts, FlagType
<1> QED
  BY <1>4, <1>5, Zenon DEF FlagStep

\* Everything else leaves rules, queue and worker alone.
Quiet == UNCHANGED <<ruleVars, queue, worker>>

LEMMA QuietFact ==
  ASSUME Quiet
  PROVE  /\ rule' = rule /\ flag' = flag /\ fresh' = fresh /\ raised' = raised
         /\ stray' = stray /\ (paused' <=> paused) /\ queue' = queue /\ worker' = worker
  BY Zenon DEF Quiet, ruleVars

LEMMA QuietFlags ==
  ASSUME FlagType, Quiet, pending' = pending,
         \A f \in thread'.ready : pending[f] # NONE
  PROVE  FlagParts /\ FlagStep
<1>1. Carries
  BY QuietFact, CarriesPending
<1>2. KeepsFlags
  BY <1>1, QuietFact, Zenon DEF KeepsFlags
<1>3. FlagParts
  BY QuietFact DEF FlagParts, FlagType
<1> QED
  BY <1>2, <1>3, Zenon DEF FlagStep

LEMMA HealthFlags == ASSUME FlagType, HealthCheck PROVE FlagParts /\ FlagStep
<1>1. Quiet /\ thread' = thread
  BY Zenon DEF HealthCheck, Quiet
<1>2. pending' = [f \in File |-> IF pending[f] = NONE THEN NONE
                                 ELSE [pending[f] EXCEPT !.ripe = TRUE]]
  BY Zenon DEF HealthCheck
<1>3. \A f \in File :
        IF pending[f] = NONE THEN pending'[f] = NONE
        ELSE /\ pending'[f] \in Pending
             /\ pending'[f].flag = pending[f].flag
             /\ pending'[f].version = pending[f].version
  <2> SUFFICES ASSUME NEW f \in File, pending[f] # NONE
               PROVE  /\ pending'[f] \in Pending
                      /\ pending'[f].flag = pending[f].flag
                      /\ pending'[f].version = pending[f].version
    BY <1>2
  <2>1. pending[f] \in Pending /\ pending'[f] = [pending[f] EXCEPT !.ripe = TRUE]
    BY <1>2 DEF FlagType
  <2>2. \A p \in Pending : /\ [p EXCEPT !.ripe = TRUE] \in Pending
                            /\ [p EXCEPT !.ripe = TRUE].flag = p.flag
                            /\ [p EXCEPT !.ripe = TRUE].version = p.version
    BY DEF Pending
  <2> QED
    BY <2>1, <2>2
<1>4. NONE \notin Pending
  BY CommandsAssumption
<1>5. pending' \in [File -> Pending \cup {NONE}]
  BY <1>2, <1>3
<1>6. Carries
  BY <1>1, <1>3, QuietFact DEF Carries, Carried
<1>7. KeepsFlags
  BY <1>1, <1>6, QuietFact, Zenon DEF KeepsFlags
<1>8. \A f \in thread'.ready : pending'[f] # NONE
  <2>1. thread'.ready = thread.ready /\ thread.ready \subseteq File
    BY <1>1 DEF FlagType, IdType, Thread
  <2> QED
    BY <1>3, <1>4, <2>1 DEF FlagType
<1>9. FlagParts
  BY <1>1, <1>5, <1>8, QuietFact DEF FlagParts, FlagType
<1> QED
  BY <1>7, <1>9, Zenon DEF FlagStep

LEMMA EveryFlagStep == ASSUME FlagType, Next PROVE FlagParts /\ FlagStep
<1>1. CASE Interface \/ Dropping
  <2>1. Quiet /\ pending' = pending /\ thread' = thread
    <3>1. ASSUME NEW c \in Requests, Enqueue(c)
          PROVE  Quiet /\ pending' = pending /\ thread' = thread
      BY <3>1, Zenon DEF Enqueue, Quiet, fileVars
    <3>2. CASE ReadEvents \/ DropFlag \/ DropStop \/ DropEnd
      BY <3>2, Zenon DEF ReadEvents, DropFlag, DropStop, DropEnd, Quiet, fileVars
    <3> QED
      BY <1>1, <3>1, <3>2, Zenon DEF Interface, Dropping
  <2> QED
    BY <2>1, QuietFlags DEF FlagType
<1>2. CASE HealthCheck
  BY <1>2, HealthFlags
<1>3. CASE Receive
  <2>1. Quiet /\ pending' = pending
    BY <1>3, Zenon DEF Receive, Quiet, fileVars
  <2>2. \/ thread' = Leave
        \/ thread' = Place("command", Head(channel), 0, {})
        \/ thread' = Place("files", NONE, 0, Ripe)
    BY <1>3, Zenon DEF Receive
  <2>3. \A f \in thread'.ready : pending[f] # NONE
    BY <2>2 DEF Leave, Place, Ripe
  <2> QED
    BY <2>1, <2>3, QuietFlags
<1>4. CASE RejectRules
  <2>1. Quiet /\ pending' = pending
    BY <1>4, Zenon DEF RejectRules, Quiet, fileVars
  <2>2. \A f \in thread'.ready : pending'[f] # NONE
    BY <1>4, RespondReady, Zenon DEF RejectRules
  <2> QED
    BY <2>1, <2>2, QuietFlags
<1>5. CASE LeaveBatch \/ FilesDone \/ Panic \/ Hang
  <2>1. Quiet /\ pending' = pending
    BY <1>5, Zenon DEF LeaveBatch, FilesDone, Panic, Hang, Quiet, fileVars
  <2>2. thread'.ready \subseteq thread.ready
    <3>1. CASE LeaveBatch \/ Panic
      BY <3>1 DEF LeaveBatch, Panic, Leave, Place
    <3>2. CASE FilesDone
      BY <3>2 DEF FilesDone, NoPlace
    <3>3. CASE Hang
      BY <3>3 DEF Hang, FlagType, IdType, Thread
    <3> QED
      BY <1>5, <3>1, <3>2, <3>3
  <2> QED
    BY <2>1, <2>2, QuietFlags DEF FlagType
<1>6. CASE Unwind
  <2>1. Quiet /\ pending' = [f \in File |-> NONE]
    BY <1>6, Zenon DEF Unwind, Quiet
  <2>2. /\ pending' \in [File -> Pending \cup {NONE}]
        /\ \A f \in File : pending'[f] = NONE
    BY <2>1
  <2>3. Carries
    BY <2>1, <2>2, QuietFact, CarriesPending
  <2>4. KeepsFlags
    BY <2>3, <2>1, QuietFact, Zenon DEF KeepsFlags
  <2>5. thread'.ready = {}
    BY <1>6 DEF Unwind, Place
  <2>6. FlagParts
    BY <2>1, <2>2, <2>5, QuietFact DEF FlagParts, FlagType
  <2> QED
    BY <2>4, <2>6, Zenon DEF FlagStep
<1> QED
  BY <1>1, <1>2, <1>3, <1>4, <1>5, <1>6, SetRulesFlags, PauseRuleFlags,
     ResumeRuleFlags, CreateFolderFlags, RetryOperationFlags, StableFileFlags,
     WorkerFlags, Zenon DEF Next, Loop, Command

LEMMA FlagStepKeeps == ASSUME FlagType, FlagInv, FlagStep PROVE FlagInv'
  BY KeepsFlagsKeeps, ChangesRuleKeeps, PausesKeeps, ResumesKeeps, Zenon DEF FlagStep

LEMMA FlagInit == Init => FlagType /\ FlagInv
<1> SUFFICES ASSUME Init PROVE FlagType /\ FlagInv
  OBVIOUS
<1>1. /\ flag = 0 /\ fresh = 0 /\ stray = {} /\ queue = << >> /\ worker = NoWork
      /\ raised = (IF rule.on THEN {0} ELSE {})
      /\ ~paused
      /\ pending = [f \in File |-> IF rule.on
            THEN [flag |-> 0, version |-> rule.version, ripe |-> FALSE] ELSE NONE]
  BY Zenon DEF Init
<1>2. rule \in Rule /\ rule.version \in Version
  <2>1. PICK r \in Rule : ui.rule = r
    BY CommandsAssumption DEF Init
  <2>2. rule = r \/ rule = [r EXCEPT !.on = FALSE]
    BY <2>1 DEF Init, InForceAs
  <2> QED
    BY <2>1, <2>2 DEF Rule
<1>3. [flag |-> 0, version |-> rule.version, ripe |-> FALSE] \in Pending
  BY <1>2 DEF Pending, Flag
<1>4. pending \in [File -> Pending \cup {NONE}]
  BY <1>1, <1>3
<1>5. /\ worker \in [pc : {"idle", "checked", "cleared"}, file : File \cup {NONE},
                    flag : Nat \cup {NONE}, version : Version \cup {NONE}]
      /\ worker.pc = "idle"
  BY <1>1 DEF NoWork
<1>6. queue \in Seq(Asked) /\ DOMAIN queue = {}
  BY <1>1
<1>7. thread.ready = {}
  BY DEF Init, NoPlace
<1>8. IdType
  BY IdInit DEF IdInv
<1>9. FlagType
  BY <1>1, <1>2, <1>4, <1>5, <1>6, <1>7, <1>8 DEF FlagType
<1>10. \A g, v : Carried(g, v) => g = 0 /\ v = rule.version
  BY <1>1, <1>4, <1>5, <1>6 DEF Carried
<1>11. FlagInv
  BY <1>1, <1>10 DEF FlagInv
<1> QED
  BY <1>9, <1>11

\* A file that passes the worker's last check belongs to a rule in force, in
\* the version that matched it; by the invariant this is what a raised flag
\* means, unless a second resume has left it behind.
THEOREM CommandsRevoked == Spec => RevokedIsNotStarted
<1> DEFINE Inv == IdInv /\ FlagType /\ FlagInv
           Step == worker.pc = "checked" /\ worker'.pc = "cleared" /\ worker.flag \notin stray
                     => ClearedInForce(worker)
<1>1. Init => Inv
  BY IdInit, FlagInit
<1>2. ASSUME Inv, [Next]_vars PROVE Inv'
  <2>1. CASE Next
    <3>1. IdInv' /\ IdType'
      BY <1>2, <2>1, EveryIdStep, IdStepKeeps DEF IdInv
    <3>2. FlagParts /\ FlagInv'
      BY <1>2, <2>1, EveryFlagStep, FlagStepKeeps
    <3>3. FlagType'
      BY <3>1, <3>2 DEF FlagParts, FlagType
    <3> QED
      BY <3>1, <3>2, <3>3
  <2>2. CASE UNCHANGED vars
    <3>1. UNCHANGED idParts /\ Quiet /\ pending' = pending /\ thread' = thread
      BY <2>2, Zenon DEF vars, idVars, idParts, fileVars, Quiet
    <3>2. IdInv' /\ IdType'
      BY <1>2, <3>1, IdStepKeeps DEF IdStep, IdInv
    <3>3. FlagParts /\ FlagInv'
      BY <1>2, <3>1, QuietFlags, FlagStepKeeps DEF FlagType
    <3>4. FlagType'
      BY <3>2, <3>3 DEF FlagParts, FlagType
    <3> QED
      BY <3>2, <3>3, <3>4
  <2> QED
    BY <1>2, <2>1, <2>2
<1>3. ASSUME Inv, [Next]_vars PROVE [Step]_vars
  <2>1. CASE WorkerRechecks
    <3> SUFFICES ASSUME worker.pc = "checked", worker'.pc = "cleared", worker.flag \notin stray
                 PROVE  ClearedInForce(worker)
      OBVIOUS
    <3>1. Allowed(worker)
      BY <2>1 DEF WorkerRechecks, NoWork
    <3>2. ~shutdown /\ worker.flag \in raised \ stray
      BY <3>1 DEF Allowed
    <3>3. rule.on
      BY <1>3, <3>2 DEF FlagInv
    <3>4. Carried(worker.flag, worker.version)
      BY DEF Carried
    <3>5. worker.version = rule.version /\ ~paused
      BY <1>3, <3>2, <3>4 DEF FlagInv
    <3> QED
      BY <3>2, <3>3, <3>5 DEF ClearedInForce
  <2>2. CASE WorkerTakes
    BY <2>2 DEF WorkerTakes
  <2>3. CASE WorkerMoves
    BY <2>3 DEF WorkerMoves
  <2>4. CASE Next /\ ~Worker
    <3>1. worker' = worker
      BY <2>4, Zenon DEF Next, Interface, Enqueue, ReadEvents, DropFlag, Dropping, DropStop,
         DropEnd, Loop, HealthCheck, Receive, Command, SetRules, PauseRule, ResumeRule,
         CreateFolder, RetryOperation, RejectRules, LeaveBatch, StableFile, FilesDone,
         Unwind, Panic, Hang, fileVars
    <3> QED
      BY <3>1
  <2>5. CASE UNCHANGED vars
    BY <2>5
  <2> QED
    BY <1>3, <2>1, <2>2, <2>3, <2>4, <2>5 DEF Worker
<1> QED
  BY <1>1, <1>2, <1>3, PTL DEF Spec, RevokedIsNotStarted

(***************************************************************************)
(* Types.  IdInv, FlagType and FlagInv type the commands, the rule and the *)
(* flags; the rest is what the interface sees and what the worker leaves.  *)
(***************************************************************************)
Ui == [rule : Rule, status : Says, sets : [Id -> Rule \cup {NONE}]]

OutType ==
  /\ manager \in {"up", "flagged", "stopped", "gone"}
  /\ shutdown \in BOOLEAN /\ running \in BOOLEAN /\ paused \in BOOLEAN
  /\ events \in Seq(Event)
  /\ ui \in Ui
  /\ stored \in {"accepted", "refused"}
  /\ reported \in Statuses
  /\ faults \in 0..MaxFaults

FilesType ==
  /\ inFlight \subseteq File /\ retryable \subseteq File /\ moved \subseteq File
  /\ worker = NoWork \/ (worker \in Work /\ worker.pc \in {"checked", "cleared"})

\* What the rule says and whether it is paused decide its status.
LEMMA StatusFact == StatusOf \in Statuses
  BY Zenon DEF StatusOf, Statuses

LEMMA BoolsKept ==
  ASSUME OutType, Next
  PROVE  shutdown' \in BOOLEAN /\ running' \in BOOLEAN /\ paused' \in BOOLEAN
<1>1. shutdown \in BOOLEAN /\ running \in BOOLEAN /\ paused \in BOOLEAN
  BY Zenon DEF OutType
<1> DEFINE Goal == shutdown' \in BOOLEAN /\ running' \in BOOLEAN /\ paused' \in BOOLEAN
<1>2. ASSUME NEW c \in Requests, Enqueue(c) PROVE Goal
  BY <1>1, <1>2, Zenon DEF Enqueue, ruleVars
<1>3. CASE ReadEvents \/ DropFlag \/ DropStop \/ DropEnd
  BY <1>1, <1>3, Zenon DEF ReadEvents, DropFlag, DropStop, DropEnd, ruleVars, idVars
<1>4. CASE HealthCheck \/ Receive \/ LeaveBatch \/ FilesDone \/ Unwind \/ Panic \/ Hang
  BY <1>1, <1>4, Zenon DEF HealthCheck, Receive, LeaveBatch, FilesDone, Unwind, StillRunning,
     Panic, Hang, ruleVars, idVars
<1>5. ASSUME NEW f \in File, StableFile(f) PROVE Goal
  BY <1>1, <1>5, Zenon DEF StableFile, ruleVars, idVars
<1>6. CASE Worker
  BY <1>1, <1>6, Zenon DEF Worker, WorkerTakes, WorkerRechecks, WorkerMoves, ruleVars, idVars
<1>7. CASE RejectRules \/ CreateFolder \/ RetryOperation
  BY <1>1, <1>7, Zenon DEF RejectRules, CreateFolder, RetryOperation, Processing, ruleVars
<1>8. CASE SetRules
  <2>1. shutdown' = shutdown /\ running' = running
        /\ paused' = (paused /\ thread.command.do.rule.on)
    BY <1>8, Zenon DEF SetRules, Processing
  <2>2. (paused /\ thread.command.do.rule.on) \in BOOLEAN
    BY SMT
  <2>3. paused' \in BOOLEAN
    BY <2>1, <2>2, Zenon
  <2> QED
    BY <1>1, <2>1, <2>3, Zenon
<1>9. CASE PauseRule \/ ResumeRule
  BY <1>1, <1>9, Zenon DEF PauseRule, ResumeRule, Processing
<1> QED
  BY <1>2, <1>3, <1>4, <1>5, <1>6, <1>7, <1>8, <1>9, Zenon
     DEF Next, Interface, Dropping, Loop, Command

LEMMA StoredKept ==
  ASSUME OutType, Next
  PROVE  stored' \in {"accepted", "refused"}
<1>1. ASSUME UNCHANGED ruleVars PROVE stored' = stored
  BY <1>1, Zenon DEF ruleVars
<1>2. stored' = stored \/ stored' = "accepted"
  BY <1>1, Zenon DEF Next, Interface, Dropping, Loop, Command, Worker, Enqueue, ReadEvents,
     DropFlag, DropStop, DropEnd, HealthCheck, Receive, LeaveBatch, FilesDone, Unwind, Panic,
     Hang, StableFile, WorkerTakes, WorkerRechecks, WorkerMoves, SetRules, PauseRule,
     ResumeRule, CreateFolder, RetryOperation, RejectRules
<1> QED
  BY <1>2 DEF OutType

LEMMA CountsKept ==
  ASSUME OutType, Next
  PROVE  /\ manager' \in {"up", "flagged", "stopped", "gone"}
         /\ manager' = "up" => manager = "up"
         /\ reported' \in Statuses
         /\ faults' \in 0..MaxFaults
<1> DEFINE Goal == /\ manager' \in {"up", "flagged", "stopped", "gone"}
                   /\ manager' = "up" => manager = "up"
                   /\ reported' \in Statuses
                   /\ faults' \in 0..MaxFaults
<1>1. CASE UNCHANGED <<manager, reported, faults>>
  BY <1>1, Zenon DEF OutType
<1>2. CASE DropFlag \/ DropStop \/ DropEnd
  BY <1>2, Zenon DEF DropFlag, DropStop, DropEnd, OutType
<1>3. CASE HealthCheck
  BY <1>3, StatusFact, Zenon DEF HealthCheck, OutType
<1>4. CASE Panic \/ Hang
  <2>1. manager' = manager /\ reported' = reported /\ faults < MaxFaults /\ faults' = faults + 1
    BY <1>4, Zenon DEF Panic, Hang
  <2>2. faults' \in 0..MaxFaults
    BY <2>1, CommandsAssumption DEF OutType
  <2> QED
    BY <2>1, <2>2, Zenon DEF OutType
<1>5. ASSUME NEW c \in Requests, Enqueue(c) PROVE UNCHANGED <<manager, reported, faults>>
  BY <1>5, Zenon DEF Enqueue
<1>6. ASSUME NEW f \in File, StableFile(f) PROVE UNCHANGED <<manager, reported, faults>>
  BY <1>6, Zenon DEF StableFile
<1>7. CASE ReadEvents \/ Receive \/ LeaveBatch \/ FilesDone \/ Unwind
  BY <1>1, <1>7, Zenon DEF ReadEvents, Receive, LeaveBatch, FilesDone, Unwind
<1>8. CASE Worker
  BY <1>1, <1>8, Zenon DEF Worker, WorkerTakes, WorkerRechecks, WorkerMoves
<1>9. CASE Command
  BY <1>1, <1>9, Zenon DEF Command, SetRules, PauseRule, ResumeRule, CreateFolder,
     RetryOperation, RejectRules, Processing
<1> QED
  BY <1>1, <1>2, <1>3, <1>4, <1>5, <1>6, <1>7, <1>8, <1>9, Zenon
     DEF Next, Interface, Dropping, Loop

LEMMA FilesKept == ASSUME FlagType, FilesType, Next PROVE FilesType'
<1>1. CASE UNCHANGED <<inFlight, retryable, moved, worker>>
  BY <1>1 DEF FilesType
<1>2. CASE RetryOperation
  <2>1. thread.command.do.file \in File
    <3>1. thread.command \in Message /\ thread.command.do.kind = "retry"
      BY <1>2 DEF RetryOperation, Processing, FlagType, IdType
    <3>2. thread.command.do \in Commands
      BY <3>1, CommandsAssumption DEF Message
    <3> QED
      BY <3>1, <3>2 DEF Commands
  <2>2. /\ UNCHANGED <<worker, retryable, moved>>
        /\ inFlight' = inFlight \/ inFlight' = inFlight \cup {thread.command.do.file}
    BY <1>2, Zenon DEF RetryOperation
  <2> QED
    BY <2>1, <2>2 DEF FilesType
<1>3. ASSUME NEW f \in File, StableFile(f) PROVE FilesType'
  <2>1. /\ UNCHANGED <<worker, retryable, moved>>
        /\ inFlight' = inFlight \/ inFlight' = inFlight \cup {f}
    BY <1>3, Zenon DEF StableFile
  <2> QED
    BY <2>1 DEF FilesType
<1>4. CASE WorkerTakes
  <2>1. Head(queue) \in Asked
    BY <1>4, TailFact DEF WorkerTakes, FlagType
  <2>2. /\ moved' = moved
        /\ \/ worker' = [Head(queue) EXCEPT !.pc = "checked"] /\ UNCHANGED <<inFlight, retryable>>
           \/ /\ inFlight' = inFlight \ {Head(queue).file}
              /\ retryable' = retryable \cup {Head(queue).file}
              /\ worker' = worker
    BY <1>4, Zenon DEF WorkerTakes
  <2>3. /\ Head(queue).file \in File
        /\ [Head(queue) EXCEPT !.pc = "checked"] \in Work
        /\ [Head(queue) EXCEPT !.pc = "checked"].pc = "checked"
    BY <2>1 DEF Asked, Work, Flag
  <2> QED
    BY <2>2, <2>3 DEF FilesType
<1>5. CASE WorkerRechecks
  <2>1. worker \in Work
    BY <1>5 DEF WorkerRechecks, FilesType, NoWork
  <2>2. /\ moved' = moved
        /\ \/ worker' = [worker EXCEPT !.pc = "cleared"] /\ UNCHANGED <<inFlight, retryable>>
           \/ /\ inFlight' = inFlight \ {worker.file}
              /\ retryable' = retryable \cup {worker.file}
              /\ worker' = NoWork
    BY <1>5, Zenon DEF WorkerRechecks
  <2>3. /\ worker.file \in File
        /\ [worker EXCEPT !.pc = "cleared"] \in Work
        /\ [worker EXCEPT !.pc = "cleared"].pc = "cleared"
    BY <2>1 DEF Work
  <2> QED
    BY <2>2, <2>3 DEF FilesType
<1>6. CASE WorkerMoves
  <2>1. worker.file \in File
    BY <1>6 DEF WorkerMoves, FilesType, NoWork, Work
  <2> QED
    BY <1>6, <2>1 DEF WorkerMoves, FilesType
<1>7. ASSUME NEW c \in Requests, Enqueue(c) PROVE UNCHANGED <<inFlight, retryable, moved, worker>>
  BY <1>7, Zenon DEF Enqueue, fileVars
<1>8. CASE ReadEvents \/ DropFlag \/ DropStop \/ DropEnd
  BY <1>1, <1>8, Zenon DEF ReadEvents, DropFlag, DropStop, DropEnd, fileVars
<1>9. CASE HealthCheck \/ Receive \/ LeaveBatch \/ FilesDone \/ Unwind \/ Panic \/ Hang
  BY <1>1, <1>9, Zenon DEF HealthCheck, Receive, LeaveBatch, FilesDone, Unwind, Panic, Hang,
     fileVars
<1>10. CASE SetRules \/ PauseRule \/ ResumeRule \/ CreateFolder \/ RejectRules
  BY <1>1, <1>10, Zenon DEF SetRules, PauseRule, ResumeRule, CreateFolder, RejectRules, fileVars
<1> QED
  BY <1>1, <1>2, <1>3, <1>4, <1>5, <1>6, <1>7, <1>8, <1>9, <1>10, Zenon
     DEF Next, Interface, Dropping, Loop, Command, Worker

(***************************************************************************)
(* What the interface shows.  An event that confirms a set of rules is an  *)
(* answer to one that the interface still remembers.                       *)
(***************************************************************************)
Confirming(n) ==
  /\ n \in DOMAIN events /\ events[n].id # 0
  /\ ui.sets[events[n].id] # NONE /\ Confirms(events[n])

\* Without such an event the rule shown is in force; otherwise the set that
\* the last of them confirms is.
ShownThen ==
  /\ (\A n \in DOMAIN events : ~Confirming(n)) => InForceAs(ui.rule)
  /\ \A n \in DOMAIN events :
       Confirming(n) /\ (\A m \in DOMAIN events : Confirming(m) => m <= n)
         => ui.sets[events[n].id] = rule /\ stored = "accepted"

\* The interface remembers the set of every command that is under way, and has
\* an event only for a command that was answered.
SetsKept ==
  /\ \A n \in DOMAIN channel : ui.sets[channel[n].id] = channel[n].do.rule
  /\ thread.pc = "command" => ui.sets[thread.command.id] = thread.command.do.rule

EventsAnswered == \A n \in DOMAIN events : events[n].id # 0 => sent[events[n].id] > 0

ShownInv == manager = "up" => ShownThen /\ SetsKept /\ EventsAnswered

\* Of a step that is no command of the interface: the set of a command under
\* way stays remembered, and answers are not taken back.
Moves == PutsDown \/ Takes \/ Answers \/ Drains \/ UNCHANGED idParts

LEMMA StepMoves == ASSUME IdInv, Next, counter' = counter PROVE Moves
<1>1. ~Accepts
  BY FollowingFact DEF Accepts, IdInv, IdType
<1> QED
  BY <1>1, EveryIdStep, Zenon DEF IdStep, Moves

LEMMA MovesSets ==
  ASSUME IdInv, Moves, SetsKept, ui' = ui
  PROVE  SetsKept'
<1>1. CASE PutsDown
  BY <1>1 DEF PutsDown, SetsKept
<1>2. ASSUME TakesNext PROVE SetsKept'
  BY <1>2, NextFact DEF SetsKept
<1>3. CASE Takes
  BY <1>2, <1>3 DEF Takes
<1>4. CASE Answers
  <2>1. CASE thread' \in Thread /\ thread'.pc # "command" /\ channel' = channel
    BY <2>1 DEF SetsKept
  <2> QED
    BY <1>2, <1>4, <2>1 DEF Answers
<1>5. CASE Drains
  <2>1. CASE UNCHANGED <<channel, sent, thread>>
    BY <2>1 DEF SetsKept
  <2>2. CASE channel' = << >> /\ thread'.pc # "command"
    BY <2>2 DEF SetsKept
  <2> QED
    BY <1>5, <2>1, <2>2 DEF Drains
<1>6. CASE UNCHANGED idParts
  BY <1>6 DEF idParts, SetsKept
<1> QED
  BY <1>1, <1>3, <1>4, <1>5, <1>6 DEF Moves

LEMMA MovesSent == ASSUME IdInv, Moves PROVE \A i \in Id : sent'[i] >= sent[i]
<1>1. sent \in [Id -> Nat]
  BY DEF IdInv, IdType
<1>2. CASE Answers
  <2>1. thread.command.id \in Id /\ sent' = [sent EXCEPT ![thread.command.id] = @ + 1]
    BY <1>2 DEF Answers, IdInv, IdType, Message
  <2> QED
    BY <1>1, <2>1
<1>3. CASE Drains
  BY <1>1, <1>3 DEF Drains
<1>4. CASE sent' = sent
  BY <1>1, <1>4
<1> QED
  BY <1>2, <1>3, <1>4 DEF Moves, PutsDown, Takes, idParts

\* Events that come behind the others and confirm nothing.
Silent ==
  /\ events' \in Seq(Event)
  /\ DOMAIN events \subseteq DOMAIN events'
  /\ \A n \in DOMAIN events : events'[n] = events[n]
  /\ \A n \in DOMAIN events' \ DOMAIN events : events'[n].id # 0 =>
       /\ sent'[events'[n].id] > 0
       /\ ~(ui.sets[events'[n].id] # NONE /\ Confirms(events'[n]))

LEMMA EventIds ==
  ASSUME OutType
  PROVE  \A n \in DOMAIN events : events[n] \in Event /\ events[n].says \in Says
                                  /\ (events[n].id # 0 => events[n].id \in Id)
<1>1. \A n \in DOMAIN events : events[n] \in Event
  BY DEF OutType
<1> QED
  BY <1>1, CommandsAssumption DEF Event, Id

LEMMA SilentKeeps ==
  ASSUME IdInv, OutType, ShownThen, EventsAnswered, ui' = ui, UNCHANGED <<rule, stored>>, Silent,
         sent' \in [Id -> Nat], \A i \in Id : sent'[i] >= sent[i]
  PROVE  ShownThen' /\ EventsAnswered'
<1>1. \A n \in DOMAIN events' : Confirming(n)' <=> n \in DOMAIN events /\ Confirming(n)
  BY DEF Silent, Confirming
<1>2. \A n : Confirming(n)' <=> Confirming(n)
  BY <1>1 DEF Confirming, Silent
<1>3. ShownThen'
  BY <1>2 DEF ShownThen, Silent, Confirming, InForceAs
<1>4. EventsAnswered'
  <2> SUFFICES ASSUME NEW n \in DOMAIN events', events'[n].id # 0
               PROVE  sent'[events'[n].id] > 0
    BY DEF EventsAnswered
  <2>1. CASE n \in DOMAIN events
    <3>1. events'[n] = events[n] /\ events[n].id \in Id /\ sent[events[n].id] > 0
      BY <2>1, EventIds DEF Silent, EventsAnswered
    <3>2. \A i \in Id : sent[i] \in Nat /\ sent'[i] \in Nat
      BY DEF IdInv, IdType
    <3> QED
      BY <3>1, <3>2
  <2>2. CASE n \notin DOMAIN events
    BY <2>2 DEF Silent
  <2> QED
    BY <2>1, <2>2
<1> QED
  BY <1>3, <1>4

\* The choice of the last event finds one.
LEMMA LastFact ==
  ASSUME NEW S \in SUBSET Nat, S # {}, NEW n \in Nat, \A y \in S : y <= n
  PROVE  LastOf(S) \in S /\ \A y \in S : y <= LastOf(S)
<1> DEFINE T == {m \in Nat : \A y \in S : y <= m}
           R == OpToRel(<, Nat)
<1>1. PICK m \in T : \A k \in T : <<k, m>> \notin R
  <2>1. n \in T /\ T \subseteq Nat
    OBVIOUS
  <2> HIDE DEF T
  <2> QED
    BY <2>1, NatLessThanWellFounded, WFMin
<1>2. \A k \in T : ~(k < m)
  BY <1>1 DEF OpToRel
<1>3. m \in Nat /\ \A y \in S : y \in Nat /\ y <= m
  OBVIOUS
<1>4. m \in S
  <2> SUFFICES ASSUME m \notin S PROVE FALSE
    OBVIOUS
  <2>1. \A y \in S : y < m
    BY <1>3
  <2>2. PICK y \in S : TRUE
    OBVIOUS
  <2>3. m - 1 \in Nat
    BY <1>3, <2>1, <2>2
  <2>4. \A x \in S : x <= m - 1
    BY <1>3, <2>1
  <2>5. m - 1 \in T
    BY <2>3, <2>4
  <2> HIDE DEF T
  <2> QED
    BY <1>2, <1>3, <2>5
<1> HIDE DEF T
<1> QED
  BY <1>3, <1>4 DEF LastOf

\* The two choices of process_organizer_events.
LEMMA ReadFact ==
  ASSUME OutType, ReadEvents
  PROVE  /\ events' = << >> /\ UNCHANGED <<rule, stored>> /\ manager' = manager /\ ui' \in Ui
         /\ \/ ui'.rule = ui.rule /\ \A n \in DOMAIN events : ~Confirming(n)
            \/ \E n \in DOMAIN events :
                 /\ Confirming(n) /\ \A m \in DOMAIN events : Confirming(m) => m <= n
                 /\ ui'.rule = ui.sets[events[n].id]
         /\ \A i \in Id : ui'.sets[i] = ui.sets[i] \/ \E n \in DOMAIN events :
                            events[n].id # 0 /\ events[n].id = i
<1> DEFINE statuses == {n \in DOMAIN events : events[n].id = 0}
           answered == {events[n].id : n \in DOMAIN events} \ {0}
           confirmed == {n \in DOMAIN events \ statuses :
                           ui.sets[events[n].id] # NONE /\ Confirms(events[n])}
<1>1. /\ events' = << >> /\ UNCHANGED ruleVars /\ manager' = manager
      /\ ui' = [rule |-> IF confirmed = {} THEN ui.rule
                         ELSE ui.sets[events[LastOf(confirmed)].id],
                status |-> IF statuses = {} THEN ui.status
                           ELSE events[LastOf(statuses)].says,
                sets |-> [i \in Id |-> IF i \in answered THEN NONE ELSE ui.sets[i]]]
  BY Zenon DEF ReadEvents
<1>2. UNCHANGED <<rule, stored>>
  BY <1>1, Zenon DEF ruleVars
<1>3. DOMAIN events = 1..Len(events) /\ Len(events) \in Nat
  BY DEF OutType
<1>4. ui.rule \in Rule /\ ui.status \in Says /\ ui.sets \in [Id -> Rule \cup {NONE}]
  BY DEF OutType, Ui
<1>5. \A n \in DOMAIN events : n \in confirmed <=> Confirming(n)
  BY DEF Confirming
<1>6. /\ confirmed \subseteq DOMAIN events
      /\ confirmed # {} => /\ LastOf(confirmed) \in confirmed
                           /\ \A m \in confirmed : m <= LastOf(confirmed)
  <2>1. confirmed \in SUBSET Nat /\ \A m \in confirmed : m <= Len(events)
    BY <1>3
  <2>2. confirmed \subseteq DOMAIN events
    OBVIOUS
  <2> HIDE DEF confirmed
  <2> QED
    BY <1>3, <2>1, <2>2, LastFact
<1>7. statuses # {} => LastOf(statuses) \in DOMAIN events
  <2>1. statuses \in SUBSET Nat /\ \A m \in statuses : m <= Len(events)
    BY <1>3
  <2>2. statuses \subseteq DOMAIN events
    OBVIOUS
  <2> HIDE DEF statuses
  <2> QED
    BY <1>3, <2>1, <2>2, LastFact
<1>8. \A i \in Id : i \in answered => \E n \in DOMAIN events : events[n].id # 0 /\ events[n].id = i
  OBVIOUS
<1>9. confirmed # {} => ui.sets[events[LastOf(confirmed)].id] \in Rule
  BY <1>4, <1>5, <1>6, EventIds DEF Confirming
<1>10. statuses # {} => events[LastOf(statuses)].says \in Says
  BY <1>7, EventIds
<1> HIDE DEF statuses, answered, confirmed
<1>11. ui'.rule \in Rule /\ ui'.status \in Says /\ ui'.sets \in [Id -> Rule \cup {NONE}]
  BY <1>1, <1>4, <1>9, <1>10
<1>12. ui' \in Ui
  BY <1>1, <1>11 DEF Ui
<1>13. CASE confirmed = {}
  <2>1. ui'.rule = ui.rule /\ \A n \in DOMAIN events : ~Confirming(n)
    BY <1>1, <1>5, <1>13
  <2> QED
    BY <1>1, <1>2, <1>8, <1>12, <2>1
<1>14. CASE confirmed # {}
  <2>1. LastOf(confirmed) \in DOMAIN events /\ Confirming(LastOf(confirmed))
        /\ \A m \in DOMAIN events : Confirming(m) => m <= LastOf(confirmed)
    BY <1>5, <1>6, <1>14
  <2>2. ui'.rule = ui.sets[events[LastOf(confirmed)].id]
    BY <1>1, <1>14
  <2> QED
    BY <1>1, <1>2, <1>8, <1>12, <2>1, <2>2
<1> QED
  BY <1>13, <1>14

\* Every confirmed set that comes in is shown, and what is under way is not
\* among what was answered.
LEMMA ReadShown ==
  ASSUME IdInv, OutType, ShownInv, ReadEvents
  PROVE  ui' \in Ui /\ ShownInv'
<1>1. manager = "up" /\ UNCHANGED <<channel, thread, sent>>
  BY Zenon DEF ReadEvents
<1>2. ShownThen /\ SetsKept /\ EventsAnswered
  BY <1>1 DEF ShownInv
<1>3. events' = << >> /\ UNCHANGED <<rule, stored>> /\ ui' \in Ui
  BY ReadFact
<1>4. InForceAs(ui'.rule)
  BY <1>2, ReadFact DEF ShownThen, InForceAs
<1>5. ShownThen' /\ EventsAnswered'
  BY <1>3, <1>4 DEF ShownThen, EventsAnswered, Confirming, InForceAs
<1>6. \A i \in Id : Waiting(i) \/ InHand(i) => ui'.sets[i] = ui.sets[i]
  <2> SUFFICES ASSUME NEW i \in Id, Waiting(i) \/ InHand(i) PROVE ui'.sets[i] = ui.sets[i]
    OBVIOUS
  <2>1. sent[i] = 0
    BY DEF IdInv
  <2>2. \A n \in DOMAIN events : ~(events[n].id # 0 /\ events[n].id = i)
    BY <1>2, <2>1 DEF EventsAnswered
  <2> QED
    BY <2>2, ReadFact
<1>7. \A n \in DOMAIN channel : channel[n].id \in Id /\ Waiting(channel[n].id)
  <2>1. \A n \in DOMAIN channel : channel[n] \in Message
    BY DEF IdInv, IdType
  <2> QED
    BY <2>1 DEF Message, Waiting
<1>8. thread.pc = "command" => thread.command.id \in Id /\ InHand(thread.command.id)
  BY DEF IdInv, IdType, Message, InHand
<1>9. SetsKept'
  BY <1>1, <1>2, <1>6, <1>7, <1>8 DEF SetsKept
<1> QED
  BY <1>3, <1>5, <1>9 DEF ShownInv

\* A command gets an id that no event and no other command has.
LEMMA EnqueueShown ==
  ASSUME IdInv, OutType, ShownInv, NEW c \in Requests, Enqueue(c)
  PROVE  ui' \in Ui /\ ShownInv'
<1>1. /\ manager = "up" /\ UNCHANGED <<events, thread, sent, rule, stored>>
      /\ counter # 0
  BY Zenon DEF Enqueue, ruleVars, Allocable
<1>2. ShownThen /\ SetsKept /\ EventsAnswered
  BY <1>1 DEF ShownInv
<1>3. CASE running
  <2>1. /\ channel' = Append(channel, [id |-> counter, do |-> c])
        /\ ui' = [ui EXCEPT !.sets[counter] = c.rule]
    BY <1>3, Zenon DEF Enqueue
  <2>2. counter \in Id /\ c \in Commands
    BY <1>1, CommandsAssumption DEF IdInv, IdType, Id
  <2>3. c.rule \in Rule \cup {NONE}
    BY <2>2 DEF Commands
  <2>4. /\ ui' \in Ui /\ ui'.rule = ui.rule
        /\ ui'.sets[counter] = c.rule
        /\ \A i \in Id \ {counter} : ui'.sets[i] = ui.sets[i]
    BY <2>1, <2>2, <2>3 DEF OutType, Ui
  <2>5. counter \notin accepted /\ sent[counter] = 0
    BY <1>1, <2>2 DEF IdInv, Id
  <2>6. \A n \in DOMAIN events : events[n].id # 0 =>
          events[n].id \in Id \ {counter} /\ ui'.sets[events[n].id] = ui.sets[events[n].id]
    <3>1. \A n \in DOMAIN events : events[n].id # 0 => events[n].id # counter
      BY <1>2, <2>5 DEF EventsAnswered
    <3> QED
      BY <2>4, <3>1, EventIds
  <2>7. \A n : Confirming(n)' <=> Confirming(n)
    BY <1>1, <2>6 DEF Confirming
  <2>8. ShownThen' /\ EventsAnswered'
    <3>1. ShownThen'
      BY <1>1, <1>2, <2>4, <2>6, <2>7 DEF ShownThen, Confirming, InForceAs
    <3> QED
      BY <1>1, <1>2, <3>1 DEF EventsAnswered
  <2>9. \A n \in DOMAIN channel : channel[n].id \in Id \ {counter}
    <3>1. \A n \in DOMAIN channel : channel[n] \in Message
      BY DEF IdInv, IdType
    <3>2. \A n \in DOMAIN channel : channel[n].id \in Id
      BY <3>1 DEF Message
    <3> QED
      BY <2>5, <3>2 DEF IdInv, Waiting
  <2>10. thread.pc = "command" => thread.command.id \in Id \ {counter}
    <3>1. thread.pc = "command" => thread.command.id \in Id /\ InHand(thread.command.id)
      BY DEF IdInv, IdType, Message, InHand
    <3> QED
      BY <2>5, <3>1 DEF IdInv
  <2>11. /\ DOMAIN channel' = DOMAIN channel \cup {Len(channel) + 1}
         /\ \A n \in DOMAIN channel : channel'[n] = channel[n]
         /\ channel'[Len(channel) + 1] = [id |-> counter, do |-> c]
    <3>1. channel \in Seq(Message)
      BY DEF IdInv, IdType
    <3>2. [id |-> counter, do |-> c] \in Message
      BY <2>2 DEF Message
    <3> QED
      BY <2>1, <3>1, <3>2
  <2>12. SetsKept'
    BY <1>1, <1>2, <2>4, <2>9, <2>10, <2>11 DEF SetsKept
  <2> QED
    BY <2>4, <2>8, <2>12 DEF ShownInv
<1>4. CASE ~running
  <2>1. UNCHANGED <<channel, ui>>
    BY <1>4, Zenon DEF Enqueue
  <2>2. ShownThen' /\ EventsAnswered' /\ SetsKept'
    BY <1>1, <1>2, <2>1 DEF ShownThen, EventsAnswered, SetsKept, Confirming, InForceAs
  <2> QED
    BY <2>1, <2>2 DEF ShownInv, OutType
<1> QED
  BY <1>3, <1>4

\* The rest of the steps do not touch what the interface shows.  ShownInv is
\* kept when the events confirm nothing new.
LEMMA SilentShown ==
  ASSUME IdInv, OutType, ShownInv, Moves, IdInv', ui' = ui, UNCHANGED <<rule, stored>>, Silent,
         manager' = "up" => manager = "up"
  PROVE  ShownInv'
<1> SUFFICES ASSUME manager' = "up" PROVE ShownThen' /\ SetsKept' /\ EventsAnswered'
  BY DEF ShownInv
<1>1. ShownThen /\ SetsKept /\ EventsAnswered
  BY DEF ShownInv
<1>2. sent' \in [Id -> Nat] /\ \A i \in Id : sent'[i] >= sent[i]
  BY MovesSent DEF IdInv, IdType
<1> QED
  BY <1>1, <1>2, SilentKeeps, MovesSets

LEMMA SameSilent ==
  ASSUME OutType, events' = events
  PROVE  Silent
  BY DEF Silent, OutType

LEMMA AppendFact ==
  ASSUME NEW e \in Event, NEW s \in Seq(Event)
  PROVE  /\ Append(s, e) \in Seq(Event)
         /\ DOMAIN Append(s, e) = DOMAIN s \cup {Len(s) + 1}
         /\ \A n \in DOMAIN s : Append(s, e)[n] = s[n]
         /\ Append(s, e)[Len(s) + 1] = e
         /\ \A n \in DOMAIN s : n < Len(s) + 1
         /\ Len(s) + 1 \notin DOMAIN s
  OBVIOUS

LEMMA HealthSilent == ASSUME OutType, HealthCheck PROVE Silent
<1>1. \/ events' = events
      \/ events' = Append(events, [id |-> 0, says |-> StatusOf])
  BY Zenon DEF HealthCheck
<1>2. CASE events' = Append(events, [id |-> 0, says |-> StatusOf])
  <2> DEFINE e == [id |-> 0, says |-> StatusOf]
  <2>1. e \in Event /\ e.id = 0
    BY StatusFact, CommandsAssumption DEF Event, Says
  <2>2. events \in Seq(Event) /\ events' = Append(events, e)
    BY <1>2 DEF OutType
  <2> HIDE DEF e
  <2> QED
    BY <2>1, <2>2, AppendFact DEF Silent
<1> QED
  BY <1>1, <1>2, SameSilent

\* The answer to the command in hand is the last event.
Answer(says) == [id |-> thread.command.id, says |-> says]

LEMMA RespondEvents ==
  ASSUME IdInv, NEW k, Processing(k), NEW says \in {"ok", "error"}, Respond(says)
  PROVE  /\ manager # "up" => events' = events
         /\ manager = "up" => /\ events' = Append(events, Answer(says))
                              /\ sent'[thread.command.id] > 0
         /\ Answer(says) \in Event /\ thread.command.id \in Id
<1>1. thread.pc = "command"
  BY DEF Processing
<1>2. thread.command.id \in Id
  BY <1>1 DEF IdInv, IdType, Message
<1>3. Answer(says) \in Event
  BY <1>2, CommandsAssumption DEF Answer, Event, Says, Id
<1>4. CASE manager = "gone"
  BY <1>2, <1>3, <1>4, Zenon DEF Respond
<1>5. CASE manager # "gone"
  <2>1. /\ events' = IF manager = "up" THEN Append(events, Answer(says)) ELSE events
        /\ sent' = [sent EXCEPT ![thread.command.id] = @ + 1]
    BY <1>5, Zenon DEF Respond, Answer
  <2>2. sent'[thread.command.id] > 0
    BY <1>2, <2>1 DEF IdInv, IdType
  <2> QED
    BY <1>2, <1>3, <2>1, <2>2
<1> QED
  BY <1>4, <1>5

LEMMA RespondTyped ==
  ASSUME IdInv, OutType, NEW k, Processing(k), NEW says \in {"ok", "error"}, Respond(says)
  PROVE  events' \in Seq(Event)
<1>1. events \in Seq(Event)
  BY DEF OutType
<1> QED
  BY <1>1, RespondEvents, AppendFact

\* An answer that confirms no set of rules.
LEMMA RespondSilent ==
  ASSUME IdInv, OutType, manager = "up" => SetsKept,
         NEW k, Processing(k), NEW says \in {"ok", "error"}, Respond(says),
         says = "ok" => thread.command.do.rule = NONE
  PROVE  Silent
<1>1. CASE manager # "up"
  BY <1>1, RespondEvents, SameSilent
<1>2. CASE manager = "up"
  <2>1. /\ events' = Append(events, Answer(says)) /\ sent'[thread.command.id] > 0
        /\ Answer(says) \in Event /\ events \in Seq(Event)
    BY <1>2, RespondEvents DEF OutType
  <2>2. ui.sets[thread.command.id] = thread.command.do.rule
    BY <1>2 DEF SetsKept, Processing
  <2>3. /\ sent'[Answer(says).id] > 0
        /\ ~(ui.sets[Answer(says).id] # NONE /\ Confirms(Answer(says)))
    BY <2>1, <2>2 DEF Answer, Confirms
  <2> QED
    BY <2>1, <2>3, AppendFact DEF Silent
<1> QED
  BY <1>1, <1>2

\* Of the commands only "set" carries a rule, apart from the one that is
\* refused.
LEMMA CommandRule ==
  ASSUME IdInv, NEW k, Processing(k)
  PROVE  /\ k \in {"retry", "pause", "resume", "folder"} => thread.command.do.rule = NONE
         /\ k = "set" => thread.command.do.rule \in Rule
<1>1. thread.command \in Message /\ thread.command.do.kind = k
  BY DEF Processing, IdInv, IdType
<1>2. thread.command.do \in Commands
  BY <1>1, CommandsAssumption DEF Message
<1> QED
  BY <1>1, <1>2 DEF Commands

\* The set that is answered comes into force with the answer that confirms it.
LEMMA SetRulesShown ==
  ASSUME IdInv, IdInv', OutType, ShownInv, Moves, SetRules
  PROVE  events' \in Seq(Event) /\ ShownInv'
<1>1. /\ Processing("set") /\ Respond("ok") /\ rule' = thread.command.do.rule
      /\ stored' = "accepted" /\ ui' = ui /\ manager' = manager
  BY Zenon DEF SetRules, Processing
<1>2. events' \in Seq(Event)
  BY <1>1, RespondTyped
<1> SUFFICES ASSUME manager = "up" PROVE ShownThen' /\ SetsKept' /\ EventsAnswered'
  BY <1>1, <1>2 DEF ShownInv
<1>3. ShownThen /\ SetsKept /\ EventsAnswered
  BY DEF ShownInv
<1>4. SetsKept'
  BY <1>1, <1>3, MovesSets
<1>5. rule' \in Rule /\ rule' # NONE
  BY <1>1, CommandRule, CommandsAssumption
<1>6. PICK e \in Event :
        /\ e.says = "ok" /\ e.id = thread.command.id /\ e.id \in Id
        /\ sent'[e.id] > 0 /\ events' = Append(events, e)
  BY <1>1, RespondEvents DEF Answer
<1>7. ui'.sets[e.id] = rule'
  BY <1>1, <1>3, <1>6 DEF SetsKept, Processing
<1>8. PICK l \in Nat :
        /\ DOMAIN events' = DOMAIN events \cup {l} /\ l \notin DOMAIN events
        /\ \A n \in DOMAIN events : events'[n] = events[n] /\ n < l /\ n \in Nat
        /\ events'[l] = e
  <2>1. events \in Seq(Event) /\ Len(events) + 1 \in Nat
    BY DEF OutType
  <2> QED
    BY <1>6, <2>1, AppendFact
<1>9. Confirming(l)'
  BY <1>5, <1>6, <1>7, <1>8, CommandsAssumption DEF Confirming, Confirms, Id
<1>10. \A n \in DOMAIN events' : n # l => ~(l <= n)
  BY <1>8
<1>11. ShownThen'
  BY <1>1, <1>6, <1>7, <1>8, <1>9, <1>10 DEF ShownThen
<1>12. EventsAnswered'
  <2>1. sent' \in [Id -> Nat] /\ sent \in [Id -> Nat] /\ \A i \in Id : sent'[i] >= sent[i]
    BY MovesSent DEF IdInv, IdType
  <2>2. \A n \in DOMAIN events : events[n].id # 0 => sent'[events[n].id] > 0
    BY <1>3, <2>1, EventIds DEF EventsAnswered
  <2> QED
    BY <1>6, <1>8, <2>2 DEF EventsAnswered
<1> QED
  BY <1>4, <1>11, <1>12

LEMMA ConcatFact ==
  ASSUME NEW s \in Seq(Event), NEW t \in Seq(Event)
  PROVE  /\ s \o t \in Seq(Event)
         /\ DOMAIN s \subseteq DOMAIN (s \o t)
         /\ \A n \in DOMAIN s : (s \o t)[n] = s[n]
  OBVIOUS

LEMMA EventsConcat ==
  ASSUME NEW t \in Seq(Event), events' = events \o t, events \in Seq(Event)
  PROVE  \A n \in DOMAIN events' \ DOMAIN events : \E m \in DOMAIN t : events'[n] = t[m]
<1>1. \A n \in DOMAIN events' \ DOMAIN events :
        n - Len(events) \in DOMAIN t /\ events'[n] = t[n - Len(events)]
  OBVIOUS
<1> QED
  BY <1>1, Zenon

\* What the guard answers confirms nothing.
LEMMA UnwindSilent == ASSUME IdInv, OutType, Unwind PROVE Silent
<1>1. PICK order \in [1..Cardinality(registered) -> registered] :
        events' = IF manager # "up" THEN events
                  ELSE events \o [n \in DOMAIN order |-> [id |-> order[n], says |-> "gone"]]
  BY Zenon DEF Unwind
<1>2. registered \subseteq Id
  BY DEF IdInv, IdType
<1>3. Cardinality(registered) \in Nat
  <2>1. IsFiniteSet(Id)
    BY CommandsAssumption, FS_Interval DEF Id
  <2>2. IsFiniteSet(registered)
    BY <1>2, <2>1, FS_Subset
  <2> QED
    BY <2>2, FS_CardinalityType
<1>4. PICK gone : gone = [n \in DOMAIN order |-> [id |-> order[n], says |-> "gone"]]
  OBVIOUS
<1>5. \A n \in DOMAIN order : order[n] \in registered /\ order[n] \in Id
  BY <1>2
<1>6. \A n \in DOMAIN order :
        gone[n] \in Event /\ gone[n].id \in registered /\ ~Confirms(gone[n])
  <2>1. \A i \in Id : [id |-> i, says |-> "gone"] \in Event
    BY CommandsAssumption DEF Event, Says, Id
  <2>2. \A n \in DOMAIN order : gone[n] = [id |-> order[n], says |-> "gone"]
    BY <1>4
  <2>3. \A n \in DOMAIN order : gone[n] \in Event
    BY <1>5, <2>1, <2>2
  <2>4. \A n \in DOMAIN order : gone[n].id = order[n] /\ gone[n].says # "ok"
    <3>1. \A i : [id |-> i, says |-> "gone"].id = i /\ [id |-> i, says |-> "gone"].says # "ok"
      OBVIOUS
    <3> QED
      BY <2>2, <3>1, Zenon
  <2> QED
    BY <1>5, <2>3, <2>4 DEF Confirms
<1>7. gone \in Seq(Event) /\ DOMAIN gone = DOMAIN order
  <2>1. DOMAIN gone = 1..Cardinality(registered) /\ gone = [n \in DOMAIN gone |-> gone[n]]
    BY <1>4
  <2>2. gone \in [1..Cardinality(registered) -> Event]
    BY <1>6, <2>1
  <2> QED
    BY <1>3, <2>1, <2>2
<1>8. \A i \in registered : sent'[i] > 0
  <2>1. sent' = [i \in Id |-> IF i \in registered THEN sent[i] + 1 ELSE sent[i]]
    BY Zenon DEF Unwind
  <2> QED
    BY <1>2, <2>1 DEF IdInv, IdType
<1>9. CASE manager # "up"
  <2>1. events' = events
    BY <1>1, <1>9
  <2> QED
    BY <2>1, SameSilent
<1>10. CASE manager = "up"
  <2>1. events' = events \o gone /\ events \in Seq(Event)
    BY <1>1, <1>4, <1>10 DEF OutType
  <2>2. \A n \in DOMAIN events' \ DOMAIN events :
          sent'[events'[n].id] > 0 /\ ~Confirms(events'[n])
    <3> SUFFICES ASSUME NEW n \in DOMAIN events' \ DOMAIN events
                 PROVE  sent'[events'[n].id] > 0 /\ ~Confirms(events'[n])
      OBVIOUS
    <3>1. \A k \in DOMAIN events' \ DOMAIN events : \E m \in DOMAIN gone : events'[k] = gone[m]
      BY <1>7, <2>1, EventsConcat
    <3>2. PICK m \in DOMAIN gone : events'[n] = gone[m]
      BY <3>1
    <3> QED
      BY <1>6, <1>7, <1>8, <3>2
  <2> QED
    BY <1>7, <2>1, <2>2, ConcatFact DEF Silent
<1> QED
  BY <1>9, <1>10

LEMMA ShownKept ==
  ASSUME IdInv, IdInv', OutType, ShownInv, Next
  PROVE  events' \in Seq(Event) /\ ui' \in Ui /\ ShownInv'
<1> DEFINE Goal == events' \in Seq(Event) /\ ui' \in Ui /\ ShownInv'
<1>1. events \in Seq(Event) /\ ui \in Ui
  BY DEF OutType
<1>2. ASSUME Silent, ui' = ui, UNCHANGED <<rule, stored>>, manager' = manager, counter' = counter PROVE Goal
  <2>1. Moves
    BY <1>2, StepMoves
  <2>2. ShownInv'
    BY <1>2, <2>1, SilentShown
  <2> QED
    BY <1>1, <1>2, <2>2 DEF Silent
<1>3. ASSUME NEW c \in Requests, Enqueue(c) PROVE Goal
  <2>1. events' = events
    BY <1>3, Zenon DEF Enqueue
  <2> QED
    BY <1>1, <1>3, <2>1, EnqueueShown
<1>4. CASE ReadEvents
  <2>1. events' = << >>
    BY <1>4, Zenon DEF ReadEvents
  <2> QED
    BY <1>4, <2>1, ReadShown
<1>5. CASE DropFlag
  <2>1. /\ events' = << >> /\ manager' = "flagged"
        /\ ui' = [ui EXCEPT !.sets = [i \in Id |-> NONE]]
    BY <1>5, Zenon DEF DropFlag
  <2>2. ui' \in Ui
    BY <1>1, <2>1 DEF Ui
  <2> QED
    BY <2>1, <2>2 DEF ShownInv
<1>6. CASE DropStop \/ DropEnd
  <2>1. events' = events /\ ui' = ui /\ manager' # "up"
    BY <1>6 DEF DropStop, DropEnd
  <2> QED
    BY <1>1, <2>1 DEF ShownInv
<1>7. CASE HealthCheck
  <2>1. ui' = ui /\ UNCHANGED <<rule, stored>> /\ manager' = manager /\ counter' = counter
    BY <1>7, Zenon DEF HealthCheck, ruleVars, idVars
  <2> QED
    BY <1>2, <1>7, <2>1, HealthSilent
<1>8. CASE SetRules
  <2>1. counter' = counter /\ ui' = ui
    BY <1>8, Zenon DEF SetRules, Processing
  <2>2. Moves
    BY <2>1, StepMoves
  <2> QED
    BY <1>1, <1>8, <2>1, <2>2, SetRulesShown
<1>9. ASSUME NEW k \in {"invalid", "retry", "pause", "resume", "folder"},
             NEW says \in {"ok", "error"}, k = "invalid" => says = "error",
             Processing(k), Respond(says), UNCHANGED <<rule, stored>>
      PROVE  Goal
  <2>1. ui' = ui /\ manager' = manager /\ counter' = counter
    BY <1>9, Zenon DEF Processing
  <2>2. says = "ok" => thread.command.do.rule = NONE
    BY <1>9, CommandRule
  <2>3. manager = "up" => SetsKept
    BY DEF ShownInv
  <2>4. Silent
    BY <1>9, <2>2, <2>3, RespondSilent
  <2> QED
    BY <1>2, <1>9, <2>1, <2>4
<1>10. CASE RejectRules
  <2>1. Processing("invalid") /\ Respond("error") /\ UNCHANGED <<rule, stored>>
    BY <1>10, Zenon DEF RejectRules, ruleVars
  <2> QED
    BY <1>9, <2>1
<1>11. CASE PauseRule
  <2>1. Processing("pause") /\ UNCHANGED <<rule, stored>> /\ (Respond("ok") \/ Respond("error"))
    BY <1>11, Zenon DEF PauseRule
  <2> QED
    BY <1>9, <2>1
<1>12. CASE ResumeRule
  <2>1. Processing("resume") /\ UNCHANGED <<rule, stored>> /\ (Respond("ok") \/ Respond("error"))
    BY <1>12, Zenon DEF ResumeRule
  <2> QED
    BY <1>9, <2>1
<1>13. CASE CreateFolder
  <2>1. Processing("folder") /\ UNCHANGED <<rule, stored>> /\ \E ok \in BOOLEAN : Respond(IF ok THEN "ok" ELSE "error")
    BY <1>13, Zenon DEF CreateFolder, ruleVars
  <2>2. PICK ok \in BOOLEAN : Respond(IF ok THEN "ok" ELSE "error")
    BY <2>1
  <2>3. (IF ok THEN "ok" ELSE "error") \in {"ok", "error"}
    OBVIOUS
  <2> QED
    BY <1>9, <2>1, <2>2, <2>3
<1>14. CASE RetryOperation
  <2>1. Processing("retry") /\ UNCHANGED <<rule, stored>> /\ (Respond("ok") \/ Respond("error"))
    BY <1>14, Zenon DEF RetryOperation, ruleVars
  <2> QED
    BY <1>9, <2>1
<1>15. CASE Unwind
  <2>1. ui' = ui /\ UNCHANGED <<rule, stored>> /\ manager' = manager /\ counter' = counter
    BY <1>15, Zenon DEF Unwind, ruleVars
  <2> QED
    BY <1>2, <1>15, <2>1, UnwindSilent
<1>16. ASSUME UNCHANGED <<events, ui, rule, stored, manager, counter>> PROVE Goal
  BY <1>2, <1>16, SameSilent
<1>17. CASE Receive \/ LeaveBatch \/ FilesDone \/ Panic \/ Hang \/ Worker
  BY <1>16, <1>17, Zenon DEF Receive, LeaveBatch, FilesDone, Panic, Hang, Worker, WorkerTakes,
     WorkerRechecks, WorkerMoves, idVars, ruleVars
<1>18. ASSUME NEW f \in File, StableFile(f) PROVE Goal
  BY <1>16, <1>18, Zenon DEF StableFile, idVars, ruleVars
<1> QED
  BY <1>3, <1>4, <1>5, <1>6, <1>7, <1>8, <1>10, <1>11, <1>12, <1>13, <1>14, <1>15, <1>17, <1>18,
     Zenon DEF Next, Interface, Dropping, Loop, Command

(* All of it together. *)

CommandsInv == IdInv /\ FlagType /\ FlagInv /\ OutType /\ FilesType /\ ShownInv

LEMMA CommandsInit == Init => CommandsInv
<1> SUFFICES ASSUME Init PROVE CommandsInv
  OBVIOUS
<1>1. /\ manager = "up" /\ shutdown = FALSE /\ running = TRUE /\ paused = FALSE
      /\ reported = "starting" /\ faults = 0 /\ events = << >> /\ InForceAs(ui.rule)
      /\ stored \in {"accepted", "refused"}
      /\ \E r \in Start :
           ui = [rule |-> r, status |-> "starting", sets |-> [i \in Id |-> NONE]]
      /\ channel = << >> /\ thread = NoPlace
      /\ inFlight = {} /\ retryable = {} /\ moved = {} /\ worker = NoWork
  BY Zenon DEF Init
<1>2. \E r \in Rule :
        ui = [rule |-> r, status |-> "starting", sets |-> [i \in Id |-> NONE]]
  BY <1>1, CommandsAssumption
<1>3. ui \in Ui
  BY <1>1, <1>2 DEF Ui, Says, Statuses
<1>4. shutdown \in BOOLEAN /\ running \in BOOLEAN /\ paused \in BOOLEAN
  BY <1>1, Zenon
<1>5. events \in Seq(Event) /\ DOMAIN events = {} /\ DOMAIN channel = {}
  BY <1>1
<1>6. OutType
  BY <1>1, <1>3, <1>4, <1>5, CommandsAssumption DEF OutType, Statuses
<1>7. FilesType
  BY <1>1 DEF FilesType
<1>8. ShownInv
  BY <1>1, <1>3, <1>5 DEF ShownInv, ShownThen, SetsKept, EventsAnswered, Confirming, NoPlace
<1> QED
  BY <1>6, <1>7, <1>8, IdInit, FlagInit DEF CommandsInv

LEMMA CommandsStep == ASSUME CommandsInv, [Next]_vars PROVE CommandsInv'
<1>1. CASE Next
  <2>1. IdInv' /\ IdType'
    BY <1>1, EveryIdStep, IdStepKeeps DEF CommandsInv, IdInv
  <2>2. FlagParts /\ FlagInv'
    BY <1>1, EveryFlagStep, FlagStepKeeps DEF CommandsInv
  <2>3. FlagType'
    BY <2>1, <2>2 DEF FlagParts, FlagType
  <2>4. FilesType'
    BY <1>1, FilesKept DEF CommandsInv
  <2>5. events' \in Seq(Event) /\ ui' \in Ui /\ ShownInv'
    BY <1>1, <2>1, ShownKept DEF CommandsInv
  <2>6. OutType'
    BY <1>1, <2>5, BoolsKept, StoredKept, CountsKept, Zenon DEF OutType, CommandsInv
  <2> QED
    BY <2>1, <2>2, <2>3, <2>4, <2>5, <2>6 DEF CommandsInv
<1>2. CASE UNCHANGED vars
  <2>1. /\ UNCHANGED idParts /\ Quiet /\ pending' = pending /\ thread' = thread
        /\ UNCHANGED <<manager, shutdown, running, paused, events, ui, reported, faults>>
        /\ UNCHANGED <<inFlight, retryable, moved, worker, channel, sent, rule, stored>>
    BY <1>2, Zenon DEF vars, idVars, idParts, fileVars, ruleVars, Quiet
  <2>2. IdInv' /\ IdType'
    BY <2>1, IdStepKeeps DEF IdStep, IdInv, CommandsInv
  <2>3. FlagParts /\ FlagInv'
    BY <2>1, QuietFlags, FlagStepKeeps DEF FlagType, CommandsInv
  <2>4. FlagType'
    BY <2>2, <2>3 DEF FlagParts, FlagType
  <2>5. FilesType'
    BY <2>1 DEF FilesType, CommandsInv
  <2>6. OutType'
    BY <2>1, Zenon DEF OutType, CommandsInv
  <2>7. ShownInv'
    BY <2>1 DEF CommandsInv, ShownInv, ShownThen, SetsKept, EventsAnswered, Confirming,
          InForceAs
  <2> QED
    BY <2>2, <2>3, <2>4, <2>5, <2>6, <2>7 DEF CommandsInv
<1> QED
  BY <1>1, <1>2

\* Every variable has its type, the thread has in hand what it works on, and
\* the files that it is about to look at are still pending, since nothing
\* between the batch and the files takes them away.
THEOREM CommandsTypeOK == Spec => []TypeOK
<1>1. CommandsInv => TypeOK
  <2> SUFFICES ASSUME CommandsInv PROVE TypeOK
    OBVIOUS
  <2>1. counter \in 0..MaxId /\ registered \subseteq Id /\ channel \in Seq(Message)
        /\ sent \in [Id -> Nat] /\ accepted \subseteq Id
    BY DEF CommandsInv, IdInv, IdType
  <2>2. /\ thread \in [pc : {"top", "command", "files", "leaving", "hanging", "ended"},
                       command : Message \cup {NONE}, done : Nat, ready : SUBSET File]
        /\ thread.pc = "command" => thread.command \in Message
    BY DEF CommandsInv, IdInv, IdType, Thread, Pcs
  <2>3. /\ thread.pc = "files" => \A f \in thread.ready : pending[f] # NONE
        /\ rule \in Rule /\ flag \in Flag /\ fresh \in Flag
        /\ pending \in [File -> Pending \cup {NONE}]
        /\ raised \subseteq Flag /\ stray \subseteq Flag
    BY DEF CommandsInv, FlagType, FlagInv, Flag
  <2>4. queue \in Seq(Work)
    <3>1. Asked \subseteq Work
      BY DEF Asked, Work, Flag
    <3>2. queue \in Seq(Asked)
      BY DEF CommandsInv, FlagType
    <3> QED
      BY <3>1, <3>2
  <2>5. /\ inFlight \subseteq File /\ retryable \subseteq File /\ moved \subseteq File
        /\ worker \in Work \cup {NoWork}
        /\ worker.pc \in {"checked", "cleared"} => worker \in Work
    BY DEF CommandsInv, FilesType, NoWork
  <2>6. /\ manager \in {"up", "flagged", "stopped", "gone"}
        /\ shutdown \in BOOLEAN /\ running \in BOOLEAN /\ paused \in BOOLEAN
        /\ stored \in {"accepted", "refused"}
        /\ events \in Seq(Event) /\ reported \in Statuses /\ faults \in 0..MaxFaults
        /\ ui \in [rule : Rule, status : Says, sets : [Id -> Rule \cup {NONE}]]
    BY Zenon DEF CommandsInv, OutType, Ui
  <2> QED
    BY <2>1, <2>2, <2>3, <2>4, <2>5, <2>6, Zenon DEF TypeOK
<1> QED
  BY <1>1, CommandsInit, CommandsStep, PTL DEF Spec

\* When nothing is under way the interface shows the rule that is in force, or
\* a stored one that was refused at the start and runs switched off until a set
\* is accepted: the interface applies the sets in the order of their answers, and
\* the thread answers a set exactly when it has put it into force
\* (command_succeeded, run_organizer).
THEOREM CommandsShown == Spec => []ShownIsInForce
<1>1. CommandsInv => ShownIsInForce
  <2> SUFFICES ASSUME CommandsInv, events = << >>, manager = "up" PROVE InForceAs(ui.rule)
    BY DEF ShownIsInForce
  <2>1. DOMAIN events = {}
    OBVIOUS
  <2> QED
    BY <2>1 DEF CommandsInv, ShownInv, ShownThen
<1> QED
  BY <1>1, CommandsInit, CommandsStep, PTL DEF Spec
=============================================================================
