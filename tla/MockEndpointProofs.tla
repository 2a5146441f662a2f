------------------------- MODULE MockEndpointProofs -------------------------
(***************************************************************************)
(* Theorems about MockEndpoint for every set of clients and requests and   *)
(* every limit, timeout, period and kind of failure.  The object behind    *)
(* the mutex keeps the invariant of RobotProtocolProofs, whose lemmas are  *)
(* instantiated here; what is new is how the object, the pending tick, the *)
(* counters, the announced leases and the two published topics, each       *)
(* written at its own time, stay consistent.                               *)
(***************************************************************************)
EXTENDS MockEndpoint, TLAPS

RP == INSTANCE RobotProtocolProofs WITH
  Seed <- 1,
  RejectOperation <- "NONE",
  protocol <- robot,
  reply <- [accepted |-> FALSE]

-----------------------------------------------------------------------------
(* The inductive invariant *)

\* A key that the status st has not withdrawn: none, or newer than everything
\* admitted by st.
NewerThan(st, key) ==
  key # Robot!NoKey => \/ key.session > st.issued
                       \/ key.session = st.session /\ key.sequence > st.sequence

\* The object p comes after the status st: sessions it starts are newer than
\* those st knew of, and it takes no step back in the session of st.
ComesAfter(p, st) ==
  /\ st.issued <= p.issued
  /\ p.generation # 0 => \/ p.generation > st.issued
                         \/ p.generation = st.session /\ p.accepted >= st.sequence

\* A status that is not RUNNING has withdrawn all the commands it knew of.
Withdrew(st, p) ==
  st.phase # "RUNNING" => /\ ComesAfter(p, st)
                          /\ NewerThan(st, p.output)
                          /\ NewerThan(st, p.pending)

Statuses == [phase : RP!Phases, session : Nat, sequence : Nat, issued : Nat]

Counts == [accepted : Nat, applied : Nat]

\* What the steps of main and the callbacks keep about the values they handle.
Typed ==
  /\ robot \in RP!ProtocolState
  /\ counts \in Counts
  /\ copied \in [output : RP!Keys, status : Statuses]
  /\ shown \in [output : RP!Keys, status : Statuses, afterStatus : BOOLEAN]
  /\ rc \in {0, 2}

\* The statuses published and about to be published have withdrawn what they say;
\* the key about to be published comes from an object after the published status.
TopicsAgree ==
  /\ Withdrew(shown.status, robot)
  /\ place = "sendStatus" => Withdrew(copied.status, robot)
  /\ place = "sendState" /\ shown.status.phase # "RUNNING"
       => NewerThan(shown.status, copied.output)
  /\ shown.afterStatus /\ shown.status.phase # "RUNNING"
       => NewerThan(shown.status, shown.output)

\* A fault is known to main until it has been turned into the exit code.
FaultsAreKnown ==
  /\ faults => failed \/ rc # 0
  /\ place = "done" /\ failed => rc # 0

\* The object agrees with the pending tick, the counters and what was announced.
RobotAgrees == /\ RP!GoodState(robot)
               /\ PendingHasTick
               /\ CommandsAddUp
               /\ LeaseWasAnnounced

MockInv ==
  /\ Typed
  /\ RobotAgrees
  /\ TopicsAgree
  /\ FaultsAreKnown
-----------------------------------------------------------------------------
(* The operators of the two instances of RobotProtocol are the same *)

LEMMA SameValues ==
  /\ Robot!NoKey = RP!NoKey /\ Robot!Fresh = RP!Fresh
  /\ Robot!Request = RP!Request /\ Robot!Command = RP!Command
  BY DEF Robot!NoKey, RP!NoKey, Robot!Fresh, RP!Fresh,
         Robot!Request, RP!Request, Robot!Command, RP!Command,
         Robot!Operations, RP!Operations, Robot!Keys, RP!Keys,
         Robot!Generations, RP!Generations, Robot!Sequences, RP!Sequences

LEMMA SameNoKey == Robot!NoKey = RP!NoKey
  BY SameValues

LEMMA SameClear == ASSUME NEW p PROVE Robot!Clear(p) = RP!Clear(p)
  BY DEF Robot!Clear, RP!Clear, Robot!Fresh, RP!Fresh, Robot!NoKey, RP!NoKey

LEMMA SameWatchdog == ASSUME NEW p PROVE Robot!Watchdog(p) = RP!Watchdog(p)
  BY SameClear
  DEF Robot!Watchdog, RP!Watchdog, Robot!PrepareExpired, RP!PrepareExpired,
      Robot!CommandsExpired, RP!CommandsExpired, Robot!Hold, RP!Hold,
      Robot!NoKey, RP!NoKey

LEMMA SameRequestControl ==
  ASSUME NEW w, NEW r
  PROVE  /\ Robot!AfterRequest(w, r) = RP!AfterRequest(w, r)
         /\ Robot!ReplyTo(w, r) = RP!ReplyTo(w, r)
<1>1. /\ Robot!Prepares(w, r) <=> RP!Prepares(w, r)
      /\ Robot!Commits(w, r) <=> RP!Commits(w, r)
      /\ Robot!Cancels(w, r) <=> RP!Cancels(w, r)
      /\ Robot!Repeats(w, r) <=> RP!Repeats(w, r)
  BY DEF Robot!Prepares, RP!Prepares, Robot!Commits, RP!Commits, Robot!Cancels, RP!Cancels,
         Robot!Repeats, RP!Repeats, Robot!Admissible, RP!Admissible, Robot!Idle, RP!Idle,
         Robot!CanIssue, RP!CanIssue, Robot!Owns, RP!Owns,
         Robot!SameRequest, RP!SameRequest, Robot!External, RP!External
<1>2. Robot!AfterRequest(w, r) = RP!AfterRequest(w, r)
  BY <1>1, SameClear
  DEF Robot!AfterRequest, RP!AfterRequest, Robot!Prepared, RP!Prepared,
      Robot!Committed, RP!Committed
<1> QED
  BY <1>1, <1>2 DEF Robot!ReplyTo, RP!ReplyTo, Robot!AcceptsRequest, RP!AcceptsRequest

LEMMA SameCommands ==
  ASSUME NEW w, NEW cmd
  PROVE  /\ Robot!Admits(w, cmd) <=> RP!Admits(w, cmd)
         /\ Robot!AfterCommand(w, cmd) = RP!AfterCommand(w, cmd)
         /\ Robot!Applies(w) <=> RP!Applies(w)
         /\ Robot!AfterTick(w) = RP!AfterTick(w)
  BY DEF Robot!Admits, RP!Admits, Robot!External, RP!External,
         Robot!AfterCommand, RP!AfterCommand, Robot!Admitted, RP!Admitted,
         Robot!Rejected, RP!Rejected, Robot!NoKey, RP!NoKey,
         Robot!Applies, RP!Applies, Robot!AfterTick, RP!AfterTick,
         Robot!Applied, RP!Applied

-----------------------------------------------------------------------------
(* What the calls of the class do to the fields the other objects depend on *)

\* The lemmas of RobotProtocolProofs may be used.
LEMMA RobotConstants == RP!IdAssumption /\ RP!LimitAssumption
  BY RobotAssumption
  DEF Robot!IdAssumption, RP!IdAssumption, Robot!LimitAssumption, RP!LimitAssumption,
      Robot!Operations, RP!Operations, Robot!NoOperation, RP!NoOperation

USE RobotConstants

\* Commands admitted and not applied: those overwritten, and the pending one.
Unapplied(p) == p.overwritten + (IF p.pending = RP!NoKey THEN 0 ELSE 1)

\* The numbers of q are those of p or newer, and it shows nothing that p had not
\* applied or was about to.
Follows(q, p) ==
  /\ q.issued >= p.issued
  /\ q.generation # 0 => \/ q.generation > p.issued
                         \/ q.generation = p.generation /\ q.accepted >= p.accepted
  /\ q.output \in {p.output, p.pending, RP!NoKey}

\* Nothing new is pending.
AddsNothing(q, p) == /\ q.pending \in {p.pending, RP!NoKey}
                     /\ Unapplied(q) <= Unapplied(p)

LEMMA Numbers ==
  ASSUME NEW p, RP!GoodState(p)
  PROVE  /\ p \in RP!ProtocolState
         /\ p.issued \in Nat /\ p.generation \in Nat /\ p.accepted \in Nat
         /\ p.overwritten \in Nat /\ Unapplied(p) \in Nat
         /\ p.output \in RP!Keys /\ p.pending \in RP!Keys
  BY DEF RP!GoodState, RP!ProtocolState, RP!Generations, RP!Sequences, Unapplied

LEMMA KeyNumbers ==
  ASSUME NEW k \in RP!Keys
  PROVE  k.session \in Nat /\ k.sequence \in Nat
  BY DEF RP!Keys, RP!Generations, RP!Sequences

LEMMA NothingStep ==
  ASSUME NEW p, RP!GoodState(p)
  PROVE  Follows(p, p) /\ AddsNothing(p, p)
  BY Numbers DEF Follows, AddsNothing

LEMMA ClearStep ==
  ASSUME NEW p, RP!GoodState(p)
  PROVE  LET q == RP!Clear(p) IN
         RP!GoodState(q) /\ Follows(q, p) /\ AddsNothing(q, p) /\ q.lease = 0
<1> DEFINE q == RP!Clear(p)
<1>1. p \in RP!ProtocolState /\ p.overwritten \in Nat /\ p.issued \in Nat
  BY Numbers
<1>2. q \in RP!ProtocolState /\ RP!Empty(q) /\ q.issued = p.issued
  BY <1>1, RP!ClearFields
<1>3. RP!GoodState(q)
  BY <1>2, RP!EmptyGood
<1>4. q.overwritten = p.overwritten
  BY DEF RP!Clear, RP!Fresh
<1>5. AddsNothing(q, p)
  BY <1>1, <1>2, <1>4 DEF AddsNothing, Unapplied, RP!Empty
<1> QED
  BY <1>1, <1>2, <1>3, <1>5 DEF Follows, RP!Empty

LEMMA WatchdogStep ==
  ASSUME NEW p, RP!GoodState(p)
  PROVE  LET w == RP!Watchdog(p) IN
         RP!GoodState(w) /\ Follows(w, p) /\ AddsNothing(w, p) /\ w.lease \in {0, p.lease}
<1> DEFINE w == RP!Watchdog(p)
<1>1. RP!GoodState(w) /\ p \in RP!ProtocolState /\ p.overwritten \in Nat
  BY RP!WatchdogCases, Numbers
<1>2. CASE w = p
  BY <1>1, <1>2, NothingStep
<1>3. CASE w = RP!Clear(p)
  BY <1>3, ClearStep
<1>4. CASE w = RP!Hold(p)
  <2>1. w.overwritten = p.overwritten
    BY <1>1, <1>4 DEF RP!Hold, RP!ProtocolState
  <2>2. /\ w.pending = RP!NoKey /\ w.output = RP!NoKey /\ w.lease = p.lease
        /\ w.generation = p.generation /\ w.issued = p.issued /\ w.accepted = p.accepted
    BY <1>1, <1>4, RP!HoldFields
  <2>3. AddsNothing(w, p)
    BY <1>1, <2>1, <2>2 DEF AddsNothing, Unapplied
  <2> QED
    BY <1>1, <2>2, <2>3, Numbers DEF Follows
<1> QED
  BY <1>2, <1>3, <1>4, RP!WatchdogCases

\* A lease the robot holds after a request is the one it held, or the ACK names it.
LEMMA RequestStep ==
  ASSUME NEW w, RP!GoodState(w), NEW r \in RP!Request
  PROVE  LET q == RP!AfterRequest(w, r) IN
         /\ RP!GoodState(q) /\ Follows(q, w) /\ AddsNothing(q, w)
         /\ q.lease \in {0, w.lease, RP!ReplyTo(w, r).lease}
<1> DEFINE q == RP!AfterRequest(w, r)
<1>1. RP!GoodState(q) /\ w \in RP!ProtocolState /\ w.overwritten \in Nat /\ w.issued \in Nat
      /\ w.generation \in Nat /\ w.accepted \in Nat
  BY RP!AfterRequestGood, Numbers
<1>2. CASE RP!Prepares(w, r)
  <2>1. q = RP!Prepared(w, r) /\ ~RP!Cancels(w, r) /\ RP!AcceptsRequest(w, r) /\ RP!CanIssue(w)
    BY <1>2 DEF RP!AfterRequest, RP!Prepares, RP!Commits, RP!Cancels, RP!AcceptsRequest
  <2>2. /\ q.issued = w.issued + 1 /\ q.generation = w.generation
        /\ q.accepted = w.accepted /\ q.pending = w.pending /\ q.output = w.output
    BY <1>1, <2>1, RP!PreparedFields
  <2>3. q.overwritten = w.overwritten
    BY <1>1, <2>1 DEF RP!Prepared, RP!ProtocolState
  <2>4. q.lease = RP!ReplyTo(w, r).lease
    BY <2>1 DEF RP!ReplyTo
  <2>5. Follows(q, w)
    BY <1>1, <2>2 DEF Follows
  <2>6. AddsNothing(q, w)
    BY <1>1, <2>2, <2>3 DEF AddsNothing, Unapplied
  <2> QED
    BY <1>1, <2>4, <2>5, <2>6
<1>3. CASE RP!Commits(w, r)
  <2>1. q = RP!Committed(w) /\ RP!CanIssue(w)
    BY <1>3 DEF RP!AfterRequest, RP!Prepares, RP!Commits, RP!Cancels
  <2>2. /\ q.issued = w.issued + 1 /\ q.generation = w.issued + 1 /\ q.lease = w.lease
        /\ q.accepted = w.accepted /\ q.pending = w.pending /\ q.output = w.output
    BY <1>1, <2>1, RP!CommittedFields
  <2>3. q.overwritten = w.overwritten
    BY <1>1, <2>1 DEF RP!Committed, RP!ProtocolState
  <2>4. Follows(q, w)
    BY <1>1, <2>2 DEF Follows
  <2>5. AddsNothing(q, w)
    BY <1>1, <2>2, <2>3 DEF AddsNothing, Unapplied
  <2> QED
    BY <1>1, <2>2, <2>4, <2>5
<1>4. CASE RP!Cancels(w, r)
  <2>1. q = RP!Clear(w)
    BY <1>4 DEF RP!AfterRequest, RP!Prepares, RP!Commits, RP!Cancels
  <2> QED
    BY <2>1, ClearStep
<1>5. CASE ~(RP!Prepares(w, r) \/ RP!Commits(w, r) \/ RP!Cancels(w, r))
  <2>1. q = w
    BY <1>5 DEF RP!AfterRequest
  <2> QED
    BY <1>1, <2>1, NothingStep
<1> QED
  BY <1>2, <1>3, <1>4, <1>5

\* The pending command is new: of the session that p was in, and later.
AddsLater(q, p) ==
  /\ q.generation = p.generation /\ p.generation # 0
  /\ q.pending.session = p.generation /\ q.pending.sequence > p.accepted
  /\ Unapplied(q) <= Unapplied(p) + 1

LEMMA CommandStep ==
  ASSUME NEW w, RP!GoodState(w), NEW cmd \in RP!Command
  PROVE  LET q == RP!AfterCommand(w, cmd) IN
         /\ RP!GoodState(q) /\ Follows(q, w) /\ q.lease = w.lease
         /\ IF RP!Admits(w, cmd) THEN AddsLater(q, w) ELSE AddsNothing(q, w)
<1> DEFINE q == RP!AfterCommand(w, cmd)
<1>1. RP!GoodState(q) /\ w \in RP!ProtocolState /\ w.overwritten \in Nat /\ w.issued \in Nat
      /\ w.generation \in Nat /\ w.accepted \in Nat
  BY RP!AfterCommandGood, Numbers
<1>2. CASE RP!Admits(w, cmd)
  <2>1. q = RP!Admitted(w, cmd)
    BY <1>2 DEF RP!AfterCommand
  <2>2. /\ cmd.key.session = w.generation /\ cmd.key.sequence > w.accepted
        /\ cmd.key.sequence \in Nat /\ w.generation # 0
    BY <1>1, <1>2, KeyNumbers
    DEF RP!Admits, RP!Command, RP!GoodState, RP!OwnershipConsistent
  <2>3. /\ q.issued = w.issued /\ q.generation = w.generation /\ q.lease = w.lease
        /\ q.accepted = cmd.key.sequence /\ q.pending = cmd.key /\ q.output = w.output
    BY <1>1, <2>1, RP!AdmittedFields
  <2>4. q.overwritten = IF w.pending # RP!NoKey THEN w.overwritten + 1 ELSE w.overwritten
    BY <1>1, <2>1 DEF RP!Admitted, RP!ProtocolState
  <2>5. Follows(q, w)
    BY <1>1, <2>2, <2>3 DEF Follows
  <2>6. Unapplied(q) <= Unapplied(w) + 1
    BY <1>1, <2>4 DEF Unapplied
  <2>7. AddsLater(q, w)
    BY <2>2, <2>3, <2>6 DEF AddsLater
  <2> QED
    BY <1>1, <1>2, <2>3, <2>5, <2>7
<1>3. CASE ~RP!Admits(w, cmd)
  <2>1. q = RP!Rejected(w)
    BY <1>3 DEF RP!AfterCommand
  <2>2. RP!SameSession(q, w)
    BY <1>1, <2>1, RP!RejectedFields
  <2>3. q.overwritten = w.overwritten
    BY <1>1, <2>1 DEF RP!Rejected, RP!ProtocolState
  <2>4. Follows(q, w)
    BY <1>1, <2>2 DEF RP!SameSession, Follows
  <2>5. AddsNothing(q, w)
    BY <1>1, <2>2, <2>3 DEF RP!SameSession, AddsNothing, Unapplied
  <2> QED
    BY <1>1, <1>3, <2>2, <2>4, <2>5 DEF RP!SameSession
<1> QED
  BY <1>2, <1>3

LEMMA TickStep ==
  ASSUME NEW w, RP!GoodState(w)
  PROVE  LET q == RP!AfterTick(w) IN
         /\ RP!GoodState(q) /\ Follows(q, w) /\ AddsNothing(q, w) /\ q.lease = w.lease
         /\ RP!Applies(w) => q.pending = RP!NoKey /\ Unapplied(q) + 1 <= Unapplied(w)
<1> DEFINE q == RP!AfterTick(w)
<1>1. RP!GoodState(q) /\ w \in RP!ProtocolState /\ w.overwritten \in Nat /\ w.issued \in Nat
      /\ w.generation \in Nat /\ w.accepted \in Nat
  BY RP!AfterTickGood, Numbers
<1>2. CASE RP!Applies(w)
  <2>1. q = RP!Applied(w) /\ w.pending # RP!NoKey
    BY <1>2 DEF RP!AfterTick, RP!Applies
  <2>2. /\ q.issued = w.issued /\ q.generation = w.generation /\ q.lease = w.lease
        /\ q.accepted = w.accepted /\ q.pending = RP!NoKey /\ q.output = w.pending
    BY <1>1, <2>1, RP!AppliedFields
  <2>3. q.overwritten = w.overwritten
    BY <1>1, <2>1 DEF RP!Applied, RP!ProtocolState
  <2>4. Unapplied(q) + 1 <= Unapplied(w) /\ AddsNothing(q, w)
    BY <1>1, <2>1, <2>2, <2>3 DEF AddsNothing, Unapplied
  <2> QED
    BY <1>1, <2>2, <2>4 DEF Follows
<1>3. CASE ~RP!Applies(w)
  <2>1. q = w
    BY <1>3 DEF RP!AfterTick
  <2> QED
    BY <1>1, <1>3, <2>1, NothingStep
<1> QED
  BY <1>2, <1>3

\* The clock.
LEMMA AgedStep ==
  ASSUME NEW p, RP!GoodState(p)
  PROVE  LET q == Aged(p) IN
         RP!GoodState(q) /\ RP!SameSession(q, p) /\ q.overwritten = p.overwritten
<1> DEFINE q == [p EXCEPT !.age = @ + 1]
<1>1. p \in RP!ProtocolState
  BY Numbers
<1>2. q \in RP!ProtocolState /\ RP!SameSession(q, p)
  BY <1>1, RP!AgedFields
<1>3. RP!GoodState(q)
  BY <1>2, RP!SameGood
<1>4. q.overwritten = p.overwritten
  BY <1>1 DEF RP!ProtocolState
<1>5. RP!SameSession(p, p)
  BY DEF RP!SameSession
<1>6. Aged(p) = p \/ Aged(p) = q
  BY DEF Aged
<1> QED
  BY <1>2, <1>3, <1>4, <1>5, <1>6

-----------------------------------------------------------------------------
(* What a status withdrew stays withdrawn *)

LEMMA StatusNumbers ==
  ASSUME NEW st \in Statuses
  PROVE  st.issued \in Nat /\ st.session \in Nat /\ st.sequence \in Nat
  BY DEF Statuses

LEMMA ComesAfterKept ==
  ASSUME NEW st \in Statuses, NEW p, RP!GoodState(p), NEW q, RP!GoodState(q),
         Follows(q, p), ComesAfter(p, st)
  PROVE  ComesAfter(q, st)
<1>1. /\ p.issued \in Nat /\ p.generation \in Nat /\ p.accepted \in Nat
      /\ q.issued \in Nat /\ q.generation \in Nat /\ q.accepted \in Nat
      /\ st.issued \in Nat /\ st.session \in Nat /\ st.sequence \in Nat
  BY Numbers, StatusNumbers
<1> QED
  BY <1>1 DEF Follows, ComesAfter

LEMMA WithdrewKept ==
  ASSUME NEW st \in Statuses, NEW p, RP!GoodState(p), NEW q, RP!GoodState(q),
         Withdrew(st, p), Follows(q, p), AddsNothing(q, p) \/ AddsLater(q, p)
  PROVE  Withdrew(st, q)
<1> SUFFICES ASSUME st.phase # "RUNNING"
             PROVE  ComesAfter(q, st) /\ NewerThan(st, q.output) /\ NewerThan(st, q.pending)
  BY DEF Withdrew
<1>1. ComesAfter(p, st) /\ NewerThan(st, p.output) /\ NewerThan(st, p.pending)
  BY DEF Withdrew
<1>2. NewerThan(st, RP!NoKey)
  BY SameValues DEF NewerThan
<1>3. ComesAfter(q, st) /\ NewerThan(st, q.output)
  BY <1>1, <1>2, ComesAfterKept DEF Follows
<1>4. CASE AddsNothing(q, p)
  BY <1>1, <1>2, <1>3, <1>4 DEF AddsNothing
<1>5. CASE AddsLater(q, p)
  <2>1. /\ p.accepted \in Nat /\ st.sequence \in Nat
        /\ q.pending.session \in Nat /\ q.pending.sequence \in Nat
    BY Numbers, StatusNumbers, KeyNumbers
  <2> QED
    BY <1>1, <1>3, <1>5, <2>1 DEF AddsLater, ComesAfter, NewerThan
<1> QED
  BY <1>3, <1>4, <1>5

\* The status of an object that is not RUNNING has withdrawn everything.
LEMMA WithdrewNow ==
  ASSUME NEW p, RP!GoodState(p)
  PROVE  Progress(p) \in Statuses /\ Withdrew(Progress(p), p)
<1> DEFINE st == Progress(p)
<1>1. /\ p.issued \in Nat /\ p.generation \in Nat /\ p.accepted \in Nat
      /\ p.phase \in RP!Phases
  BY Numbers DEF RP!ProtocolState
<1>2. st \in Statuses
  BY <1>1 DEF Progress, Statuses
<1>3. ComesAfter(p, st)
  BY <1>1 DEF Progress, ComesAfter
<1>4. p.phase # "RUNNING" => p.output = RP!NoKey /\ p.pending = RP!NoKey
  BY DEF RP!GoodState, RP!PendingIsLatest, RP!OutputIsCurrent
<1> QED
  BY <1>2, <1>3, <1>4, SameValues DEF Withdrew, NewerThan, Progress

-----------------------------------------------------------------------------
(* The clauses that depend on the robot, kept by every step of it *)

\* The sum of CommandsAddUp, in terms of Unapplied.
LEMMA AddUp ==
  ASSUME NEW p, RP!GoodState(p), NEW c \in Counts
  PROVE  c.applied + p.overwritten + (IF p.pending = Robot!NoKey THEN 0 ELSE 1) <= c.accepted
           <=> c.applied + Unapplied(p) <= c.accepted
<1> DEFINE one == IF p.pending = Robot!NoKey THEN 0 ELSE 1
<1>1. Unapplied(p) = p.overwritten + one /\ one \in Nat
  BY SameNoKey DEF Unapplied
<1>2. p.overwritten \in Nat /\ c.applied \in Nat /\ c.accepted \in Nat
  BY Numbers DEF Counts
<1>3. c.applied + p.overwritten + one <= c.accepted
        <=> c.applied + Unapplied(p) <= c.accepted
  <2> HIDE DEF one
  <2> QED
    BY <1>1, <1>2
<1> QED
  BY <1>3

\* A step of the object that admits no command and gives no lease.
LEMMA QuietStep ==
  ASSUME MockInv, RP!GoodState(robot'), Follows(robot', robot),
         AddsNothing(robot', robot), robot'.lease \in {0, robot.lease},
         tick # "none" => tick' # "none", counts' = counts, announced \subseteq announced'
  PROVE  RobotAgrees'
<1>1. RP!GoodState(robot) /\ RP!GoodState(robot)' /\ counts \in Counts /\ counts' \in Counts
  BY DEF MockInv, RobotAgrees, Typed
<1>2. PendingHasTick'
  BY SameNoKey DEF MockInv, RobotAgrees, PendingHasTick, AddsNothing
<1>3. LeaseWasAnnounced'
  BY DEF MockInv, RobotAgrees, LeaseWasAnnounced
<1>4. CommandsAddUp'
  <2>1. /\ Unapplied(robot) \in Nat /\ Unapplied(robot') \in Nat
        /\ Unapplied(robot') <= Unapplied(robot)
        /\ counts.accepted \in Nat /\ counts.applied \in Nat
    BY <1>1, Numbers DEF AddsNothing, Counts
  <2>2. counts.applied + Unapplied(robot) <= counts.accepted
    BY <1>1, AddUp DEF MockInv, RobotAgrees, CommandsAddUp, Counts
  <2>3. counts'.applied + Unapplied(robot') <= counts'.accepted
    BY <2>1, <2>2
  <2> QED
    BY <1>1, <2>3, AddUp DEF CommandsAddUp, Counts
<1> QED
  BY <1>1, <1>2, <1>3, <1>4 DEF RobotAgrees

\* What every step does to the object and what agrees with it.
RobotStep ==
  /\ RobotAgrees'
  /\ counts' \in Counts
  /\ \A st \in Statuses : Withdrew(st, robot) => Withdrew(st, robot')

LEMMA QuietRobotStep ==
  ASSUME MockInv, RP!GoodState(robot'), Follows(robot', robot),
         AddsNothing(robot', robot), robot'.lease \in {0, robot.lease},
         tick # "none" => tick' # "none", counts' = counts, announced \subseteq announced'
  PROVE  RobotStep
<1>1. \A st \in Statuses : Withdrew(st, robot) => Withdrew(st, robot')
  BY WithdrewKept DEF MockInv, RobotAgrees
<1> QED
  BY <1>1, QuietStep DEF RobotStep, MockInv, Typed

LEMMA StillRobotStep ==
  ASSUME MockInv, robot' = robot, tick' = tick, counts' = counts, announced' = announced
  PROVE  RobotStep
<1>1. Follows(robot, robot) /\ AddsNothing(robot, robot) /\ RP!GoodState(robot)
  BY NothingStep DEF MockInv, RobotAgrees
<1> QED
  BY <1>1, QuietRobotStep

\* Two calls in one step, of which the first, the watchdog, is quiet.
LEMMA QuietTwice ==
  ASSUME NEW p, NEW w, NEW q, RP!GoodState(p), RP!GoodState(w), RP!GoodState(q),
         Follows(w, p), AddsNothing(w, p), Follows(q, w), AddsNothing(q, w)
  PROVE  Follows(q, p) /\ AddsNothing(q, p)
<1>1. /\ p.issued \in Nat /\ p.generation \in Nat /\ p.accepted \in Nat
      /\ w.issued \in Nat /\ w.generation \in Nat /\ w.accepted \in Nat
      /\ q.issued \in Nat /\ q.generation \in Nat /\ q.accepted \in Nat
      /\ Unapplied(p) \in Nat /\ Unapplied(w) \in Nat /\ Unapplied(q) \in Nat
  BY Numbers
<1>2. q.output \in {p.output, p.pending, RP!NoKey} /\ q.pending \in {p.pending, RP!NoKey}
  BY DEF Follows, AddsNothing
<1>3. AddsNothing(q, p)
  BY <1>1, <1>2 DEF AddsNothing
<1>4. q.issued >= p.issued
  BY <1>1 DEF Follows
<1>5. ASSUME q.generation # 0
      PROVE  \/ q.generation > p.issued
             \/ q.generation = p.generation /\ q.accepted >= p.accepted
  BY <1>1, <1>5 DEF Follows
<1> QED
  BY <1>2, <1>3, <1>4, <1>5 DEF Follows

LEMMA ReceiveCommandStep ==
  ASSUME MockInv, NEW cmd \in Robot!Command, ReceiveCommand(cmd)
  PROVE  RobotStep
<1> DEFINE w == RP!Watchdog(robot)
           q == RP!AfterCommand(w, cmd)
<1>1. /\ RP!GoodState(robot) /\ cmd \in RP!Command
      /\ RP!GoodState(w) /\ Follows(w, robot) /\ AddsNothing(w, robot)
      /\ w.lease \in {0, robot.lease}
  BY WatchdogStep, SameValues DEF MockInv, RobotAgrees
<1>2. /\ RP!GoodState(q) /\ Follows(q, w) /\ q.lease = w.lease
      /\ IF RP!Admits(w, cmd) THEN AddsLater(q, w) ELSE AddsNothing(q, w)
  BY <1>1, CommandStep
<1>3. /\ robot' = q /\ announced' = announced
      /\ tick' = IF RP!Admits(w, cmd) THEN NextApplyTick ELSE tick
      /\ counts' = IF RP!Admits(w, cmd) THEN [counts EXCEPT !.accepted = @ + 1] ELSE counts
  BY SameWatchdog, SameCommands DEF ReceiveCommand, history
<1> HIDE DEF q, w
<1>4. CASE RP!Admits(w, cmd)
  <2>1. AddsLater(q, w) /\ tick' # "none"
    BY <1>2, <1>3, <1>4 DEF NextApplyTick
  <2>2. \A st \in Statuses : Withdrew(st, robot) => Withdrew(st, q)
    BY <1>1, <1>2, <2>1, WithdrewKept
  <2>3. /\ counts \in Counts /\ counts.accepted \in Nat /\ counts.applied \in Nat
        /\ counts' \in Counts /\ counts'.accepted = counts.accepted + 1
        /\ counts'.applied = counts.applied
    BY <1>3, <1>4 DEF MockInv, Typed, Counts
  <2>4. CommandsAddUp'
    <3>1. counts.applied + Unapplied(robot) <= counts.accepted
      BY <1>1, <2>3, AddUp DEF MockInv, RobotAgrees, CommandsAddUp
    <3>2. /\ Unapplied(robot) \in Nat /\ Unapplied(w) \in Nat /\ Unapplied(q) \in Nat
          /\ Unapplied(w) <= Unapplied(robot) /\ Unapplied(q) <= Unapplied(w) + 1
      BY <1>1, <1>2, <2>1, Numbers DEF AddsNothing, AddsLater
    <3>3. counts'.applied + Unapplied(q) <= counts'.accepted
      BY <2>3, <3>1, <3>2
    <3> QED
      BY <1>2, <1>3, <2>3, <3>3, AddUp DEF CommandsAddUp
  <2>5. LeaseWasAnnounced'
    BY <1>1, <1>2, <1>3 DEF MockInv, RobotAgrees, LeaseWasAnnounced
  <2> QED
    BY <1>2, <1>3, <2>1, <2>2, <2>3, <2>4, <2>5 DEF RobotStep, RobotAgrees, PendingHasTick
<1>5. CASE ~RP!Admits(w, cmd)
  <2>1. Follows(q, robot) /\ AddsNothing(q, robot)
    BY <1>1, <1>2, <1>5, QuietTwice
  <2> QED
    BY <1>1, <1>2, <1>3, <1>5, <2>1, QuietRobotStep
<1> QED
  BY <1>4, <1>5

LEMMA ReceiveRequestStep ==
  ASSUME MockInv, NEW r \in Robot!Request, ReceiveRequest(r)
  PROVE  RobotStep
<1> DEFINE w == RP!Watchdog(robot)
           q == RP!AfterRequest(w, r)
           lease == RP!ReplyTo(w, r).lease
<1>1. /\ RP!GoodState(robot) /\ r \in RP!Request
      /\ RP!GoodState(w) /\ Follows(w, robot) /\ AddsNothing(w, robot)
      /\ w.lease \in {0, robot.lease}
  BY WatchdogStep, SameValues DEF MockInv, RobotAgrees
<1>2. /\ RP!GoodState(q) /\ Follows(q, w) /\ AddsNothing(q, w)
      /\ q.lease \in {0, w.lease, lease}
  BY <1>1, RequestStep
<1>3. PICK sent \in Succeeds :
        /\ robot' = IF sent THEN q ELSE robot
        /\ announced' = IF sent THEN announced \cup ({lease} \ {0}) ELSE announced
  BY SameWatchdog, SameRequestControl DEF ReceiveRequest
<1>4. tick' = tick /\ counts' = counts
  BY DEF ReceiveRequest
<1> HIDE DEF q, w, lease
<1>5. CASE sent
  <2>1. /\ Follows(q, robot) /\ AddsNothing(q, robot)
        /\ robot' = q /\ announced' = announced \cup ({lease} \ {0})
    BY <1>1, <1>2, <1>3, <1>5, QuietTwice
  <2>2. \A st \in Statuses : Withdrew(st, robot) => Withdrew(st, q)
    BY <1>1, <1>2, <2>1, WithdrewKept
  <2>3. counts \in Counts /\ CommandsAddUp'
    <3>1. counts \in Counts /\ counts.applied \in Nat /\ counts.accepted \in Nat
      BY DEF MockInv, Typed, Counts
    <3>2. counts.applied + Unapplied(robot) <= counts.accepted
      BY <1>1, <3>1, AddUp DEF MockInv, RobotAgrees, CommandsAddUp
    <3>3. /\ Unapplied(robot) \in Nat /\ Unapplied(q) \in Nat
          /\ Unapplied(q) <= Unapplied(robot)
      BY <1>1, <1>2, <2>1, Numbers DEF AddsNothing
    <3>4. counts.applied + Unapplied(q) <= counts.accepted
      BY <3>1, <3>2, <3>3
    <3> QED
      BY <1>2, <1>4, <2>1, <3>1, <3>4, AddUp DEF CommandsAddUp
  <2>4. LeaseWasAnnounced'
    BY <1>1, <1>2, <2>1 DEF MockInv, RobotAgrees, LeaseWasAnnounced
  <2>5. PendingHasTick'
    BY <1>4, <2>1, SameNoKey DEF MockInv, RobotAgrees, PendingHasTick, AddsNothing
  <2> QED
    BY <1>2, <1>4, <2>1, <2>2, <2>3, <2>4, <2>5 DEF RobotStep, RobotAgrees
<1>6. CASE ~sent
  BY <1>3, <1>4, <1>6, StillRobotStep
<1> QED
  BY <1>5, <1>6

LEMMA ApplyStep ==
  ASSUME MockInv, Apply
  PROVE  RobotStep
<1> DEFINE w == RP!Watchdog(robot)
           q == RP!AfterTick(w)
           applies == Ready(tick) /\ RP!Applies(w)
<1>1. /\ RP!GoodState(robot) /\ RP!GoodState(w) /\ Follows(w, robot) /\ AddsNothing(w, robot)
      /\ w.lease \in {0, robot.lease}
  BY WatchdogStep DEF MockInv, RobotAgrees
<1>2. /\ RP!GoodState(q) /\ Follows(q, w) /\ AddsNothing(q, w) /\ q.lease = w.lease
      /\ RP!Applies(w) => q.pending = RP!NoKey /\ Unapplied(q) + 1 <= Unapplied(w)
  BY <1>1, TickStep
<1>3. announced' = announced
  BY DEF Apply
<1>4. CASE ~applyDue
  <2>1. robot' = robot /\ tick' = tick /\ counts' = counts
    BY <1>4 DEF Apply
  <2> QED
    BY <1>3, <2>1, StillRobotStep
<1>5. CASE applyDue
  <2>1. /\ robot' = IF Ready(tick) THEN q ELSE robot
        /\ tick' = TickLeft(applies)
        /\ counts' = IF applies THEN [counts EXCEPT !.applied = @ + 1] ELSE counts
    BY <1>5, SameWatchdog, SameCommands DEF Apply
  <2> HIDE DEF q, w
  <2>2. CASE ~Ready(tick)
    <3>1. robot' = robot /\ tick' = tick /\ counts' = counts
      BY <2>1, <2>2 DEF TickLeft
    <3> QED
      BY <1>3, <3>1, StillRobotStep
  <2>3. CASE Ready(tick) /\ ~RP!Applies(w)
    <3>1. robot' = q /\ tick' = tick /\ counts' = counts
      BY <2>1, <2>3 DEF TickLeft
    <3>2. Follows(q, robot) /\ AddsNothing(q, robot)
      BY <1>1, <1>2, QuietTwice
    <3> QED
      BY <1>1, <1>2, <1>3, <3>1, <3>2, QuietRobotStep
  <2>4. CASE Ready(tick) /\ RP!Applies(w)
    <3>1. /\ robot' = q /\ tick' = "none" /\ q.pending = RP!NoKey
          /\ counts' = [counts EXCEPT !.applied = @ + 1]
      BY <1>2, <2>1, <2>4 DEF TickLeft
    <3>2. Follows(q, robot) /\ AddsNothing(q, robot)
      BY <1>1, <1>2, QuietTwice
    <3>3. \A st \in Statuses : Withdrew(st, robot) => Withdrew(st, q)
      BY <1>1, <1>2, <3>2, WithdrewKept
    <3>4. /\ counts \in Counts /\ counts.accepted \in Nat /\ counts.applied \in Nat
          /\ counts' \in Counts /\ counts'.accepted = counts.accepted
          /\ counts'.applied = counts.applied + 1
      BY <3>1 DEF MockInv, Typed, Counts
    <3>5. CommandsAddUp'
      <4>1. counts.applied + Unapplied(robot) <= counts.accepted
        BY <1>1, <3>4, AddUp DEF MockInv, RobotAgrees, CommandsAddUp
      <4>2. /\ Unapplied(robot) \in Nat /\ Unapplied(w) \in Nat /\ Unapplied(q) \in Nat
            /\ Unapplied(w) <= Unapplied(robot) /\ Unapplied(q) + 1 <= Unapplied(w)
        BY <1>1, <1>2, <2>4, Numbers DEF AddsNothing
      <4>3. counts'.applied + Unapplied(q) <= counts'.accepted
        BY <3>4, <4>1, <4>2
      <4> QED
        BY <1>2, <3>1, <3>4, <4>3, AddUp DEF CommandsAddUp
    <3>6. PendingHasTick' /\ LeaseWasAnnounced'
      BY <1>1, <1>2, <1>3, <3>1, SameNoKey
      DEF MockInv, RobotAgrees, PendingHasTick, LeaseWasAnnounced
    <3> QED
      BY <1>2, <3>1, <3>3, <3>4, <3>5, <3>6 DEF RobotStep, RobotAgrees
  <2> QED
    BY <2>2, <2>3, <2>4
<1> QED
  BY <1>4, <1>5

LEMMA CopyStatusStep ==
  ASSUME MockInv, CopyStatus
  PROVE  RobotStep
<1>1. /\ robot' = RP!Watchdog(robot) \/ robot' = robot
      /\ tick' = tick /\ counts' = counts /\ announced' = announced
  BY SameWatchdog DEF CopyStatus, history
<1>2. RP!GoodState(robot)
  BY DEF MockInv, RobotAgrees
<1> QED
  BY <1>1, <1>2, WatchdogStep, QuietRobotStep, StillRobotStep

LEMMA TimeStep ==
  ASSUME MockInv, TimePasses
  PROVE  RobotStep
<1> DEFINE q == Aged(robot)
<1>1. /\ robot' = q /\ counts' = counts /\ announced' = announced
      /\ tick # "none" => tick' # "none"
  BY DEF TimePasses, history
<1>2. /\ RP!GoodState(robot) /\ RP!GoodState(q) /\ RP!SameSession(q, robot)
      /\ q.overwritten = robot.overwritten
  BY AgedStep DEF MockInv, RobotAgrees
<1>3. Follows(q, robot) /\ AddsNothing(q, robot)
  BY <1>2, NothingStep DEF RP!SameSession, Follows, AddsNothing, Unapplied
<1> QED
  BY <1>1, <1>2, <1>3, QuietRobotStep DEF RP!SameSession

LEMMA NextRobotStep == MockInv /\ [Next]_vars => RobotStep
<1> SUFFICES ASSUME MockInv, [Next]_vars
             PROVE  RobotStep
  OBVIOUS
<1>1. ASSUME NEW cmd \in Robot!Command, ReceiveCommand(cmd)
      PROVE  RobotStep
  BY <1>1, ReceiveCommandStep
<1>2. ASSUME NEW r \in Robot!Request, ReceiveRequest(r)
      PROVE  RobotStep
  BY <1>2, ReceiveRequestStep
<1>3. CASE Apply
  BY <1>3, ApplyStep
<1>4. CASE CopyStatus
  BY <1>4, CopyStatusStep
<1>5. CASE TimePasses
  BY <1>5, TimeStep
<1>6. CASE ReplyInfo \/ CopyOutput \/ SendState \/ SendStatus \/ Leave \/ Close \/ Verdict
  <2>1. robot' = robot /\ tick' = tick /\ counts' = counts /\ announced' = announced
    BY <1>6 DEF ReplyInfo, CopyOutput, SendState, SendStatus, Leave, Close, Verdict, history
  <2> QED
    BY <2>1, StillRobotStep
<1>7. CASE UNCHANGED vars
  BY <1>7, StillRobotStep DEF vars, history
<1> QED
  BY <1>1, <1>2, <1>3, <1>4, <1>5, <1>6, <1>7 DEF Next, Main, Callbacks

-----------------------------------------------------------------------------
(* The two topics, and the faults *)

LEMMA NothingType ==
  /\ NoStatus \in Statuses /\ RP!NoKey \in RP!Keys
  /\ Nothing.output = RP!NoKey /\ Nothing.status = NoStatus
  /\ Nothing \in [output : RP!Keys, status : Statuses]
<1>1. NoStatus \in Statuses
  BY RP!FreshGood, WithdrewNow, SameValues DEF NoStatus
<1>2. RP!NoKey \in RP!Keys
  BY RP!Values
<1> QED
  BY <1>1, <1>2, SameNoKey DEF Nothing

\* What the steps that publish, and the others, do to the values in flight.
LEMMA ValuesStep ==
  ASSUME MockInv, [Next]_vars, RobotStep
  PROVE  Typed'
<1>1. /\ robot' \in RP!ProtocolState /\ robot'.output \in RP!Keys
      /\ robot.output \in RP!Keys /\ Progress(robot') \in Statuses
  BY Numbers, WithdrewNow DEF RobotStep, RobotAgrees, MockInv
<1>2. counts' \in Counts
  BY DEF RobotStep
<1>3. /\ copied \in [output : RP!Keys, status : Statuses]
      /\ shown \in [output : RP!Keys, status : Statuses, afterStatus : BOOLEAN]
      /\ rc \in {0, 2}
  BY DEF MockInv, Typed
<1>4. /\ [copied EXCEPT !.output = robot.output] \in [output : RP!Keys, status : Statuses]
      /\ [copied EXCEPT !.status = Progress(robot')] \in [output : RP!Keys, status : Statuses]
  BY <1>1, <1>3
<1>5. copied' \in {copied, Nothing, [copied EXCEPT !.output = robot.output],
                   [copied EXCEPT !.status = Progress(robot')]}
  BY DEF Next, Main, Callbacks, Apply, CopyOutput, SendState, CopyStatus, SendStatus, Leave,
         Close, Verdict, TimePasses, ReceiveCommand, ReceiveRequest, ReplyInfo, vars
<1>6. /\ [shown EXCEPT !.output = copied.output, !.afterStatus = TRUE]
             \in [output : RP!Keys, status : Statuses, afterStatus : BOOLEAN]
      /\ [shown EXCEPT !.status = copied.status, !.afterStatus = FALSE]
             \in [output : RP!Keys, status : Statuses, afterStatus : BOOLEAN]
  BY <1>3
<1>7. shown' \in {shown, [shown EXCEPT !.output = copied.output, !.afterStatus = TRUE],
                  [shown EXCEPT !.status = copied.status, !.afterStatus = FALSE]}
  BY DEF Next, Main, Callbacks, Apply, CopyOutput, SendState, CopyStatus, SendStatus, Leave,
         Close, Verdict, TimePasses, ReceiveCommand, ReceiveRequest, ReplyInfo, history, vars
<1>8. rc' \in {rc, 2}
  BY DEF Next, Main, Callbacks, Apply, CopyOutput, SendState, CopyStatus, SendStatus, Leave,
         Close, Verdict, TimePasses, ReceiveCommand, ReceiveRequest, ReplyInfo, Publishes, vars
<1> QED
  BY <1>1, <1>2, <1>3, <1>4, <1>5, <1>6, <1>7, <1>8, NothingType DEF Typed

LEMMA TopicsStep ==
  ASSUME MockInv, [Next]_vars, RobotStep
  PROVE  TopicsAgree'
<1>1. /\ copied \in [output : RP!Keys, status : Statuses]
      /\ shown \in [output : RP!Keys, status : Statuses, afterStatus : BOOLEAN]
      /\ Withdrew(shown.status, robot) /\ Withdrew(shown.status, robot')
  BY DEF MockInv, Typed, TopicsAgree, RobotStep
<1>2. CASE CopyOutput
  <2>1. /\ shown' = shown /\ robot' = robot /\ place' \in {"sendState", "status"}
        /\ place' = "sendState" => copied'.output = robot.output
    BY <1>1, <1>2 DEF CopyOutput, history
  <2> QED
    BY <1>1, <2>1 DEF MockInv, TopicsAgree, Withdrew
<1>3. CASE SendState
  <2>1. /\ robot' = robot /\ place = "sendState" /\ place' \in {"status", "close"}
        /\ shown' = IF place' = "status"
                    THEN [shown EXCEPT !.output = copied.output, !.afterStatus = TRUE]
                    ELSE shown
    BY <1>3 DEF SendState, Publishes
  <2>2. shown'.status = shown.status
    BY <1>1, <2>1
  <2>3. \/ shown' = shown
        \/ shown'.output = copied.output
    BY <1>1, <2>1
  <2> QED
    BY <1>1, <2>1, <2>2, <2>3 DEF MockInv, TopicsAgree
<1>4. CASE CopyStatus
  <2>1. /\ shown' = shown /\ place' \in {"sendStatus", "top"}
        /\ place' = "sendStatus" => copied'.status = Progress(robot')
    BY <1>1, <1>4 DEF CopyStatus, history
  <2>2. Withdrew(Progress(robot'), robot')
    BY WithdrewNow DEF RobotStep, RobotAgrees
  <2> QED
    BY <1>1, <2>1, <2>2 DEF MockInv, TopicsAgree
<1>5. CASE SendStatus
  <2>1. /\ robot' = robot /\ place = "sendStatus" /\ place' \in {"top", "close"}
        /\ shown' = IF place' = "top"
                    THEN [shown EXCEPT !.status = copied.status, !.afterStatus = FALSE]
                    ELSE shown
    BY <1>5 DEF SendStatus, Publishes
  <2>2. \/ shown' = shown
        \/ shown'.status = copied.status /\ ~shown'.afterStatus
    BY <1>1, <2>1
  <2> QED
    BY <1>1, <2>1, <2>2 DEF MockInv, TopicsAgree
<1>6. CASE ~(CopyOutput \/ SendState \/ CopyStatus \/ SendStatus)
  <2>1. /\ shown' = shown /\ copied' = copied
        /\ place' = place \/ place' \in {"state", "close", "verdict", "done"}
    BY <1>6 DEF Next, Main, Callbacks, Apply, Leave, Close, Verdict, TimePasses,
                ReceiveCommand, ReceiveRequest, ReplyInfo, history, vars
  <2>2. Withdrew(copied.status, robot) => Withdrew(copied.status, robot')
    BY <1>1 DEF RobotStep
  <2> QED
    BY <1>1, <2>1, <2>2 DEF MockInv, TopicsAgree
<1> QED
  BY <1>2, <1>3, <1>4, <1>5, <1>6

LEMMA FaultsStep ==
  ASSUME MockInv, [Next]_vars
  PROVE  FaultsAreKnown'
<1>1. rc \in {0, 2} /\ FaultsAreKnown
  BY DEF MockInv, Typed
<1>2. CASE ReplyInfo \/ \E r \in Robot!Request : ReceiveRequest(r)
  <2>1. PICK sent \in Succeeds : failed' = (failed \/ ~sent) /\ faults' = (faults \/ ~sent)
    BY <1>2 DEF ReplyInfo, ReceiveRequest
  <2>2. rc' = rc /\ place' = place /\ place # "done"
    BY <1>2 DEF ReplyInfo, ReceiveRequest, Listening, Subscribed
  <2> QED
    BY <1>1, <2>1, <2>2 DEF FaultsAreKnown
<1>3. CASE SendState \/ SendStatus
  <2>1. PICK sent \in Succeeds : /\ rc' = IF sent THEN rc ELSE 2
                                 /\ faults' = (faults \/ ~sent)
    BY <1>3 DEF SendState, SendStatus, Publishes
  <2>2. place' # "done" /\ failed' = failed
    BY <1>3 DEF SendState, SendStatus, Publishes
  <2>3. rc' = 2 \/ (rc' = rc /\ (faults' => faults))
    BY <2>1
  <2> QED
    BY <1>1, <2>2, <2>3 DEF FaultsAreKnown
<1>4. CASE Close
  <2>1. PICK freed \in Succeeds : /\ rc' = IF freed THEN rc ELSE 2
                                  /\ faults' = (faults \/ ~freed)
    BY <1>4 DEF Close
  <2>2. place' # "done" /\ failed' = failed
    BY <1>4 DEF Close
  <2>3. rc' = 2 \/ (rc' = rc /\ (faults' => faults))
    BY <2>1
  <2> QED
    BY <1>1, <2>2, <2>3 DEF FaultsAreKnown
<1>5. CASE Verdict
  BY <1>1, <1>5 DEF Verdict, FaultsAreKnown, history
<1>6. CASE \/ Apply \/ CopyOutput \/ CopyStatus \/ Leave \/ TimePasses \/ UNCHANGED vars
           \/ \E cmd \in Robot!Command : ReceiveCommand(cmd)
  <2>1. /\ rc' = rc /\ failed' = failed /\ faults' = faults
        /\ place' = "done" => place = "done"
    BY <1>6 DEF Apply, CopyOutput, CopyStatus, Leave, TimePasses, ReceiveCommand, vars
  <2> QED
    BY <1>1, <2>1 DEF FaultsAreKnown
<1> QED
  BY <1>2, <1>3, <1>4, <1>5, <1>6 DEF Next, Main, Callbacks

-----------------------------------------------------------------------------
(* Invariance *)

LEMMA InitMock == Init => MockInv
<1> SUFFICES ASSUME Init PROVE MockInv
  OBVIOUS
<1>1. robot = RP!Fresh /\ RP!GoodState(robot) /\ robot \in RP!ProtocolState
  BY RP!FreshGood, SameValues DEF Init, RP!GoodState
<1>2. /\ robot.pending = RP!NoKey /\ robot.output = RP!NoKey
      /\ robot.lease = 0 /\ robot.overwritten = 0
  BY <1>1 DEF RP!Fresh
<1>3. Typed
  BY <1>1, NothingType, SameNoKey DEF Init, Typed, Counts
<1>4. PendingHasTick /\ CommandsAddUp /\ LeaseWasAnnounced
  BY <1>2, SameNoKey DEF Init, PendingHasTick, CommandsAddUp, LeaseWasAnnounced
<1>5. TopicsAgree
  <2>1. Withdrew(NoStatus, robot)
    BY <1>1, WithdrewNow, SameValues DEF NoStatus
  <2> QED
    BY <2>1 DEF Init, TopicsAgree
<1> QED
  BY <1>1, <1>3, <1>4, <1>5 DEF Init, MockInv, RobotAgrees, FaultsAreKnown

LEMMA StepMock == MockInv /\ [Next]_vars => MockInv'
  BY NextRobotStep, ValuesStep, TopicsStep, FaultsStep DEF MockInv, RobotStep

\* Whatever arrives, fails or is late, the object stays one that the class could
\* have reached, and the counters, topics and exit code agree with it.
THEOREM AlwaysMock == Spec => []MockInv
  BY InitMock, StepMock, PTL DEF Spec

\* A pending command always has a tick that some look will reach (mock.cpp:118-121,
\* 362-367).
THEOREM PendingTicks == Spec => []PendingHasTick
<1>1. MockInv => PendingHasTick
  BY DEF MockInv, RobotAgrees
<1> QED
  BY <1>1, AlwaysMock, PTL

\* Every accepted command is applied, overwritten, withdrawn or pending, once
\* (mock.cpp:118-121, 362-367; protocol.cpp:299).
THEOREM CommandsCount == Spec => []CommandsAddUp
<1>1. MockInv => CommandsAddUp
  BY DEF MockInv, RobotAgrees
<1> QED
  BY <1>1, AlwaysMock, PTL

\* No client holds a lease whose ACK was not published (mock.cpp:131-146).
THEOREM LeasesAnnounced == Spec => []LeaseWasAnnounced
<1>1. MockInv => LeaseWasAnnounced
  BY DEF MockInv, RobotAgrees
<1> QED
  BY <1>1, AlwaysMock, PTL

\* A BodyState published after a status that was not RUNNING carries no evidence
\* that status had withdrawn by the mock's rule (protocol.cpp:209-213), although the two
\* are copied in separate locked blocks (mock.cpp:360-395).
THEOREM EvidenceFollows == Spec => []EvidenceFollowsStatus
<1>1. MockInv => EvidenceFollowsStatus
  BY DEF MockInv, TopicsAgree, NewerThan, EvidenceFollowsStatus
<1> QED
  BY <1>1, AlwaysMock, PTL

\* Exit code 0 hides no fault (mock.cpp:400-418).
THEOREM VerdictHonest == Spec => []VerdictIsHonest
<1>1. MockInv => VerdictIsHonest
  BY DEF MockInv, FaultsAreKnown, VerdictIsHonest
<1> QED
  BY <1>1, AlwaysMock, PTL

-----------------------------------------------------------------------------
(* The mock implements ExternalLease *)

LEMMA SamePromise ==
  /\ RP!Promise!Init <=> Robot!Promise!Init
  /\ [RP!Promise!Next]_(RP!Promise!vars) <=> [Robot!Promise!Next]_(Robot!Promise!vars)
<1>1. RP!Promise!vars = Robot!Promise!vars /\ RP!Promise!vars' = Robot!Promise!vars'
  BY SameNoKey DEF RP!Promise!vars, Robot!Promise!vars
<1>2. RP!Promise!Next <=> Robot!Promise!Next
  BY DEF RP!Promise!Next, Robot!Promise!Next, RP!Promise!Offer, Robot!Promise!Offer,
         RP!Promise!Grant, Robot!Promise!Grant, RP!Promise!Free, Robot!Promise!Free,
         RP!Promise!Admit, Robot!Promise!Admit, RP!Promise!Apply, Robot!Promise!Apply,
         RP!Promise!Withhold, Robot!Promise!Withhold, RP!Promise!Empty, Robot!Promise!Empty,
         RP!Promise!Nobody, Robot!Promise!Nobody, RP!NoKey, Robot!NoKey
<1>3. RP!Promise!Init <=> Robot!Promise!Init
  BY DEF RP!Promise!Init, Robot!Promise!Init, RP!Promise!Nobody, Robot!Promise!Nobody,
         RP!NoKey, Robot!NoKey
<1> QED
  BY <1>1, <1>2, <1>3

\* Requests run on a copy that is kept only with its ACK, commands and ticks that
\* come between, and a clock that runs while messages are on their way: clients still
\* find the one-owner lease of ExternalLease (mock.cpp:108-150, 355-372).
THEOREM MockImplementsLease == Spec => Robot!LeasePromise
<1>1. Init => Robot!Promise!Init
  BY SamePromise, SameValues, RP!Values
  DEF Init, RP!Fresh, RP!Promise!Init, RP!Promise!Nobody
<1>2. MockInv /\ [Next]_vars => [RP!Promise!Next]_(RP!Promise!vars)
  <2> SUFFICES ASSUME MockInv, [Next]_vars
               PROVE  [RP!Promise!Next]_(RP!Promise!vars)
    OBVIOUS
  <2> DEFINE w == RP!Watchdog(robot)
  <2>1. RP!GoodState(robot)
    BY DEF MockInv, RobotAgrees
  <2>2. CASE robot' = robot
    BY <2>2 DEF RP!Promise!vars
  <2>3. ASSUME NEW cmd \in RP!Command, robot' = RP!AfterCommand(w, cmd)
        PROVE  [RP!Promise!Next]_(RP!Promise!vars)
    BY <2>1, <2>3, RP!CommandRefines
  <2>4. ASSUME NEW r \in RP!Request, robot' = RP!AfterRequest(w, r)
        PROVE  [RP!Promise!Next]_(RP!Promise!vars)
    BY <2>1, <2>4, RP!RequestRefines
  <2>5. CASE robot' = RP!AfterTick(w)
    BY <2>1, <2>5, RP!TickRefines
  <2>6. CASE robot' = w
    BY <2>1, <2>6, RP!WatchdogRefines DEF RP!SameSession
  <2>7. CASE robot' = Aged(robot)
    BY <2>1, <2>7, AgedStep DEF RP!SameSession, RP!Promise!vars
  <2>8. \/ robot' \in {robot, w, Aged(robot), RP!AfterTick(w)}
        \/ \E cmd \in RP!Command : robot' = RP!AfterCommand(w, cmd)
        \/ \E r \in RP!Request : robot' = RP!AfterRequest(w, r)
    <3>1. ASSUME NEW cmd \in Robot!Command, ReceiveCommand(cmd)
          PROVE  cmd \in RP!Command /\ robot' = RP!AfterCommand(w, cmd)
      BY <3>1, SameValues, SameWatchdog, SameCommands DEF ReceiveCommand
    <3>2. ASSUME NEW r \in Robot!Request, ReceiveRequest(r)
          PROVE  r \in RP!Request /\ robot' \in {robot, RP!AfterRequest(w, r)}
      BY <3>2, SameValues, SameWatchdog, SameRequestControl DEF ReceiveRequest
    <3>3. CASE Apply
      BY <3>3, SameWatchdog, SameCommands DEF Apply
    <3>4. CASE CopyStatus
      BY <3>4, SameWatchdog DEF CopyStatus
    <3>5. CASE TimePasses
      BY <3>5 DEF TimePasses
    <3>6. CASE \/ ReplyInfo \/ CopyOutput \/ SendState \/ SendStatus \/ Leave \/ Close
               \/ Verdict \/ UNCHANGED vars
      BY <3>6 DEF ReplyInfo, CopyOutput, SendState, SendStatus, Leave, Close, Verdict, vars
    <3> QED
      BY <3>1, <3>2, <3>3, <3>4, <3>5, <3>6 DEF Next, Main, Callbacks
  <2> QED
    BY <2>2, <2>3, <2>4, <2>5, <2>6, <2>7, <2>8
<1>3. MockInv /\ [Next]_vars => [Robot!Promise!Next]_(Robot!Promise!vars)
  BY <1>2, SamePromise
<1> QED
  BY <1>1, <1>3, AlwaysMock, PTL DEF Spec, Robot!LeasePromise, Robot!Promise!Spec
=============================================================================
