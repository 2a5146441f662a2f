------------------------ MODULE RobotProtocolProofs ------------------------
(***************************************************************************)
(* Theorems about RobotProtocol for every set of clients and requests and  *)
(* every limit and timeout.  One invariant of the object, GoodState, is    *)
(* kept by each operator the methods are composed of; the methods, and the *)
(* modules that call them, keep it because the operators do.               *)
(***************************************************************************)
EXTENDS RobotProtocol, TLAPS

\* The inductive invariant.  Besides the properties themselves it says that the
\* admitted sequence is 0 outside a session: COMMIT does not reset it.
GoodState(p) == /\ p \in ProtocolState
                /\ OwnershipConsistent(p)
                /\ PendingIsLatest(p)
                /\ OutputIsCurrent(p)
                /\ ~External(p) => p.accepted = 0

GoodInv == GoodState(protocol) /\ reply \in Ack

USE IdAssumption, LimitAssumption

-----------------------------------------------------------------------------
(* What each operator does to the fields *)

\* The members of the sets of values, so that the sets can stay folded below.
LEMMA Values ==
  /\ NoKey \in Keys /\ NoKey.sequence = 0
  /\ 0 \in Generations /\ 0 \in Sequences /\ Seed \in Generations
  /\ \A n \in Generations : n # MaxGeneration => n + 1 \in Generations
  /\ Phases = {"IDLE", "ARMED", "RUNNING", "TIMEOUT_HOLD"}
  BY DEF Keys, NoKey, Generations, Sequences, Phases

\* Everything but the counters and the clock is the same in q and p.
SameSession(q, p) ==
  /\ q.phase = p.phase /\ q.client = p.client /\ q.request = p.request
  /\ q.lease = p.lease /\ q.issued = p.issued /\ q.generation = p.generation
  /\ q.accepted = p.accepted /\ q.pending = p.pending /\ q.output = p.output

\* No owner, no session, no command.
Empty(q) ==
  /\ q.phase = "IDLE" /\ q.client = NoId /\ q.request = NoId
  /\ q.lease = 0 /\ q.generation = 0 /\ q.accepted = 0
  /\ q.pending = NoKey /\ q.output = NoKey

\* A new object has its type.
LEMMA FreshType == Fresh \in ProtocolState
  BY Values DEF Fresh, ProtocolState

LEMMA ClearFields ==
  ASSUME NEW p \in ProtocolState
  PROVE  LET q == Clear(p) IN
         /\ q \in ProtocolState /\ Empty(q)
         /\ q.issued = p.issued /\ q.rejects = p.rejects /\ q.statusSeq = p.statusSeq + 1
<1> DEFINE q == Clear(p)
<1>1. p.statusSeq + 1 \in Nat
  BY DEF ProtocolState
<1>2. q \in ProtocolState
  BY <1>1, FreshType DEF Clear, ProtocolState
<1>3. Empty(q)
  BY DEF Empty, Clear, Fresh
<1> QED
  BY <1>2, <1>3 DEF Clear, Fresh

LEMMA HoldFields ==
  ASSUME NEW p \in ProtocolState
  PROVE  LET q == Hold(p) IN
         /\ q \in ProtocolState
         /\ q.phase = "TIMEOUT_HOLD" /\ q.pending = NoKey /\ q.output = NoKey
         /\ q.client = p.client /\ q.request = p.request /\ q.lease = p.lease
         /\ q.generation = p.generation /\ q.issued = p.issued
         /\ q.accepted = p.accepted /\ q.rejects = p.rejects
         /\ q.statusSeq = p.statusSeq + 1
<1>1. p.statusSeq + 1 \in Nat
  BY DEF ProtocolState
<1>2. Hold(p) \in ProtocolState
  BY <1>1, Values DEF Hold, ProtocolState
<1> QED
  BY <1>2 DEF Hold, ProtocolState

LEMMA PreparedFields ==
  ASSUME NEW w \in ProtocolState, NEW r \in Request, CanIssue(w)
  PROVE  LET q == Prepared(w, r) IN
         /\ q \in ProtocolState
         /\ q.phase = "ARMED" /\ q.client = r.client /\ q.request = r.request
         /\ q.lease = w.issued + 1 /\ q.issued = w.issued + 1
         /\ q.generation = w.generation /\ q.accepted = w.accepted
         /\ q.pending = w.pending /\ q.output = w.output
         /\ q.rejects = w.rejects /\ q.statusSeq = w.statusSeq + 1 /\ q.age = 0
<1>1. /\ w.statusSeq + 1 \in Nat /\ w.issued \in Generations
      /\ r.client \in Clients /\ r.request \in RequestIds
  BY DEF ProtocolState, Request
<1>2. w.issued + 1 \in Generations
  BY <1>1, Values DEF CanIssue
<1>3. Prepared(w, r) \in ProtocolState
  BY <1>1, <1>2, Values DEF Prepared, ProtocolState
<1> QED
  BY <1>3 DEF Prepared, ProtocolState

LEMMA CommittedFields ==
  ASSUME NEW w \in ProtocolState, CanIssue(w)
  PROVE  LET q == Committed(w) IN
         /\ q \in ProtocolState
         /\ q.phase = "RUNNING" /\ q.generation = w.issued + 1 /\ q.issued = w.issued + 1
         /\ q.client = w.client /\ q.request = w.request /\ q.lease = w.lease
         /\ q.accepted = w.accepted /\ q.pending = w.pending /\ q.output = w.output
         /\ q.rejects = w.rejects /\ q.statusSeq = w.statusSeq + 1 /\ q.age = 0
<1>1. w.statusSeq + 1 \in Nat /\ w.issued \in Generations
  BY DEF ProtocolState
<1>2. w.issued + 1 \in Generations
  BY <1>1, Values DEF CanIssue
<1>3. Committed(w) \in ProtocolState
  BY <1>1, <1>2, Values DEF Committed, ProtocolState
<1> QED
  BY <1>3 DEF Committed, ProtocolState

LEMMA AdmittedFields ==
  ASSUME NEW w \in ProtocolState, NEW cmd \in Command
  PROVE  LET q == Admitted(w, cmd) IN
         /\ q \in ProtocolState
         /\ q.phase = "RUNNING" /\ q.pending = cmd.key /\ q.accepted = cmd.key.sequence
         /\ q.client = w.client /\ q.request = w.request /\ q.lease = w.lease
         /\ q.generation = w.generation /\ q.issued = w.issued /\ q.output = w.output
         /\ q.rejects = w.rejects /\ q.statusSeq = w.statusSeq + 1 /\ q.age = 0
<1>1. /\ w.statusSeq + 1 \in Nat /\ w.overwritten + 1 \in Nat
      /\ cmd.key \in Keys /\ cmd.key.sequence \in Sequences
  BY DEF ProtocolState, Command, Keys
<1>2. Admitted(w, cmd) \in ProtocolState
  BY <1>1, Values DEF Admitted, ProtocolState
<1> QED
  BY <1>2 DEF Admitted, ProtocolState

LEMMA RejectedFields ==
  ASSUME NEW w \in ProtocolState
  PROVE  LET q == Rejected(w) IN
         /\ q \in ProtocolState /\ SameSession(q, w) /\ q.age = w.age
         /\ q.rejects = w.rejects + 1 /\ q.statusSeq = w.statusSeq + 1
<1>1. w.statusSeq + 1 \in Nat /\ w.rejects + 1 \in Nat
  BY DEF ProtocolState
<1>2. Rejected(w) \in ProtocolState
  BY <1>1 DEF Rejected, ProtocolState
<1> QED
  BY <1>2 DEF Rejected, SameSession, ProtocolState

LEMMA AppliedFields ==
  ASSUME NEW w \in ProtocolState
  PROVE  LET q == Applied(w) IN
         /\ q \in ProtocolState
         /\ q.phase = w.phase /\ q.client = w.client /\ q.request = w.request
         /\ q.lease = w.lease /\ q.issued = w.issued /\ q.generation = w.generation
         /\ q.accepted = w.accepted /\ q.pending = NoKey /\ q.output = w.pending
         /\ q.rejects = w.rejects /\ q.statusSeq = w.statusSeq /\ q.age = w.age
<1>1. Applied(w) \in ProtocolState
  BY Values DEF Applied, ProtocolState
<1> QED
  BY <1>1 DEF Applied, ProtocolState

\* The clock runs only where the watchdog looks, so it changes nothing else.
LEMMA AgedFields ==
  ASSUME NEW p \in ProtocolState
  PROVE  LET q == [p EXCEPT !.age = @ + 1] IN
         /\ q \in ProtocolState /\ SameSession(q, p) /\ q.age = p.age + 1
         /\ q.rejects = p.rejects /\ q.statusSeq = p.statusSeq
<1>1. p.age + 1 \in Nat
  BY DEF ProtocolState
<1>2. [p EXCEPT !.age = @ + 1] \in ProtocolState
  BY <1>1 DEF ProtocolState
<1> QED
  BY <1>2 DEF SameSession, ProtocolState

-----------------------------------------------------------------------------
(* Each operator keeps GoodState *)

LEMMA EmptyGood ==
  ASSUME NEW q \in ProtocolState, Empty(q)
  PROVE  GoodState(q)
<1>1. OwnershipConsistent(q)
  BY DEF Empty, OwnershipConsistent, External, ProtocolState, Generations
<1> QED
  BY <1>1 DEF Empty, GoodState, PendingIsLatest, OutputIsCurrent

LEMMA SameGood ==
  ASSUME NEW q \in ProtocolState, NEW p, GoodState(p), SameSession(q, p)
  PROVE  GoodState(q)
  BY DEF SameSession, GoodState, OwnershipConsistent, PendingIsLatest, OutputIsCurrent, External

\* A new object is good.
LEMMA FreshGood == GoodState(Fresh)
<1>1. Empty(Fresh)
  BY DEF Empty, Fresh
<1> QED
  BY <1>1, FreshType, EmptyGood

\* The watchdog leaves the object alone, clears an ARMED one or holds a RUNNING one.
LEMMA WatchdogCases ==
  ASSUME NEW p, GoodState(p)
  PROVE  LET w == Watchdog(p) IN
         /\ GoodState(w)
         /\ \/ w = p
            \/ w = Clear(p) /\ p.phase = "ARMED" /\ PrepareExpired(p)
            \/ w = Hold(p) /\ p.phase = "RUNNING" /\ CommandsExpired(p)
<1>1. p \in ProtocolState
  BY DEF GoodState
<1>2. GoodState(Clear(p))
  BY <1>1, ClearFields, EmptyGood
<1>3. ASSUME p.phase = "RUNNING" PROVE GoodState(Hold(p))
  BY <1>1, <1>3, HoldFields
  DEF GoodState, OwnershipConsistent, PendingIsLatest, OutputIsCurrent, External
<1> QED
  BY <1>2, <1>3 DEF Watchdog, CommandsExpired, PrepareExpired

\* PREPARE finds a robot without session or commands, and numbers the lease.
LEMMA PreparedGood ==
  ASSUME NEW w, GoodState(w), NEW r \in Request, Prepares(w, r)
  PROVE  GoodState(Prepared(w, r)) /\ Empty(w)
<1> DEFINE q == Prepared(w, r)
<1>1. w \in ProtocolState /\ CanIssue(w)
  BY DEF GoodState, Prepares
<1>2. Empty(w)
  BY DEF GoodState, Prepares, Idle, OwnershipConsistent, PendingIsLatest,
         OutputIsCurrent, External, Empty
<1>3. w.issued + 1 # 0 /\ 0 <= w.issued + 1 /\ w.issued + 1 <= w.issued + 1
  BY <1>1 DEF ProtocolState, Generations
<1>4. r.client # NoId /\ r.request # NoId
  BY DEF Request
<1>5. OwnershipConsistent(q)
  BY <1>1, <1>2, <1>3, <1>4, PreparedFields DEF Empty, OwnershipConsistent, External
<1> QED
  BY <1>1, <1>2, <1>5, PreparedFields DEF Empty, GoodState, PendingIsLatest, OutputIsCurrent

\* COMMIT starts a session with a number larger than its lease's.
LEMMA CommittedGood ==
  ASSUME NEW w, GoodState(w), w.phase = "ARMED", CanIssue(w)
  PROVE  /\ GoodState(Committed(w))
         /\ w.pending = NoKey /\ w.output = NoKey /\ w.accepted = 0
<1> DEFINE q == Committed(w)
<1>1. w \in ProtocolState
  BY DEF GoodState
<1>2. w.pending = NoKey /\ w.output = NoKey /\ w.accepted = 0
  BY DEF GoodState, PendingIsLatest, OutputIsCurrent, External
<1>3. /\ w.issued + 1 # 0 /\ w.issued + 1 <= w.issued + 1
      /\ w.lease <= w.issued => w.lease < w.issued + 1 /\ w.lease <= w.issued + 1
  BY <1>1 DEF ProtocolState, Generations
<1>4. OwnershipConsistent(q)
  BY <1>1, <1>3, CommittedFields DEF GoodState, OwnershipConsistent, External
<1> QED
  BY <1>1, <1>2, <1>4, CommittedFields DEF GoodState, PendingIsLatest, OutputIsCurrent, External

\* RequestControl, on the state the watchdog left.
LEMMA AfterRequestGood ==
  ASSUME NEW w, GoodState(w), NEW r \in Request
  PROVE  GoodState(AfterRequest(w, r))
<1>1. CASE Prepares(w, r)
  BY <1>1, PreparedGood DEF AfterRequest, Prepares, Commits, Cancels
<1>2. CASE Commits(w, r)
  <2>1. w.phase = "ARMED" /\ CanIssue(w)
    BY <1>2 DEF Commits
  <2>2. ~Prepares(w, r) /\ ~Cancels(w, r)
    BY <1>2 DEF Prepares, Commits, Cancels
  <2> QED
    BY <1>2, <2>1, <2>2, CommittedGood DEF AfterRequest
<1>3. CASE Cancels(w, r)
  <2>1. ~Prepares(w, r) /\ ~Commits(w, r)
    BY <1>3 DEF Prepares, Commits, Cancels
  <2> QED
    BY <1>3, <2>1, ClearFields, EmptyGood DEF AfterRequest, GoodState
<1> QED
  BY <1>1, <1>2, <1>3 DEF AfterRequest

\* An admitted command becomes the pending one and the watermark.
LEMMA AdmittedGood ==
  ASSUME NEW w, GoodState(w), NEW cmd \in Command, Admits(w, cmd)
  PROVE  /\ GoodState(Admitted(w, cmd))
         /\ cmd.key # NoKey
<1> DEFINE q == Admitted(w, cmd)
<1>1. /\ w \in ProtocolState
      /\ cmd.key = [session |-> cmd.key.session, sequence |-> cmd.key.sequence]
      /\ cmd.key.sequence \in Nat /\ w.accepted \in Nat
  BY DEF GoodState, ProtocolState, Command, Keys, Sequences
<1>2. External(w) /\ cmd.key.session = w.generation /\ cmd.key.sequence > w.accepted
  BY DEF Admits
<1>3. OwnershipConsistent(q)
  BY <1>1, <1>2, AdmittedFields DEF GoodState, OwnershipConsistent, External
<1>4. PendingIsLatest(q)
  BY <1>1, <1>2, AdmittedFields DEF PendingIsLatest
<1>5. OutputIsCurrent(q)
  <2>1. \A n \in 1 .. w.accepted : n \in 1 .. cmd.key.sequence /\ n < cmd.key.sequence
    BY <1>1, <1>2
  <2> QED
    BY <1>1, <2>1, AdmittedFields DEF GoodState, OutputIsCurrent
<1>6. cmd.key # NoKey
  BY <1>1, <1>2, Values
<1> QED
  BY <1>1, <1>3, <1>4, <1>5, <1>6, AdmittedFields DEF GoodState, External

LEMMA AfterCommandGood ==
  ASSUME NEW w, GoodState(w), NEW cmd \in Command
  PROVE  GoodState(AfterCommand(w, cmd))
<1>1. w \in ProtocolState
  BY DEF GoodState
<1>2. GoodState(Rejected(w))
  BY <1>1, RejectedFields, SameGood
<1> QED
  BY <1>2, AdmittedGood DEF AfterCommand

\* Applying the pending command makes it the evidence.
LEMMA AppliedGood ==
  ASSUME NEW w, GoodState(w), Applies(w)
  PROVE  /\ GoodState(Applied(w))
         /\ w.pending.sequence = w.accepted
<1> DEFINE q == Applied(w)
<1>1. w \in ProtocolState
  BY DEF GoodState
<1>2. /\ w.phase = "RUNNING" /\ w.accepted > 0
      /\ w.pending = [session |-> w.generation, sequence |-> w.accepted]
  BY DEF Applies, GoodState, PendingIsLatest
<1>3. w.accepted \in 1 .. w.accepted
  <2>1. w.accepted \in Nat
    BY <1>1 DEF ProtocolState, Sequences
  <2> QED
    BY <2>1, <1>2
<1>4. OutputIsCurrent(q)
  BY <1>1, <1>2, <1>3, AppliedFields DEF OutputIsCurrent
<1>5. OwnershipConsistent(q)
  BY <1>1, AppliedFields DEF GoodState, OwnershipConsistent, External
<1> QED
  BY <1>1, <1>2, <1>4, <1>5, AppliedFields DEF GoodState, PendingIsLatest, External

LEMMA AfterTickGood ==
  ASSUME NEW w, GoodState(w)
  PROVE  GoodState(AfterTick(w))
  BY AppliedGood DEF AfterTick

\* An ACK has its type.
LEMMA ReplyType ==
  ASSUME NEW w, GoodState(w), NEW r \in Request
  PROVE  ReplyTo(w, r) \in Ack
<1>1. w.lease \in Generations /\ AfterRequest(w, r).lease \in Generations
  BY AfterRequestGood DEF GoodState, ProtocolState
<1>2. (IF ~AcceptsRequest(w, r) THEN 0
       ELSE IF Cancels(w, r) THEN w.lease
       ELSE AfterRequest(w, r).lease) \in Generations
  BY <1>1, Values
<1>3. AcceptsRequest(w, r) \in BOOLEAN
  BY DEF AcceptsRequest, Prepares, Commits, Cancels, Repeats
<1> QED
  BY <1>2, <1>3 DEF ReplyTo, Ack, Request

-----------------------------------------------------------------------------
(* Invariance *)

LEMMA InitGood == Init => GoodInv
<1>1. NoReply \in Ack
  BY Values DEF NoReply, Ack
<1> QED
  BY <1>1, FreshGood DEF Init, GoodInv

LEMMA StepGood == GoodInv /\ [Next]_vars => GoodInv'
<1> SUFFICES ASSUME GoodInv, [Next]_vars
             PROVE  GoodInv'
  OBVIOUS
<1> DEFINE w == Watchdog(protocol)
<1>1. GoodState(protocol) /\ GoodState(w) /\ reply \in Ack
  BY WatchdogCases DEF GoodInv
<1>2. ASSUME NEW r \in Request, RequestControl(r)
      PROVE  GoodInv'
  BY <1>1, <1>2, AfterRequestGood, ReplyType DEF RequestControl, GoodInv
<1>3. ASSUME NEW cmd \in Command, Accept(cmd)
      PROVE  GoodInv'
  BY <1>1, <1>3, AfterCommandGood DEF Accept, GoodInv
<1>4. CASE Tick
  BY <1>1, <1>4, AfterTickGood DEF Tick, GoodInv
<1>5. CASE CheckWatchdog
  BY <1>1, <1>5 DEF CheckWatchdog, GoodInv
<1>6. CASE TimePasses
  <2>1. protocol \in ProtocolState
    BY <1>1 DEF GoodState
  <2> QED
    BY <1>1, <1>6, <2>1, AgedFields, SameGood DEF TimePasses, GoodInv
<1>7. CASE UNCHANGED vars
  BY <1>7 DEF vars, GoodInv
<1> QED
  BY <1>2, <1>3, <1>4, <1>5, <1>6, <1>7 DEF Next

LEMMA AlwaysGood == Spec => []GoodInv
  BY InitGood, StepGood, PTL DEF Spec

\* Every behaviour of the class keeps the object and its replies well typed
\* (protocol.h:30-75).
THEOREM TypeCorrect == Spec => []TypeOK
<1>1. GoodInv => TypeOK
  BY DEF GoodInv, GoodState, TypeOK
<1> QED
  BY <1>1, AlwaysGood, PTL

\* The identity fields always agree with the phase (protocol.cpp:199-274).
THEOREM OwnershipHolds == Spec => []Ownership
<1>1. GoodInv => Ownership
  BY DEF GoodInv, GoodState, Ownership
<1> QED
  BY <1>1, AlwaysGood, PTL

\* The pending command always belongs to the RUNNING session (protocol.cpp:205,
\* 220, 299-302).
THEOREM PendingHolds == Spec => []PendingBelongsToSession
<1>1. GoodInv => PendingBelongsToSession
  BY DEF GoodInv, GoodState, PendingBelongsToSession
<1> QED
  BY <1>1, AlwaysGood, PTL

\* A nonzero applied key of the mock is always evidence of a command of the RUNNING
\* session: its own rule (protocol.cpp:209-213, 309-318), not that of README.md:86-91.
THEOREM EvidenceHolds == Spec => []AppliedEvidence
<1>1. GoodInv => AppliedEvidence
  BY DEF GoodInv, GoodState, AppliedEvidence
<1> QED
  BY <1>1, AlwaysGood, PTL

-----------------------------------------------------------------------------
(* The class implements ExternalLease *)

\* A call that changes nothing but counters beyond what the watchdog did is a
\* lapse, a withheld stream or no step of the lease.
LEMMA WatchdogRefines ==
  ASSUME GoodState(protocol), SameSession(protocol', Watchdog(protocol))
  PROVE  [Promise!Next]_(Promise!vars)
<1> DEFINE w == Watchdog(protocol)
<1>1. protocol \in ProtocolState
  BY DEF GoodState
<1>2. CASE w = protocol
  BY <1>2 DEF SameSession, Promise!vars
<1>3. CASE w = Clear(protocol) /\ protocol.phase = "ARMED"
  <2>1. Empty(protocol') /\ protocol'.issued = protocol.issued
    BY <1>1, <1>3, ClearFields DEF SameSession, Empty
  <2>2. Promise!Free
    BY <1>3, <2>1, Values DEF Empty, Promise!Free, Promise!Empty, Promise!Nobody
  <2> QED
    BY <2>2 DEF Promise!Next
<1>4. CASE w = Hold(protocol) /\ protocol.phase = "RUNNING"
  <2>1. Promise!Withhold
    BY <1>1, <1>4, HoldFields, Values DEF SameSession, Promise!Withhold
  <2> QED
    BY <2>1 DEF Promise!Next
<1> QED
  BY <1>2, <1>3, <1>4, WatchdogCases

LEMMA RequestRefines ==
  ASSUME GoodState(protocol), NEW r \in Request,
         protocol' = AfterRequest(Watchdog(protocol), r)
  PROVE  [Promise!Next]_(Promise!vars)
<1> DEFINE w == Watchdog(protocol)
<1>1. /\ protocol \in ProtocolState /\ GoodState(w) /\ w \in ProtocolState
      /\ protocol' = AfterRequest(w, r)
  BY WatchdogCases DEF GoodState
<1>2. CASE Prepares(w, r)
  <2>1. protocol' = Prepared(w, r) /\ Empty(w) /\ CanIssue(w)
    BY <1>1, <1>2, PreparedGood DEF AfterRequest, Prepares, Commits, Cancels
  <2>2. protocol.phase \in {"IDLE", "ARMED"} /\ w.issued = protocol.issued
    <3>1. w # Hold(protocol)
      BY <1>1, <2>1, HoldFields DEF Empty
    <3> QED
      BY <1>1, <2>1, <3>1, WatchdogCases, ClearFields DEF Empty
  <2>3. /\ protocol'.phase = "ARMED"
        /\ protocol'.client = r.client /\ protocol'.request = r.request
        /\ protocol'.lease = protocol.issued + 1 /\ protocol'.issued = protocol.issued + 1
        /\ protocol'.generation = 0 /\ protocol'.accepted = 0
        /\ protocol'.pending = NoKey /\ protocol'.output = NoKey
    BY <1>1, <2>1, <2>2, PreparedFields DEF Empty
  <2>4. /\ r.client \in Clients /\ r.request \in RequestIds
        /\ protocol.issued + 1 > protocol.issued
    BY <1>1 DEF Request, ProtocolState, Generations
  <2>5. Promise!Offer
    BY <2>2, <2>3, <2>4, Values DEF Promise!Offer, Promise!Empty
  <2> QED
    BY <2>5 DEF Promise!Next
<1>3. CASE Commits(w, r)
  <2>1. /\ protocol' = Committed(w) /\ w.phase = "ARMED" /\ CanIssue(w)
    BY <1>1, <1>3 DEF AfterRequest, Prepares, Commits, Cancels
  <2>2. w = protocol
    BY <1>1, <2>1, WatchdogCases, ClearFields, HoldFields DEF Empty
  <2>3. protocol.pending = NoKey /\ protocol.output = NoKey /\ protocol.accepted = 0
    BY <1>1, <2>1, <2>2, CommittedGood
  <2>4. protocol.issued + 1 > protocol.issued
    BY <1>1 DEF ProtocolState, Generations
  <2>5. Promise!Grant
    BY <1>1, <2>1, <2>2, <2>3, <2>4, CommittedFields, Values DEF Promise!Grant
  <2> QED
    BY <2>5 DEF Promise!Next
<1>4. CASE Cancels(w, r)
  <2>1. protocol' = Clear(w) /\ w.client # NoId
    BY <1>1, <1>4 DEF AfterRequest, Prepares, Commits, Cancels, Idle
  <2>2. w # Clear(protocol)
    BY <1>1, <2>1, ClearFields DEF Empty
  <2>3. protocol.phase # "IDLE" /\ w.issued = protocol.issued
    <3>1. w.phase # "IDLE"
      BY <1>1, <2>1 DEF GoodState, OwnershipConsistent
    <3> QED
      BY <1>1, <2>2, <3>1, WatchdogCases, HoldFields
  <2>4. Empty(protocol') /\ protocol'.issued = protocol.issued
    BY <1>1, <2>1, <2>3, ClearFields
  <2>5. Promise!Free
    BY <1>1, <2>3, <2>4, Values
    DEF Empty, Promise!Free, Promise!Empty, Promise!Nobody, ProtocolState
  <2> QED
    BY <2>5 DEF Promise!Next
<1>5. CASE ~(Prepares(w, r) \/ Commits(w, r) \/ Cancels(w, r))
  <2>1. SameSession(protocol', w)
    BY <1>1, <1>5 DEF AfterRequest, SameSession
  <2> QED
    BY <2>1, WatchdogRefines
<1> QED
  BY <1>2, <1>3, <1>4, <1>5

LEMMA CommandRefines ==
  ASSUME GoodState(protocol), NEW cmd \in Command,
         protocol' = AfterCommand(Watchdog(protocol), cmd)
  PROVE  [Promise!Next]_(Promise!vars)
<1> DEFINE w == Watchdog(protocol)
<1>1. /\ protocol \in ProtocolState /\ GoodState(w) /\ w \in ProtocolState
      /\ protocol' = AfterCommand(w, cmd)
  BY WatchdogCases DEF GoodState
<1>2. CASE Admits(w, cmd)
  <2>1. protocol' = Admitted(w, cmd) /\ External(w) /\ cmd.key.sequence > w.accepted
    BY <1>1, <1>2 DEF AfterCommand, Admits
  <2>2. protocol'.pending # NoKey
    BY <1>1, <1>2, <2>1, AdmittedFields, AdmittedGood
  <2>3. \/ w = protocol
        \/ protocol.phase = "RUNNING" /\ w = Hold(protocol)
    BY <1>1, <2>1, WatchdogCases, ClearFields DEF Empty, External
  <2>4. External(protocol)
    BY <2>1, <2>3 DEF External
  <2>5. /\ w.client = protocol.client /\ w.request = protocol.request
        /\ w.lease = protocol.lease /\ w.generation = protocol.generation
        /\ w.issued = protocol.issued /\ w.accepted = protocol.accepted
        /\ w.output \in {protocol.output, NoKey}
    BY <1>1, <2>3, HoldFields
  <2>6. /\ protocol'.phase = "RUNNING" /\ protocol'.accepted > protocol.accepted
        /\ protocol'.client = protocol.client /\ protocol'.request = protocol.request
        /\ protocol'.lease = protocol.lease /\ protocol'.generation = protocol.generation
        /\ protocol'.issued = protocol.issued
        /\ protocol'.output \in {protocol.output, NoKey}
    BY <1>1, <2>1, <2>5, AdmittedFields
  <2>7. Promise!Admit
    BY <2>2, <2>4, <2>6, Values DEF Promise!Admit, External
  <2> QED
    BY <2>7 DEF Promise!Next
<1>3. CASE ~Admits(w, cmd)
  <2>1. SameSession(protocol', w)
    BY <1>1, <1>3, RejectedFields DEF AfterCommand
  <2> QED
    BY <2>1, WatchdogRefines
<1> QED
  BY <1>2, <1>3

LEMMA TickRefines ==
  ASSUME GoodState(protocol), protocol' = AfterTick(Watchdog(protocol))
  PROVE  [Promise!Next]_(Promise!vars)
<1> DEFINE w == Watchdog(protocol)
<1>1. /\ protocol \in ProtocolState /\ GoodState(w) /\ w \in ProtocolState
      /\ protocol' = AfterTick(w)
  BY WatchdogCases DEF GoodState
<1>2. CASE Applies(w)
  <2>1. w = protocol
    BY <1>1, <1>2, WatchdogCases, ClearFields, HoldFields DEF Applies, Empty
  <2>2. protocol' = Applied(protocol) /\ protocol.pending.sequence = protocol.accepted
    BY <1>1, <1>2, <2>1, AppliedGood DEF AfterTick
  <2>3. Promise!Apply
    BY <1>1, <1>2, <2>1, <2>2, AppliedFields DEF Promise!Apply, Applies
  <2> QED
    BY <2>3 DEF Promise!Next
<1>3. CASE ~Applies(w)
  <2>1. SameSession(protocol', w)
    BY <1>1, <1>3 DEF AfterTick, SameSession
  <2> QED
    BY <2>1, WatchdogRefines
<1> QED
  BY <1>2, <1>3

\* The class implements the abstract lease: whatever requests, commands and clock
\* ticks arrive, an owner is alone, numbers are fresh, a running session ends by its
\* owner only and commands are applied in order, at most once (protocol.cpp:199-318).
THEOREM ImplementsLease == Spec => LeasePromise
<1>1. Init => Promise!Init
  BY Values DEF Init, Fresh, Promise!Init, Promise!Nobody
<1>2. GoodInv /\ [Next]_vars => [Promise!Next]_(Promise!vars)
  <2> SUFFICES ASSUME GoodInv, [Next]_vars
               PROVE  [Promise!Next]_(Promise!vars)
    OBVIOUS
  <2>1. GoodState(protocol) /\ protocol \in ProtocolState
    BY DEF GoodInv, GoodState
  <2>2. ASSUME NEW r \in Request, RequestControl(r)
        PROVE  [Promise!Next]_(Promise!vars)
    BY <2>1, <2>2, RequestRefines DEF RequestControl
  <2>3. ASSUME NEW cmd \in Command, Accept(cmd)
        PROVE  [Promise!Next]_(Promise!vars)
    BY <2>1, <2>3, CommandRefines DEF Accept
  <2>4. CASE Tick
    BY <2>1, <2>4, TickRefines DEF Tick
  <2>5. CASE CheckWatchdog
    BY <2>1, <2>5, WatchdogRefines DEF CheckWatchdog, SameSession
  <2>6. CASE TimePasses
    BY <2>1, <2>6, AgedFields DEF TimePasses, SameSession, Promise!vars
  <2>7. CASE UNCHANGED vars
    BY <2>7 DEF vars, Promise!vars
  <2> QED
    BY <2>2, <2>3, <2>4, <2>5, <2>6, <2>7 DEF Next
<1> QED
  BY <1>1, <1>2, AlwaysGood, PTL DEF Spec, LeasePromise, Promise!Spec

-----------------------------------------------------------------------------
(* status_seq versions the status *)

\* q is a later version of p: visibly the same, or with a larger status_seq; its
\* counters have not gone back.
Later(q, p) == /\ q.statusSeq \in Nat /\ p.statusSeq \in Nat
               /\ q.rejects \in Nat /\ p.rejects \in Nat
               /\ \/ Visible(q) = Visible(p) /\ q.statusSeq = p.statusSeq
                  \/ q.statusSeq > p.statusSeq
               /\ q.rejects >= p.rejects
              /\ q.issued \in Nat /\ p.issued \in Nat /\ q.issued >= p.issued

LEMMA LaterTransitive ==
  ASSUME NEW p, NEW q, NEW s, Later(q, p), Later(s, q)
  PROVE  Later(s, p)
  BY DEF Later

LEMMA Counters ==
  ASSUME NEW p \in ProtocolState
  PROVE  p.statusSeq \in Nat /\ p.rejects \in Nat /\ p.issued \in Nat
  BY DEF ProtocolState, Generations

LEMMA WatchdogLater ==
  ASSUME NEW p, GoodState(p)
  PROVE  Later(Watchdog(p), p)
<1>1. p \in ProtocolState
  BY DEF GoodState
<1>2. Later(p, p) /\ Later(Clear(p), p) /\ Later(Hold(p), p)
  BY <1>1, Counters, ClearFields, HoldFields DEF Later
<1> QED
  BY <1>2, WatchdogCases

LEMMA AfterRequestLater ==
  ASSUME NEW w, GoodState(w), NEW r \in Request
  PROVE  Later(AfterRequest(w, r), w)
<1>1. w \in ProtocolState
  BY DEF GoodState
<1>2. Later(w, w) /\ Later(Clear(w), w)
  BY <1>1, Counters, ClearFields DEF Later
<1>3. ASSUME CanIssue(w) PROVE Later(Prepared(w, r), w) /\ Later(Committed(w), w)
  <2>1. /\ w.statusSeq + 1 > w.statusSeq /\ w.statusSeq + 1 \in Nat
        /\ w.issued + 1 > w.issued /\ w.issued + 1 \in Nat
        /\ w.rejects \in Nat /\ w.issued \in Nat /\ w.statusSeq \in Nat
        /\ w.rejects >= w.rejects
    BY <1>1, Counters
  <2>2. Later(Prepared(w, r), w)
    BY <1>1, <1>3, <2>1, PreparedFields DEF Later
  <2>3. Later(Committed(w), w)
    BY <1>1, <1>3, <2>1, CommittedFields DEF Later
  <2> QED
    BY <2>2, <2>3
<1> QED
  BY <1>2, <1>3 DEF AfterRequest, Prepares, Commits, Cancels

LEMMA AfterCommandLater ==
  ASSUME NEW w, GoodState(w), NEW cmd \in Command
  PROVE  Later(AfterCommand(w, cmd), w)
<1>1. w \in ProtocolState
  BY DEF GoodState
<1>2. /\ w.statusSeq + 1 > w.statusSeq /\ w.statusSeq + 1 \in Nat
      /\ w.rejects + 1 >= w.rejects /\ w.rejects + 1 \in Nat
      /\ w.rejects >= w.rejects /\ w.issued >= w.issued
      /\ w.statusSeq \in Nat /\ w.rejects \in Nat /\ w.issued \in Nat
  BY <1>1, Counters
<1>3. Later(Admitted(w, cmd), w)
  BY <1>1, <1>2, AdmittedFields DEF Later
<1>4. Later(Rejected(w), w)
  BY <1>1, <1>2, RejectedFields DEF Later, SameSession
<1> QED
  BY <1>3, <1>4 DEF AfterCommand

LEMMA AfterTickLater ==
  ASSUME NEW w, GoodState(w)
  PROVE  Later(AfterTick(w), w)
<1>1. w \in ProtocolState
  BY DEF GoodState
<1>2. Visible(Applied(w)) = Visible(w)
  BY <1>1, AppliedFields DEF Visible
<1> QED
  BY <1>1, <1>2, Counters, AppliedFields DEF Later, AfterTick

\* A step makes a later version.
LEMMA StepLater == GoodInv /\ [Next]_vars => Later(protocol', protocol)
<1> SUFFICES ASSUME GoodInv, [Next]_vars
             PROVE  Later(protocol', protocol)
  OBVIOUS
<1> DEFINE w == Watchdog(protocol)
<1>1. /\ GoodState(protocol) /\ protocol \in ProtocolState
      /\ GoodState(w) /\ Later(w, protocol)
  BY WatchdogCases, WatchdogLater DEF GoodInv, GoodState
<1>2. ASSUME NEW r \in Request, RequestControl(r)
      PROVE  Later(protocol', protocol)
  BY <1>1, <1>2, AfterRequestLater, LaterTransitive DEF RequestControl
<1>3. ASSUME NEW cmd \in Command, Accept(cmd)
      PROVE  Later(protocol', protocol)
  BY <1>1, <1>3, AfterCommandLater, LaterTransitive DEF Accept
<1>4. CASE Tick
  BY <1>1, <1>4, AfterTickLater, LaterTransitive DEF Tick
<1>5. CASE CheckWatchdog
  BY <1>1, <1>5 DEF CheckWatchdog
<1>6. CASE TimePasses
  <2>1. Visible(protocol') = Visible(protocol)
    BY <1>1, <1>6, AgedFields DEF TimePasses, SameSession, Visible
  <2> QED
    BY <1>1, <1>6, <2>1, AgedFields, Counters DEF TimePasses, Later, SameSession
<1>7. CASE UNCHANGED vars
  BY <1>1, <1>7, Counters DEF vars, Later
<1> QED
  BY <1>2, <1>3, <1>4, <1>5, <1>6, <1>7 DEF Next

\* What a client can see changes only together with a larger status_seq, so a
\* client that keeps the status with the largest one misses no change
\* (protocol.cpp:200-203, 219, 248, 272, 296, 306).
THEOREM StatusSeqVersions == Spec => StatusSeqVersionsStatus
<1>1. GoodInv /\ [Next]_vars =>
        [/\ Visible(protocol') # Visible(protocol)
              => protocol'.statusSeq > protocol.statusSeq
         /\ protocol'.rejects >= protocol.rejects]_vars
  BY StepLater DEF Later
<1> QED
  BY <1>1, AlwaysGood, PTL DEF Spec, StatusSeqVersionsStatus

-----------------------------------------------------------------------------
(* Identities and the end of a session *)

\* What a step may do to the owner and its session, in terms of the object the
\* watchdog found: keep them, arm a lease with a new number in place of a free or
\* lapsed one, start the session of the armed lease with a new number, or free the
\* robot: by expiry of an ARMED lease or by the owner's CANCEL.
SameOwner == /\ protocol'.client = protocol.client /\ protocol'.request = protocol.request
             /\ protocol'.lease = protocol.lease
             /\ protocol'.generation = protocol.generation

Arms == /\ ~External(protocol) /\ protocol'.generation = 0
        /\ protocol'.lease > protocol.issued

Starts == /\ protocol.generation = 0
          /\ protocol'.lease = protocol.lease
          /\ protocol'.generation > protocol.issued

Frees == /\ protocol'.lease = 0 /\ protocol'.generation = 0
         /\ \/ protocol.phase = "ARMED"
            \/ OwnerCancels

OwnerStep == SameOwner \/ Arms \/ Starts \/ Frees

LEMMA WatchdogOwner ==
  ASSUME GoodState(protocol), SameSession(protocol', Watchdog(protocol))
  PROVE  SameOwner \/ Frees
<1>1. protocol \in ProtocolState
  BY DEF GoodState
<1> QED
  BY <1>1, WatchdogCases, ClearFields, HoldFields DEF SameSession, Empty, SameOwner, Frees

LEMMA RequestOwner ==
  ASSUME GoodState(protocol), NEW r \in Request, RequestControl(r)
  PROVE  OwnerStep
<1> DEFINE w == Watchdog(protocol)
<1>1. /\ protocol \in ProtocolState /\ GoodState(w) /\ w \in ProtocolState
      /\ protocol' = AfterRequest(w, r)
      /\ protocol.issued + 1 > protocol.issued
  BY WatchdogCases DEF GoodState, RequestControl, ProtocolState, Generations
<1>2. CASE Prepares(w, r)
  <2>1. protocol' = Prepared(w, r) /\ Empty(w) /\ CanIssue(w)
    BY <1>1, <1>2, PreparedGood DEF AfterRequest, Prepares, Commits, Cancels
  <2>2. ~External(protocol) /\ w.issued = protocol.issued
    <3>1. w # Hold(protocol)
      BY <1>1, <2>1, HoldFields DEF Empty
    <3> QED
      BY <1>1, <2>1, <3>1, WatchdogCases, ClearFields DEF Empty, External
  <2> QED
    BY <1>1, <2>1, <2>2, PreparedFields DEF Empty, OwnerStep, Arms
<1>3. CASE Commits(w, r)
  <2>1. /\ protocol' = Committed(w) /\ w.phase = "ARMED" /\ CanIssue(w)
    BY <1>1, <1>3 DEF AfterRequest, Prepares, Commits, Cancels
  <2>2. w = protocol /\ protocol.generation = 0
    BY <1>1, <2>1, WatchdogCases, ClearFields, HoldFields
    DEF Empty, GoodState, OwnershipConsistent, External
  <2> QED
    BY <1>1, <2>1, <2>2, CommittedFields DEF OwnerStep, Starts
<1>4. CASE Cancels(w, r)
  <2>1. protocol' = Clear(w) /\ w.client # NoId /\ Owns(w, r) /\ r.operation = "CANCEL"
    BY <1>1, <1>4 DEF AfterRequest, Prepares, Commits, Cancels, Idle
  <2>2. w # Clear(protocol)
    BY <1>1, <2>1, ClearFields DEF Empty
  <2>3. Owns(protocol, r)
    BY <1>1, <2>1, <2>2, WatchdogCases, HoldFields DEF Owns, SameRequest
  <2>4. protocol'.lease = 0 /\ protocol'.generation = 0
    BY <1>1, <2>1, ClearFields DEF Empty
  <2>5. OwnerCancels
    BY <2>1, <2>3 DEF OwnerCancels
  <2> QED
    BY <2>4, <2>5 DEF OwnerStep, Frees
<1>5. CASE ~(Prepares(w, r) \/ Commits(w, r) \/ Cancels(w, r))
  <2>1. SameSession(protocol', w)
    BY <1>1, <1>5 DEF AfterRequest, SameSession
  <2> QED
    BY <2>1, WatchdogOwner DEF OwnerStep
<1> QED
  BY <1>2, <1>3, <1>4, <1>5

LEMMA StepOwner == GoodInv /\ [Next]_vars => OwnerStep
<1> SUFFICES ASSUME GoodInv, [Next]_vars
             PROVE  OwnerStep
  OBVIOUS
<1> DEFINE w == Watchdog(protocol)
<1>1. /\ GoodState(protocol) /\ protocol \in ProtocolState /\ w \in ProtocolState
  BY WatchdogCases DEF GoodInv, GoodState
<1>2. ASSUME NEW r \in Request, RequestControl(r)
      PROVE  OwnerStep
  BY <1>1, <1>2, RequestOwner
<1>3. ASSUME NEW cmd \in Command, Accept(cmd)
      PROVE  OwnerStep
  <2>1. CASE Admits(w, cmd)
    <3>1. protocol' = Admitted(w, cmd) /\ External(w)
      BY <1>3, <2>1 DEF Accept, AfterCommand, Admits
    <3>2. w # Clear(protocol)
      BY <1>1, <3>1, ClearFields DEF Empty, External
    <3> QED
      BY <1>1, <3>1, <3>2, WatchdogCases, HoldFields, AdmittedFields
      DEF OwnerStep, SameOwner
  <2>2. CASE ~Admits(w, cmd)
    <3>1. SameSession(protocol', w)
      BY <1>1, <1>3, <2>2, RejectedFields DEF Accept, AfterCommand
    <3> QED
      BY <1>1, <3>1, WatchdogOwner DEF OwnerStep
  <2> QED
    BY <2>1, <2>2
<1>4. CASE Tick
  <2>1. CASE Applies(w)
    <3>1. w = protocol /\ protocol' = Applied(w)
      BY <1>1, <1>4, <2>1, WatchdogCases, ClearFields, HoldFields
      DEF Tick, AfterTick, Applies, Empty
    <3> QED
      BY <1>1, <3>1, AppliedFields DEF OwnerStep, SameOwner
  <2>2. CASE ~Applies(w)
    <3>1. SameSession(protocol', w)
      BY <1>4, <2>2 DEF Tick, AfterTick, SameSession
    <3> QED
      BY <1>1, <3>1, WatchdogOwner DEF OwnerStep
  <2> QED
    BY <2>1, <2>2
<1>5. CASE CheckWatchdog
  BY <1>1, <1>5, WatchdogOwner DEF CheckWatchdog, SameSession, OwnerStep
<1>6. CASE TimePasses
  BY <1>1, <1>6, AgedFields DEF TimePasses, SameSession, OwnerStep, SameOwner
<1>7. CASE UNCHANGED vars
  BY <1>7 DEF vars, OwnerStep, SameOwner
<1> QED
  BY <1>2, <1>3, <1>4, <1>5, <1>6, <1>7 DEF Next

\* An EXTERNAL session never ends by itself or by anybody but its owner
\* (protocol.cpp:214-223, 254-263).
THEOREM OnlyOwnerEnds == Spec => OnlyOwnerEndsSession
<1>1. GoodInv /\ [Next]_vars =>
        [External(protocol) /\ protocol'.generation # protocol.generation => OwnerCancels]_vars
  <2> SUFFICES ASSUME GoodInv, [Next]_vars,
                      External(protocol), protocol'.generation # protocol.generation
               PROVE  OwnerCancels
    OBVIOUS
  <2>1. protocol.generation # 0 /\ protocol.phase # "ARMED"
    BY DEF GoodInv, GoodState, OwnershipConsistent, External
  <2> QED
    BY <2>1, StepOwner DEF OwnerStep, SameOwner, Arms, Starts, Frees
<1> QED
  BY <1>1, AlwaysGood, PTL DEF Spec, OnlyOwnerEndsSession

\* No lease or session number is ever used twice (protocol.cpp:242-246, 267-269).
THEOREM IdentitiesFresh == Spec => FreshIdentities
<1>1. GoodInv /\ [Next]_vars =>
        [/\ protocol'.issued >= protocol.issued
         /\ protocol'.lease \notin {0, protocol.lease} => protocol'.lease > protocol.issued
         /\ protocol'.generation \notin {0, protocol.generation}
            => protocol'.generation > protocol.issued]_vars
  <2> SUFFICES ASSUME GoodInv, [Next]_vars
               PROVE  /\ protocol'.issued >= protocol.issued
                      /\ protocol'.lease \notin {0, protocol.lease}
                         => protocol'.lease > protocol.issued
                      /\ protocol'.generation \notin {0, protocol.generation}
                         => protocol'.generation > protocol.issued
    OBVIOUS
  <2>1. OwnerStep /\ protocol'.issued >= protocol.issued
    BY StepOwner, StepLater DEF Later
  <2>2. CASE SameOwner
    BY <2>1, <2>2 DEF SameOwner
  <2>3. CASE Arms
    BY <2>1, <2>3 DEF Arms
  <2>4. CASE Starts
    BY <2>1, <2>4 DEF Starts
  <2>5. CASE Frees
    BY <2>1, <2>5 DEF Frees
  <2> QED
    BY <2>1, <2>2, <2>3, <2>4, <2>5 DEF OwnerStep
<1> QED
  BY <1>1, AlwaysGood, PTL DEF Spec, FreshIdentities
-----------------------------------------------------------------------------
(* Answers *)

\* What an accepted ACK a says of the object q it leaves behind.
AckIsTrue(a, q) ==
  LET holds == q.client = a.client /\ q.request = a.request
  IN  /\ a.operation = "CANCEL" => ~holds
      /\ a.operation # "CANCEL" => holds /\ a.lease = q.lease /\ a.lease # 0
      /\ a.operation = "COMMIT" => External(q)

LEMMA ReplyIsTrue ==
  ASSUME NEW w, GoodState(w), NEW r \in Request, AcceptsRequest(w, r)
  PROVE  AckIsTrue(ReplyTo(w, r), AfterRequest(w, r))
<1> DEFINE a == ReplyTo(w, r)
           q == AfterRequest(w, r)
<1>1. /\ w \in ProtocolState /\ OwnershipConsistent(w)
      /\ r.client # NoId /\ r.request # NoId
      /\ a.client = r.client /\ a.request = r.request /\ a.operation = r.operation
  BY DEF GoodState, Request, ReplyTo
<1>2. CASE Prepares(w, r)
  <2>1. q = Prepared(w, r) /\ ~Cancels(w, r) /\ CanIssue(w) /\ r.operation = "PREPARE"
    BY <1>2 DEF AfterRequest, Prepares, Commits, Cancels
  <2>2. a.lease = q.lease /\ q.lease # 0
    BY <1>1, <2>1, PreparedFields DEF ReplyTo, ProtocolState, Generations
  <2> QED
    BY <1>1, <2>1, <2>2, PreparedFields DEF AckIsTrue
<1>3. CASE Commits(w, r)
  <2>1. /\ q = Committed(w) /\ ~Cancels(w, r) /\ CanIssue(w) /\ r.operation = "COMMIT"
        /\ w.client = r.client /\ w.request = r.request /\ w.phase = "ARMED"
    BY <1>3 DEF AfterRequest, Prepares, Commits, Cancels, Owns, SameRequest
  <2>2. a.lease = q.lease /\ q.lease # 0
    BY <1>1, <2>1, CommittedFields DEF ReplyTo, OwnershipConsistent
  <2> QED
    BY <1>1, <2>1, <2>2, CommittedFields DEF AckIsTrue, External
<1>4. CASE Cancels(w, r)
  <2>1. q = Clear(w) /\ r.operation = "CANCEL"
    BY <1>4 DEF AfterRequest, Prepares, Commits, Cancels
  <2> QED
    BY <1>1, <2>1, ClearFields DEF AckIsTrue, Empty
<1>5. CASE Repeats(w, r) /\ ~(Prepares(w, r) \/ Commits(w, r) \/ Cancels(w, r))
  <2>1. q = w /\ a.lease = w.lease
    BY <1>5 DEF AfterRequest, AcceptsRequest, ReplyTo
  <2>2. r.operation # "CANCEL" => w.client # NoId /\ SameRequest(w, r)
    BY <1>1, <1>5 DEF Repeats, Idle, Owns, SameRequest
  <2>3. r.operation = "CANCEL" => w.client = NoId
    BY <1>5 DEF Repeats, Idle
  <2>4. r.operation = "COMMIT" => External(w)
    BY <1>5 DEF Repeats
  <2> QED
    BY <1>1, <2>1, <2>2, <2>3, <2>4 DEF AckIsTrue, SameRequest, OwnershipConsistent
<1> QED
  BY <1>2, <1>3, <1>4, <1>5 DEF AcceptsRequest

\* A client that is told its request was accepted holds what it was told, or
\* nothing after a CANCEL, when the ACK leaves (protocol.cpp:193-198, 235-273).
THEOREM AcksAreTrue == Spec => AckMatchesState
<1>1. GoodInv /\ [Next]_vars => [reply'.accepted => AckIsTrue(reply', protocol')]_reply
  <2> SUFFICES ASSUME GoodInv, [Next]_vars, reply' # reply, reply'.accepted
               PROVE  AckIsTrue(reply', protocol')
    OBVIOUS
  <2>1. PICK r \in Request : RequestControl(r)
    BY DEF Next, vars, Accept, Tick, CheckWatchdog, TimePasses
  <2> DEFINE w == Watchdog(protocol)
  <2>2. GoodState(w)
    BY WatchdogCases DEF GoodInv
  <2>3. reply' = ReplyTo(w, r) /\ protocol' = AfterRequest(w, r)
    BY <2>1 DEF RequestControl
  <2>4. AcceptsRequest(w, r)
    BY <2>3 DEF ReplyTo
  <2> QED
    BY <2>2, <2>3, <2>4, ReplyIsTrue
<1>2. [reply'.accepted => AckIsTrue(reply', protocol')]_reply =>
        [reply'.accepted =>
           LET holds == /\ protocol'.client = reply'.client
                        /\ protocol'.request = reply'.request
           IN  /\ reply'.operation = "CANCEL" => ~holds
               /\ reply'.operation # "CANCEL" => /\ holds
                                                 /\ reply'.lease = protocol'.lease
                                                 /\ reply'.lease # 0
               /\ reply'.operation = "COMMIT" => External(protocol')]_reply
  BY DEF AckIsTrue
<1> QED
  BY <1>1, <1>2, AlwaysGood, PTL DEF Spec, AckMatchesState

-----------------------------------------------------------------------------
(* Deadlines *)

\* The deadline that runs in p has not been moved in q.
SameDeadline(q, p) ==
  /\ p.phase = "ARMED" /\ q.phase = "ARMED" /\ q.lease = p.lease
       => q.age >= p.age
  /\ p.phase = "RUNNING" /\ q.phase = "RUNNING" /\ q.generation = p.generation
       /\ q.accepted = p.accepted
       => q.age >= p.age

LEMMA Ages ==
  ASSUME NEW p \in ProtocolState
  PROVE  /\ p.age \in Nat /\ p.age >= p.age /\ p.age + 1 >= p.age
         /\ p.issued + 1 > p.issued
  BY DEF ProtocolState, Generations

\* The watchdog leaves a running deadline alone, or leaves its phase.
LEMMA WatchdogDeadline ==
  ASSUME NEW p, GoodState(p)
  PROVE  LET w == Watchdog(p) IN w = p \/ w.phase \in {"IDLE", "TIMEOUT_HOLD"}
<1>1. p \in ProtocolState
  BY DEF GoodState
<1> QED
  BY <1>1, WatchdogCases, ClearFields, HoldFields DEF Empty

LEMMA RequestDeadline ==
  ASSUME NEW p, GoodState(p), NEW r \in Request
  PROVE  SameDeadline(AfterRequest(Watchdog(p), r), p)
<1> DEFINE w == Watchdog(p)
           q == AfterRequest(w, r)
<1>1. /\ p \in ProtocolState /\ GoodState(w) /\ w \in ProtocolState
      /\ w = p \/ w.phase \in {"IDLE", "TIMEOUT_HOLD"}
  BY WatchdogCases, WatchdogDeadline DEF GoodState
<1>2. CASE Prepares(w, r)
  <2>1. q = Prepared(w, r) /\ CanIssue(w)
    BY <1>2 DEF AfterRequest, Prepares, Commits, Cancels
  <2>2. w.issued = p.issued
    BY <1>1, WatchdogCases, ClearFields, HoldFields
  <2>3. q.phase = "ARMED" /\ q.lease = p.issued + 1
    BY <1>1, <2>1, <2>2, PreparedFields
  <2>4. p.lease # p.issued + 1
    BY <1>1 DEF GoodState, OwnershipConsistent, ProtocolState, Generations
  <2> QED
    BY <2>3, <2>4 DEF SameDeadline
<1>3. CASE Commits(w, r)
  <2>1. q = Committed(w) /\ CanIssue(w) /\ w = p /\ p.phase = "ARMED"
    BY <1>1, <1>3 DEF AfterRequest, Prepares, Commits, Cancels
  <2> QED
    BY <1>1, <2>1, CommittedFields DEF SameDeadline
<1>4. CASE Cancels(w, r)
  <2>1. q = Clear(w)
    BY <1>4 DEF AfterRequest, Prepares, Commits, Cancels
  <2> QED
    BY <1>1, <2>1, ClearFields DEF SameDeadline, Empty
<1>5. CASE ~(Prepares(w, r) \/ Commits(w, r) \/ Cancels(w, r))
  <2>1. q = w
    BY <1>5 DEF AfterRequest
  <2> QED
    BY <1>1, <2>1, Ages DEF SameDeadline
<1> QED
  BY <1>2, <1>3, <1>4, <1>5

LEMMA CommandDeadline ==
  ASSUME NEW p, GoodState(p), NEW cmd \in Command
  PROVE  SameDeadline(AfterCommand(Watchdog(p), cmd), p)
<1> DEFINE w == Watchdog(p)
<1>1. /\ p \in ProtocolState /\ w \in ProtocolState
      /\ w = p \/ w.phase \in {"IDLE", "TIMEOUT_HOLD"}
  BY WatchdogCases, WatchdogDeadline DEF GoodState
<1>2. CASE Admits(w, cmd)
  <2>1. w.accepted = p.accepted \/ p.phase # "RUNNING"
    BY <1>1, WatchdogCases, HoldFields
  <2>2. cmd.key.sequence # w.accepted
    BY <1>1, <1>2 DEF Admits, Command, Keys, Sequences, ProtocolState
  <2>3. AfterCommand(w, cmd) = Admitted(w, cmd)
    BY <1>2 DEF AfterCommand
  <2> QED
    BY <1>1, <2>1, <2>2, <2>3, AdmittedFields DEF SameDeadline
<1>3. CASE ~Admits(w, cmd)
  <2>1. AfterCommand(w, cmd) = Rejected(w)
    BY <1>3 DEF AfterCommand
  <2> QED
    BY <1>1, <2>1, Ages, RejectedFields DEF SameDeadline, SameSession
<1> QED
  BY <1>2, <1>3

\* Only an admitted command moves the deadline of a session, and nothing that of
\* an ARMED lease (protocol.cpp:214-223, 249, 271, 303).
THEOREM DeadlinesHold == Spec => DeadlinesNotExtended
<1>1. GoodInv /\ [Next]_vars => SameDeadline(protocol', protocol)
  <2> SUFFICES ASSUME GoodInv, [Next]_vars
               PROVE  SameDeadline(protocol', protocol)
    OBVIOUS
  <2> DEFINE w == Watchdog(protocol)
  <2>1. /\ GoodState(protocol) /\ protocol \in ProtocolState /\ w \in ProtocolState
        /\ w = protocol \/ w.phase \in {"IDLE", "TIMEOUT_HOLD"}
    BY WatchdogCases, WatchdogDeadline DEF GoodInv, GoodState
  <2>2. ASSUME NEW r \in Request, RequestControl(r)
        PROVE  SameDeadline(protocol', protocol)
    BY <2>1, <2>2, RequestDeadline DEF RequestControl
  <2>3. ASSUME NEW cmd \in Command, Accept(cmd)
        PROVE  SameDeadline(protocol', protocol)
    BY <2>1, <2>3, CommandDeadline DEF Accept
  <2>4. CASE Tick
    <3>1. protocol' = w \/ protocol' = Applied(w)
      BY <2>4 DEF Tick, AfterTick
    <3> QED
      BY <2>1, <3>1, Ages, AppliedFields DEF SameDeadline
  <2>5. CASE CheckWatchdog
    BY <2>1, <2>5, Ages DEF CheckWatchdog, SameDeadline
  <2>6. CASE TimePasses
    BY <2>1, <2>6, Ages, AgedFields DEF TimePasses, SameDeadline
  <2>7. CASE UNCHANGED vars
    BY <2>1, <2>7, Ages DEF vars, SameDeadline
  <2> QED
    BY <2>2, <2>3, <2>4, <2>5, <2>6, <2>7 DEF Next
<1>2. SameDeadline(protocol', protocol) =>
        [/\ /\ protocol.phase = "ARMED" /\ protocol'.phase = "ARMED"
            /\ protocol'.lease = protocol.lease
            => protocol'.age >= protocol.age
         /\ /\ protocol.phase = "RUNNING" /\ protocol'.phase = "RUNNING"
            /\ protocol'.generation = protocol.generation
            /\ protocol'.accepted = protocol.accepted
            => protocol'.age >= protocol.age]_vars
  BY DEF SameDeadline
<1> QED
  BY <1>1, <1>2, AlwaysGood, PTL DEF Spec, DeadlinesNotExtended
=============================================================================
