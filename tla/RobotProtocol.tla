--------------------------- MODULE RobotProtocol ---------------------------
(***************************************************************************)
(* The robot end of the EXTERNAL control contract: class Protocol of       *)
(* tools/production_topic_mock/protocol.{h,cpp}.  A client leases the      *)
(* robot with PREPARE, starts a command session with COMMIT, feeds it with *)
(* numbered commands and leaves with CANCEL; a watchdog withdraws a lease  *)
(* that is never committed and holds a session whose commands stop.        *)
(*                                                                         *)
(* The object is one record, protocol, because mock.cpp copies the whole   *)
(* object, runs a request on the copy and keeps the copy only when its ACK *)
(* was published.  Every method first runs the watchdog, so the operators  *)
(* below take the state the watchdog leaves.                               *)
(*                                                                         *)
(* Abstracted: error codes and reasons (a reply is accepted or not), joint *)
(* values (a command is admissible or not), and the two time stamps, whose *)
(* age the watchdog compares with a timeout: age is the time since         *)
(* prepared_ns_ while ARMED and since last_valid_ns while RUNNING, and 0   *)
(* in the phases the watchdog does not look at.                            *)
(***************************************************************************)
EXTENDS Naturals

CONSTANTS
  Clients,          \* client identities
  RequestIds,       \* request identities, one per enter_external call
  NoId,             \* the empty string
  Seed,             \* first value of generation_, which numbers leases and sessions
  MaxGeneration,    \* the uint64 limit at which PREPARE and COMMIT are refused
  MaxSequence,      \* the uint64 limit of a command's sequence
  PrepareTimeout,   \* prepare_timeout_ns_, in clock ticks
  CommandTimeout,   \* command_timeout_ns_, in clock ticks
  RejectOperation   \* the scripted rejection, or NoOperation

NoOperation == "NONE"
Operations == {"PREPARE", "COMMIT", "CANCEL"}

ASSUME IdAssumption == NoId \notin Clients /\ NoId \notin RequestIds
ASSUME LimitAssumption ==
  /\ MaxGeneration \in Nat
  /\ Seed \in 1 .. MaxGeneration
  /\ MaxSequence \in Nat
  /\ PrepareTimeout \in Nat \ {0}
  /\ CommandTimeout \in Nat \ {0}
  /\ RejectOperation \in Operations \cup {NoOperation}

VARIABLES
  protocol,  \* the Protocol object
  reply      \* the last Ack returned by RequestControl

vars == <<protocol, reply>>

-----------------------------------------------------------------------------
(* Data *)

Phases == {"IDLE", "ARMED", "RUNNING", "TIMEOUT_HOLD"}
Generations == 0 .. MaxGeneration
Sequences == 0 .. MaxSequence

\* A command's (session, sequence) key.  Zero is "no key".
Keys == [session : Generations, sequence : Sequences]
NoKey == [session |-> 0, sequence |-> 0]

\* wellFormed: version 2, identities neither empty nor overlong, action EXTERNAL.
Request == [wellFormed : BOOLEAN,
            operation : Operations,
            client : Clients,
            request : RequestIds,
            lease : Generations]               \* "mock-lease-<n>", 0 the empty string

Command == [key : Keys, wellFormed : BOOLEAN]

Ack == [client : Clients \cup {NoId},          \* whose request is answered
        request : RequestIds \cup {NoId},
        operation : Operations \cup {NoOperation},
        accepted : BOOLEAN,
        lease : Generations]

NoReply == [client |-> NoId, request |-> NoId, operation |-> NoOperation,
            accepted |-> FALSE, lease |-> 0]

ProtocolState == [phase : Phases,
                  client : Clients \cup {NoId},
                  request : RequestIds \cup {NoId},
                  lease : Generations,
                  generation : Generations,    \* the session, 0 outside EXTERNAL
                  accepted : Sequences,        \* accepted_sequence
                  rejects : Nat,               \* reject_count
                  statusSeq : Nat,             \* status_seq
                  pending : Keys,              \* pending_, NoKey when !has_pending_
                  output : Keys,               \* the key in output_
                  issued : Generations,        \* generation_
                  overwritten : Nat,
                  age : Nat]

Fresh == [phase |-> "IDLE", client |-> NoId, request |-> NoId, lease |-> 0,
          generation |-> 0, accepted |-> 0, rejects |-> 0, statusSeq |-> 1,
          pending |-> NoKey, output |-> NoKey, issued |-> Seed,
          overwritten |-> 0, age |-> 0]

External(p) == p.phase \in {"RUNNING", "TIMEOUT_HOLD"}

-----------------------------------------------------------------------------
(* Clear and Watchdog *)

\* Faults the checks must notice (named Faulty...; nothing uses them): the lease,
\* the applied evidence or a counter survives or is lost with the session.
FaultyClearKeepsLease(p) == [Fresh EXCEPT !.statusSeq = p.statusSeq + 1, !.rejects = p.rejects,
                                          !.issued = p.issued, !.lease = p.lease]
FaultyClearKeepsOutput(p) == [Fresh EXCEPT !.statusSeq = p.statusSeq + 1, !.rejects = p.rejects,
                                           !.issued = p.issued, !.output = p.output]
FaultyClearForgetsStatusSeq(p) == [Fresh EXCEPT !.rejects = p.rejects, !.issued = p.issued]
FaultyClearForgetsIssued(p) == [Fresh EXCEPT !.statusSeq = p.statusSeq + 1,
                                             !.rejects = p.rejects]

\* Back to an empty Status; the counters outlive the session.
Clear(p) == [Fresh EXCEPT !.statusSeq = p.statusSeq + 1,
                          !.rejects = p.rejects,
                          !.issued = p.issued,
                          !.overwritten = p.overwritten]

FaultyHoldReleases(p) == Clear(p)
FaultyHoldKeepsPending(p) == [p EXCEPT !.phase = "TIMEOUT_HOLD", !.statusSeq = @ + 1,
                                       !.output = NoKey, !.age = 0]
Hold(p) == [p EXCEPT !.phase = "TIMEOUT_HOLD",
                     !.statusSeq = @ + 1,
                     !.pending = NoKey,
                     !.output = NoKey,
                     !.age = 0]

PrepareExpired(p) == p.phase = "ARMED" /\ p.age >= PrepareTimeout
CommandsExpired(p) == p.phase = "RUNNING" /\ p.age >= CommandTimeout

Watchdog(p) == IF PrepareExpired(p) THEN Clear(p)
               ELSE IF CommandsExpired(p) THEN Hold(p)
               ELSE p

-----------------------------------------------------------------------------
(* RequestControl, on the state w the watchdog left *)

Admissible(r) == r.wellFormed /\ r.operation # RejectOperation

Idle(w) == w.client = NoId
FaultyCanIssueAlways(w) == TRUE
CanIssue(w) == w.issued # MaxGeneration
SameRequest(w, r) == w.client = r.client /\ w.request = r.request
Owns(w, r) == SameRequest(w, r) /\ w.lease = r.lease

Prepares(w, r) == Admissible(r) /\ r.operation = "PREPARE" /\ Idle(w) /\ CanIssue(w)
Commits(w, r) == /\ Admissible(r) /\ r.operation = "COMMIT" /\ Owns(w, r)
                 /\ w.phase = "ARMED" /\ CanIssue(w)
FaultyCancelsAnyClient(w, r) == Admissible(r) /\ r.operation = "CANCEL" /\ ~Idle(w)
Cancels(w, r) == Admissible(r) /\ r.operation = "CANCEL" /\ ~Idle(w) /\ Owns(w, r)

FaultyRepeatsAnyRequest(w, r) == Admissible(r) /\ r.operation = "PREPARE" /\ ~Idle(w)

\* Accepted without a change of state: a repeated PREPARE or COMMIT, and a
\* CANCEL that finds the robot idle.
Repeats(w, r) ==
  /\ Admissible(r)
  /\ \/ r.operation = "PREPARE" /\ ~Idle(w) /\ SameRequest(w, r)
     \/ r.operation = "COMMIT" /\ Owns(w, r) /\ External(w)
     \/ r.operation = "CANCEL" /\ Idle(w)

Prepared(w, r) == [w EXCEPT !.client = r.client,
                            !.request = r.request,
                            !.lease = w.issued + 1,
                            !.issued = w.issued + 1,
                            !.phase = "ARMED",
                            !.statusSeq = @ + 1,
                            !.age = 0]

Committed(w) == [w EXCEPT !.generation = w.issued + 1,
                          !.issued = w.issued + 1,
                          !.phase = "RUNNING",
                          !.statusSeq = @ + 1,
                          !.age = 0]

FaultyAfterRequestRearms(w, r) ==
  CASE Prepares(w, r) -> Prepared(w, r)
    [] Commits(w, r) -> Committed(w)
    [] Cancels(w, r) -> Clear(w)
    [] Repeats(w, r) /\ w.phase = "ARMED" -> [w EXCEPT !.age = 0]
    [] OTHER -> w
FaultyAfterRequestRefreshes(w, r) ==
  CASE Prepares(w, r) -> Prepared(w, r)
    [] Commits(w, r) -> Committed(w)
    [] Cancels(w, r) -> Clear(w)
    [] Repeats(w, r) /\ w.phase = "RUNNING" -> [w EXCEPT !.age = 0]
    [] OTHER -> w
AfterRequest(w, r) == CASE Prepares(w, r) -> Prepared(w, r)
                        [] Commits(w, r) -> Committed(w)
                        [] Cancels(w, r) -> Clear(w)
                        [] OTHER -> w

AcceptsRequest(w, r) == Prepares(w, r) \/ Commits(w, r) \/ Cancels(w, r) \/ Repeats(w, r)

\* The ACK of an accepted CANCEL is built before Clear, every other one after.
ReplyTo(w, r) ==
  [client |-> r.client, request |-> r.request, operation |-> r.operation,
   accepted |-> AcceptsRequest(w, r),
   lease |-> IF ~AcceptsRequest(w, r) THEN 0
             ELSE IF Cancels(w, r) THEN w.lease
             ELSE AfterRequest(w, r).lease]

-----------------------------------------------------------------------------
(* Accept and Tick, on the state w the watchdog left *)

Admits(w, cmd) == /\ External(w)
                  /\ cmd.key.session = w.generation
                  /\ cmd.key.sequence > w.accepted
                  /\ cmd.wellFormed

Admitted(w, cmd) ==
  [w EXCEPT !.overwritten = IF w.pending # NoKey THEN @ + 1 ELSE @,
            !.pending = cmd.key,
            !.accepted = cmd.key.sequence,
            !.phase = "RUNNING",
            !.statusSeq = @ + 1,
            !.age = 0]

FaultyRejectedFeeds(w) == [w EXCEPT !.rejects = @ + 1, !.statusSeq = @ + 1, !.age = 0]
Rejected(w) == [w EXCEPT !.rejects = @ + 1, !.statusSeq = @ + 1]

AfterCommand(w, cmd) == IF Admits(w, cmd) THEN Admitted(w, cmd) ELSE Rejected(w)

Applies(w) == w.pending # NoKey /\ w.phase = "RUNNING"
FaultyAppliedTwice(w) == [w EXCEPT !.output = w.pending]
Applied(w) == [w EXCEPT !.output = w.pending, !.pending = NoKey]
AfterTick(w) == IF Applies(w) THEN Applied(w) ELSE w

-----------------------------------------------------------------------------
(* The calls of the class, from any caller in any order *)

Init == protocol = Fresh /\ reply = NoReply

RequestControl(r) == LET w == Watchdog(protocol) IN
  /\ protocol' = AfterRequest(w, r)
  /\ reply' = ReplyTo(w, r)

Accept(cmd) == /\ protocol' = AfterCommand(Watchdog(protocol), cmd)
               /\ UNCHANGED reply

Tick == /\ protocol' = AfterTick(Watchdog(protocol))
        /\ UNCHANGED reply

CheckWatchdog == /\ protocol' = Watchdog(protocol)
                 /\ UNCHANGED reply

\* The clock matters only up to the timeout of the phase.
TimePasses == /\ \/ protocol.phase = "ARMED" /\ protocol.age < PrepareTimeout
                 \/ protocol.phase = "RUNNING" /\ protocol.age < CommandTimeout
              /\ protocol' = [protocol EXCEPT !.age = @ + 1]
              /\ UNCHANGED reply

Next == \/ \E r \in Request : RequestControl(r)
        \/ \E cmd \in Command : Accept(cmd)
        \/ Tick
        \/ CheckWatchdog
        \/ TimePasses

\* mock.cpp's loop applies commands and publishes a status every period, so the
\* clock, the watchdog and the apply tick are never postponed for ever.
Fairness == WF_vars(Tick) /\ WF_vars(CheckWatchdog) /\ WF_vars(TimePasses)

Spec == Init /\ [][Next]_vars
FairSpec == Spec /\ Fairness

-----------------------------------------------------------------------------
(* The lease the object promises: see ExternalLease *)

Promise == INSTANCE ExternalLease WITH
  standing <- CASE protocol.phase = "IDLE" -> "free"
                [] protocol.phase = "ARMED" -> "offered"
                [] OTHER -> "granted",
  holder <- <<protocol.client, protocol.request>>,
  lease <- protocol.lease,
  session <- protocol.generation,
  used <- protocol.issued,
  watermark <- protocol.accepted,
  live <- protocol.pending # NoKey,
  evidence <- protocol.output.sequence

\* The class implements the abstract lease: every method call, with the watchdog
\* it runs first, is one step of ExternalLease or none.
LeasePromise == Promise!Spec

-----------------------------------------------------------------------------
(* Properties *)

\* The object and the last ACK have their types.
TypeOK == protocol \in ProtocolState /\ reply \in Ack

\* The identity fields agree with the phase: the robot has an owner (client,
\* request and lease) exactly while it is not IDLE, and a command session, of a
\* later number than the lease, exactly while it is EXTERNAL.  Clear, PREPARE and
\* COMMIT each write some of these fields only (protocol.cpp:199-208, 244-247,
\* 269-270).
OwnershipConsistent(p) ==
  /\ p.phase = "IDLE" <=> p.client = NoId
  /\ p.phase = "IDLE" <=> p.request = NoId
  /\ p.phase = "IDLE" <=> p.lease = 0
  /\ External(p) <=> p.generation # 0
  /\ External(p) => p.lease < p.generation
  /\ p.lease <= p.issued /\ p.generation <= p.issued

Ownership == OwnershipConsistent(protocol)

\* The command waiting for the apply tick is the last one admitted, in the
\* session that is RUNNING now: the watchdog, CANCEL and expiry drop it, so a new
\* session never applies what an older one left behind (protocol.cpp:205, 220,
\* 299-302).
PendingIsLatest(p) ==
  p.pending # NoKey => /\ p.phase = "RUNNING"
                       /\ p.accepted > 0
                       /\ p.pending = [session |-> p.generation, sequence |-> p.accepted]

PendingBelongsToSession == PendingIsLatest(protocol)

\* The mock's own rule for the applied key, "evidence of a current command"
\* (protocol.cpp:209-213): nonzero, it names an admitted command of the session that
\* is RUNNING now, older than the pending one; TIMEOUT_HOLD, CANCEL and expiry
\* invalidate it.  README.md:86-91 contradicts it for the robot that the mock stands for:
\* there the association is retained over pauses and send failures and until TRACKING
\* output was sent, and "not cleared by the action name".
OutputIsCurrent(p) ==
  p.output # NoKey => /\ p.phase = "RUNNING"
                      /\ p.output.session = p.generation
                      /\ p.output.sequence \in 1 .. p.accepted
                      /\ p.pending # NoKey => p.output.sequence < p.accepted

AppliedEvidence == OutputIsCurrent(protocol)

\* "no automatic running lease expiry" (protocol.cpp:250): an EXTERNAL session
\* ends only when its owner's CANCEL, with the current lease, is handled.  No
\* timeout, no other client and no stale request of the owner ends it.
OwnerCancels == \E r \in Request : /\ r.operation = "CANCEL"
                                    /\ Owns(protocol, r)
                                    /\ RequestControl(r)

OnlyOwnerEndsSession ==
  [][External(protocol) /\ protocol'.generation # protocol.generation => OwnerCancels]_vars

\* status_seq versions the published status: whatever a client can see of the
\* object changes only together with a larger status_seq, across Clear too, so
\* ordering statuses by it (controller.py:522) never hides a change; and the
\* reject counter clients watch never goes back.
Visible(p) == [phase |-> p.phase, client |-> p.client, lease |-> p.lease,
               generation |-> p.generation, accepted |-> p.accepted,
               rejects |-> p.rejects]

StatusSeqVersionsStatus ==
  [][/\ Visible(protocol') # Visible(protocol)
        => protocol'.statusSeq > protocol.statusSeq
     /\ protocol'.rejects >= protocol.rejects]_vars

\* A lease or session number is never used twice: each new one is larger than
\* every number issued before it, also when PREPARE replaces a lease that expired
\* in the same call, and no Clear takes the counter back.
FreshIdentities ==
  [][/\ protocol'.issued >= protocol.issued
     /\ protocol'.lease \notin {0, protocol.lease} => protocol'.lease > protocol.issued
     /\ protocol'.generation \notin {0, protocol.generation}
        => protocol'.generation > protocol.issued]_vars

\* An accepted ACK tells the truth when it leaves: PREPARE and COMMIT name the
\* lease the caller now holds, COMMIT only when the session is EXTERNAL, and after
\* an accepted CANCEL the caller's request owns nothing.
AckMatchesState ==
  [][reply'.accepted =>
       LET holds == /\ protocol'.client = reply'.client
                    /\ protocol'.request = reply'.request
       IN  /\ reply'.operation = "CANCEL" => ~holds
           /\ reply'.operation # "CANCEL" => /\ holds
                                             /\ reply'.lease = protocol'.lease
                                             /\ reply'.lease # 0
           /\ reply'.operation = "COMMIT" => External(protocol')]_reply

\* Nothing but an admitted command feeds the stream watchdog, and nothing at all
\* extends the deadline of an ARMED lease: rejected commands, repeated PREPAREs and
\* COMMITs and refused requests leave the time stamps alone.
DeadlinesNotExtended ==
  [][/\ /\ protocol.phase = "ARMED" /\ protocol'.phase = "ARMED"
        /\ protocol'.lease = protocol.lease
        => protocol'.age >= protocol.age
     /\ /\ protocol.phase = "RUNNING" /\ protocol'.phase = "RUNNING"
        /\ protocol'.generation = protocol.generation
        /\ protocol'.accepted = protocol.accepted
        => protocol'.age >= protocol.age]_vars

\* A lease that is never committed is withdrawn: no sequence of repeated PREPAREs,
\* refused requests or commands keeps one lease ARMED for ever.
ArmedIsTransient ==
  \A l \in Generations \ {0} :
    (protocol.phase = "ARMED" /\ protocol.lease = l)
      ~> ~(protocol.phase = "ARMED" /\ protocol.lease = l)

\* A session whose commands stop is held: RUNNING does not outlast the last
\* admitted command, whatever rejected commands and repeated COMMITs arrive.
SilenceIsHeld ==
  \A g \in Generations \ {0}, k \in Sequences :
    (protocol.phase = "RUNNING" /\ protocol.generation = g /\ protocol.accepted = k)
      ~> ~(protocol.phase = "RUNNING" /\ protocol.generation = g /\ protocol.accepted = k)
=============================================================================
