---------------------------- MODULE ExternalSession ----------------------------
(***************************************************************************)
(* Controllers and the robot together, over the four control topics.       *)
(*                                                                         *)
(* The robot is the Protocol object of RobotProtocol behind the callbacks  *)
(* and the loop of tools/production_topic_mock/mock.cpp: ReceiveRequest    *)
(* answers on control/ack, ReceiveCommand feeds the command, and the loop's*)
(* status branch runs the watchdog and publishes a copy of the status.  The*)
(* loop's apply branch changes only the pending and the applied command,   *)
(* which no controller sees, and is left to RobotProtocol.                 *)
(*                                                                         *)
(* Topics are in order.  The status topic keeps its last message: what a   *)
(* subscriber sees may be old, but it is never older than the one before   *)
(* (bound: a subscriber lags by one published status).  ACKs go to the     *)
(* controller whose request they answer; _on_ack ignores all others, as a  *)
(* request identity is a UUID.                                             *)
(***************************************************************************)
EXTENDS ExternalController, Functions

CONSTANTS
  NoId,             \* the robot's empty client and request identity
  MaxGeneration,    \* bound: leases and sessions the robot can number
  PrepareTimeout,   \* the robot's timeouts, in clock ticks
  CommandTimeout

VARIABLE robot      \* the Protocol object

Robot == INSTANCE RobotProtocol WITH
  Clients <- Controllers,
  RequestIds <- 1 .. MaxRequests,
  Seed <- 1,
  RejectOperation <- "NONE",
  protocol <- robot,
  reply <- NoMessage

\* The constants passed on are ones RobotProtocol accepts.
ASSUME RobotAssumption == Robot!IdAssumption /\ Robot!LimitAssumption

vars == <<clientVars, topics, robot>>

-----------------------------------------------------------------------------
(* The robot's callbacks and loop *)

ReceiveRequest ==
  LET r == Head(requests)
      w == Robot!Watchdog(robot)
  IN /\ requests # <<>>
     /\ requests' = Tail(requests)
     /\ robot' = Robot!AfterRequest(w, r)
     /\ \E q \in Outcomes(acks[r.client], Robot!ReplyTo(w, r)) :
          acks' = [acks EXCEPT ![r.client] = q]
     /\ UNCHANGED <<clientVars, commands, published>>

ReceiveCommand ==
  /\ commands # <<>>
  /\ commands' = Tail(commands)
  /\ robot' = Robot!AfterCommand(Robot!Watchdog(robot), Head(commands))
  /\ UNCHANGED <<clientVars, requests, acks, published>>

StatusOf(p) == [seq |-> p.statusSeq, phase |-> p.phase, client |-> p.client,
                lease |-> p.lease, generation |-> p.generation]

PublishStatus ==
  /\ robot' = Robot!Watchdog(robot)
  /\ published' = StatusOf(robot')
  /\ UNCHANGED <<clientVars, requests, commands, acks>>

TimePasses ==
  /\ \/ robot.phase = "ARMED" /\ robot.age < PrepareTimeout
     \/ robot.phase = "RUNNING" /\ robot.age < CommandTimeout
  /\ robot' = [robot EXCEPT !.age = @ + 1]
  /\ UNCHANGED <<clientVars, topics>>

-----------------------------------------------------------------------------

Init == /\ ClientInit
        /\ requests = <<>> /\ commands = <<>>
        /\ acks = [c \in Controllers |-> <<>>]
        /\ published = NoStatus
        /\ robot = Robot!Fresh

RobotNext == ReceiveRequest \/ ReceiveCommand \/ PublishStatus \/ TimePasses

Next == (ClientNext /\ UNCHANGED robot) \/ RobotNext

Spec == Init /\ [][Next]_vars

\* Threads inside a call keep running, the transport keeps calling back, the robot
\* keeps reading its topics and publishing statuses, and its clock runs.  Nobody
\* has to start a call.
Fairness ==
  /\ \A t \in Threads : WF_vars(Call(t) /\ thread[t].pc # "ready" /\ UNCHANGED robot)
  /\ \A c \in Controllers : /\ WF_vars(OnAck(c) /\ UNCHANGED robot)
                            /\ WF_vars(OnStatus(c) /\ UNCHANGED robot)
  /\ WF_vars(ReceiveRequest) /\ WF_vars(ReceiveCommand)
  /\ WF_vars(PublishStatus) /\ WF_vars(TimePasses)

FairSpec == Spec /\ Fairness

-----------------------------------------------------------------------------
(* Properties *)

OwnedBy(c) == robot.client = c
Owned(c) == OwnedBy(c) /\ robot.request = ctl[c].request /\ robot.lease = ctl[c].lease

\* Messages on their way to the robot: on a topic, or about to be published.
Carried(places) == {thread[t].message : t \in {u \in Threads : thread[u].pc \in places}}
RequestsOut == Range(requests) \cup
               Carried({"sendPrepare", "sendCommit", "sendFail", "sendExit", "sendClose"})
CommandsOut == Range(commands) \cup Carried({"sendCommand"})

\* A robot that someone owns is owned by a request its controller still has: a
\* controller never forgets a request (ClearSession, controller.py:321-322) that
\* the robot may still obey, so exit_external returns only when the robot is free.
OwnedIsKnown ==
  \A c \in Controllers : OwnedBy(c) => robot.request = ctl[c].request

\* A session a controller believes in, and has not cancelled, is the robot's: same
\* request, lease and generation, and EXTERNAL.  This is what enter_external's
\* return promises, and it holds until exit or close although statuses are stale
\* and messages are lost, because a RUNNING lease does not expire.
SessionIsGranted ==
  \A c \in Controllers :
    LET k == ctl[c] IN
    k.session # 0 /\ k.request # NoRequest /\ ~k.cancelSent
      => /\ Robot!External(robot) /\ Owned(c)
         /\ robot.generation = k.session

\* The key the next command gets is new: its number is larger than that of every
\* command of the session that is on its way or that the robot has accepted, so that
\* a key names one publish call and the robot does not refuse the stream as stale.
\* (velocity_mode/README.md:138 "Publish returns the actual session_id/sequence.
\* Those uint64 keys identify a successful SDK call".)
NextKeyIsUnused ==
  \A c \in Controllers :
    LET key == NextKey(c) IN
    StatusAllowsPublish(c) =>
      /\ \A m \in CommandsOut : m.key.session = key.session
                                => m.key.sequence < key.sequence
      /\ robot.generation = key.session => robot.accepted < key.sequence

\* A command of the session that runs now was sent by its owner: knowing the
\* generation takes a status that names the controller and its lease
\* (_status_allows_publish), so an old owner's commands and a waiting client's
\* are refused.
CommandsAreOwners ==
  \A m \in CommandsOut :
    Robot!External(robot) /\ m.key.session = robot.generation => OwnedBy(m.client)

\* A CANCEL on its way to an EXTERNAL robot from the request that owns it carries
\* the lease the robot wants (protocol.cpp:258).  There is one CANCEL per request,
\* so one with an older lease would leave the robot EXTERNAL for good.
CancelCarriesLease ==
  \A m \in RequestsOut :
    /\ m.operation = "CANCEL"
    /\ Robot!External(robot) /\ Robot!SameRequest(robot, m)
    => m.lease = robot.lease

\* README.md:171 "`exit_external(timeout=5.0)` sends CANCEL to PASSIVE": a call that
\* goes on to wait without sending one (_cancel_sent) has nothing to wait for: an
\* earlier CANCEL is still on its way, or the robot is not EXTERNAL under it.
ExitSendsCancel ==
  [][\A t \in Threads :
       LET c == Of(t) IN
       At(t, "exit") /\ At(t, "awaitCancel")' =>
         \/ ~(Robot!External(robot) /\ OwnedBy(c) /\ robot.request = ctl[c].request)
         \/ \E m \in RequestsOut : m.operation = "CANCEL" /\ m.request = ctl[c].request]_vars

\* A request that has been cancelled, by a failed enter_external, by exit_external
\* or by close, does not keep the robot.
CancelReleases ==
  \A c \in Controllers, r \in 1 .. MaxRequests :
    LET owns == OwnedBy(c) /\ robot.request = r
    IN (ctl[c].cancelSent /\ ctl[c].request = r /\ owns) ~> ~owns
=============================================================================
