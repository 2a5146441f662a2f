----------------------------- MODULE MockEndpoint -----------------------------
(***************************************************************************)
(* The robot process of tools/production_topic_mock/mock.cpp: the Protocol *)
(* object of RobotProtocol behind a mutex, the callbacks of the transport  *)
(* that take it (ReceiveCommand, ReceiveRequest, ReplyInfo), and the loop  *)
(* of main, which applies the pending command, publishes BodyState and     *)
(* ControlStatus, and at the end decides the exit code.                    *)
(*                                                                         *)
(* A block under the mutex is one step; a publish outside it is another.   *)
(* Commands are applied on a grid of the wall clock: time counts in parts  *)
(* of the apply period, phase is the part since the last grid point, and   *)
(* the loop looks at the pending tick once per period, LoopOffset parts    *)
(* after a grid point, as its own schedule starts when the process does.   *)
(*                                                                         *)
(* Abstracted: messages that do not decode, which are counted and dropped; *)
(* the rates of BodyState and ControlStatus (each may be due or not in any *)
(* pass of the loop); adjustments of the wall clock.                       *)
(***************************************************************************)
EXTENDS Naturals, FiniteSets

CONSTANTS
  Clients, RequestIds, NoId, MaxGeneration, MaxSequence,
  PrepareTimeout, CommandTimeout,   \* in parts of the apply period
  Period,         \* parts of an apply period
  LoopOffset,     \* when the loop looks, in parts after a grid point
  Prompt,         \* the loop never lags: time passes only while it sleeps
  Failing,        \* a publish, a reply or a free may fail
  MaxStatusSeq    \* bound: nothing arrives beyond this status_seq

ASSUME PeriodAssumption == Period \in Nat \ {0} /\ LoopOffset \in 0 .. Period - 1
ASSUME ModeAssumption == Prompt \in BOOLEAN /\ Failing \in BOOLEAN

VARIABLES
  robot,      \* Context::protocol
  tick,       \* pending_tick_ns: "none" (0), "waiting" or "due"
  phase,      \* parts of the period since the last grid point
  applyDue,   \* now >= next_apply
  place,      \* where main is
  copied,     \* what main copied under the mutex and has yet to publish
  failed,     \* endpoint_failed
  rc,         \* endpoint_rc
  counts,     \* accepted and applied
  shown,      \* history: the last BodyState and ControlStatus published
  announced,  \* history: the leases named by published ACKs
  missed,     \* history: looks in a row that left a pending command, up to EnoughMissed
  faults      \* history: something has failed

history == <<shown, announced, missed>>
vars == <<robot, tick, phase, applyDue, place, copied, failed, rc, counts, history, faults>>

Robot == INSTANCE RobotProtocol WITH
  Seed <- 1,
  RejectOperation <- "NONE",
  protocol <- robot,
  reply <- [accepted |-> FALSE]

\* The constants passed on are ones RobotProtocol accepts.
ASSUME RobotAssumption == Robot!IdAssumption /\ Robot!LimitAssumption

\* A call into the transport and what may become of it.
Succeeds == IF Failing THEN BOOLEAN ELSE {TRUE}

-----------------------------------------------------------------------------
(* The callbacks, until their subscriptions are freed *)

Subscribed == place \notin {"verdict", "done"}
Listening == Subscribed /\ robot.statusSeq < MaxStatusSeq

\* The first grid point that is not before now.
NextApplyTick == IF phase = 0 THEN "due" ELSE "waiting"

ReceiveCommand(cmd) ==
  LET w == Robot!Watchdog(robot)
      valid == Robot!Admits(w, cmd)
  IN /\ Listening
     /\ robot' = Robot!AfterCommand(w, cmd)
     /\ tick' = IF valid THEN NextApplyTick ELSE tick
     /\ counts' = IF valid THEN [counts EXCEPT !.accepted = @ + 1] ELSE counts
     /\ UNCHANGED <<phase, applyDue, place, copied, failed, rc, history, faults>>

FaultyReceiveRequest(r) ==
  LET w == Robot!Watchdog(robot)
      ack == Robot!ReplyTo(w, r)
  IN /\ Listening
     /\ \E sent \in Succeeds :
          /\ robot' = Robot!AfterRequest(w, r)
          /\ failed' = (failed \/ ~sent) /\ faults' = (faults \/ ~sent)
          /\ announced' = IF sent THEN announced \cup ({ack.lease} \ {0}) ELSE announced
     /\ UNCHANGED <<tick, phase, applyDue, place, copied, rc, counts, shown, missed>>

\* A copy of the object handles the request; it replaces the object when its ACK
\* was published.
ReceiveRequest(r) ==
  LET w == Robot!Watchdog(robot)
      ack == Robot!ReplyTo(w, r)
  IN /\ Listening
     /\ \E sent \in Succeeds :
          /\ robot' = IF sent THEN Robot!AfterRequest(w, r) ELSE robot
          /\ failed' = (failed \/ ~sent) /\ faults' = (faults \/ ~sent)
          /\ announced' = IF sent THEN announced \cup ({ack.lease} \ {0}) ELSE announced
     /\ UNCHANGED <<tick, phase, applyDue, place, copied, rc, counts, shown, missed>>

ReplyInfo ==
  /\ Subscribed
  /\ \E sent \in Succeeds : /\ failed' = (failed \/ ~sent)
                            /\ faults' = (faults \/ ~sent)
  /\ UNCHANGED <<robot, tick, phase, applyDue, place, copied, rc, counts, history>>

-----------------------------------------------------------------------------
(* The loop of main *)

\* Faults the checks must notice are named Faulty...; nothing uses them.
FaultyContinues == place = "top"
Continues == place = "top" /\ ~failed

EnoughMissed == 3    \* bound: of the history missed

Ready(t) == t = "due"
FaultyTickLeft(applies) == "none"
TickLeft(applies) == IF applies THEN "none" ELSE tick

\* The apply branch, if it is time to look.
Apply ==
  LET w == Robot!Watchdog(robot)
      applies == Ready(tick) /\ Robot!Applies(w)
  IN /\ Continues
     /\ place' = "state"
     /\ IF applyDue
        THEN /\ robot' = IF Ready(tick) THEN Robot!AfterTick(w) ELSE robot
             /\ tick' = TickLeft(applies)
             /\ counts' = IF applies THEN [counts EXCEPT !.applied = @ + 1] ELSE counts
             /\ missed' = IF robot'.pending = Robot!NoKey THEN 0
                        ELSE IF missed < EnoughMissed THEN missed + 1 ELSE missed
             /\ applyDue' = FALSE
        ELSE UNCHANGED <<robot, tick, counts, missed, applyDue>>
     /\ UNCHANGED <<phase, copied, failed, rc, shown, announced, faults>>

\* How far the admitted commands had come when a status was copied.
Progress(p) == [phase |-> p.phase, session |-> p.generation, sequence |-> p.accepted,
                issued |-> p.issued]
NoStatus == Progress(Robot!Fresh)
Nothing == [output |-> Robot!NoKey, status |-> NoStatus]

\* BodyState is due or not.
CopyOutput ==
  /\ place = "state"
  /\ \/ place' = "sendState" /\ copied' = [copied EXCEPT !.output = robot.output]
     \/ place' = "status" /\ UNCHANGED copied
  /\ UNCHANGED <<robot, tick, phase, applyDue, failed, rc, counts, history, faults>>

\* A publish that fails throws, which ends the loop with endpoint_rc 2.
Publishes(then) ==
  \E sent \in Succeeds :
    /\ place' = IF sent THEN then ELSE "close"
    /\ rc' = IF sent THEN rc ELSE 2
    /\ faults' = (faults \/ ~sent)

SendState ==
  /\ place = "sendState"
  /\ Publishes("status")
  /\ shown' = IF place' = "status"
              THEN [shown EXCEPT !.output = copied.output, !.afterStatus = TRUE]
              ELSE shown
  /\ copied' = Nothing
  /\ UNCHANGED <<robot, tick, phase, applyDue, failed, counts, announced, missed>>

\* ControlStatus is due or not.
CopyStatus ==
  /\ place = "status"
  /\ \/ /\ place' = "sendStatus"
        /\ robot' = Robot!Watchdog(robot)
        /\ copied' = [copied EXCEPT !.status = Progress(robot')]
     \/ place' = "top" /\ UNCHANGED <<robot, copied>>
  /\ UNCHANGED <<tick, phase, applyDue, failed, rc, counts, history, faults>>

SendStatus ==
  /\ place = "sendStatus"
  /\ Publishes("top")
  /\ shown' = IF place' = "top"
              THEN [shown EXCEPT !.status = copied.status, !.afterStatus = FALSE]
              ELSE shown
  /\ copied' = Nothing
  /\ UNCHANGED <<robot, tick, phase, applyDue, failed, counts, announced, missed>>

\* A signal, the end of the run or a failed endpoint.
Leave == /\ place = "top"
         /\ place' = "close"
         /\ UNCHANGED <<robot, tick, phase, applyDue, copied, failed, rc, counts, history,
                        faults>>

\* Resources::Close frees the subscriptions, which waits for their callbacks.
Close == /\ place = "close"
         /\ place' = "verdict"
         /\ \E freed \in Succeeds : /\ rc' = IF freed THEN rc ELSE 2
                                    /\ faults' = (faults \/ ~freed)
         /\ UNCHANGED <<robot, tick, phase, applyDue, copied, failed, counts, history>>

FaultyVerdict == /\ place = "verdict"
                 /\ place' = "done"
                 /\ UNCHANGED <<robot, tick, phase, applyDue, copied, failed, rc, counts, history,
                                faults>>

Verdict == /\ place = "verdict"
           /\ place' = "done"
           /\ rc' = IF failed THEN 2 ELSE rc
           /\ UNCHANGED <<robot, tick, phase, applyDue, copied, failed, counts, history, faults>>

Main == \/ Apply \/ CopyOutput \/ SendState \/ CopyStatus \/ SendStatus
        \/ Leave \/ Close \/ Verdict

-----------------------------------------------------------------------------
(* Time *)

Sleeping == place = "top" /\ ~applyDue

Aged(p) == CASE p.phase = "ARMED" /\ p.age < PrepareTimeout -> [p EXCEPT !.age = @ + 1]
             [] p.phase = "RUNNING" /\ p.age < CommandTimeout -> [p EXCEPT !.age = @ + 1]
             [] OTHER -> p

TimePasses ==
  /\ place # "done"
  /\ Prompt => Sleeping
  /\ phase' = (phase + 1) % Period
  /\ applyDue' = (applyDue \/ phase' = LoopOffset)
  /\ tick' = IF tick = "waiting" /\ phase' = 0 THEN "due" ELSE tick
  /\ robot' = Aged(robot)
  /\ UNCHANGED <<place, copied, failed, rc, counts, history, faults>>

-----------------------------------------------------------------------------

Init == /\ robot = Robot!Fresh
        /\ tick = "none" /\ phase = LoopOffset /\ applyDue = TRUE
        /\ place = "top"
        /\ copied = Nothing
        /\ failed = FALSE /\ rc = 0
        /\ counts = [accepted |-> 0, applied |-> 0]
        /\ shown = [output |-> Robot!NoKey, status |-> NoStatus, afterStatus |-> FALSE]
        /\ announced = {} /\ missed = 0 /\ faults = FALSE

Callbacks == \/ \E cmd \in Robot!Command : ReceiveCommand(cmd)
             \/ \E r \in Robot!Request : ReceiveRequest(r)
             \/ ReplyInfo

Next == Main \/ Callbacks \/ TimePasses

Spec == Init /\ [][Next]_vars

\* main's loop and the clock run; nothing has to arrive, and nobody has to stop the run.
Fairness == WF_vars(Main) /\ WF_vars(TimePasses)
FairSpec == Spec /\ Fairness

-----------------------------------------------------------------------------
(* Properties *)

\* The pending command and the tick it waits for live in two objects: no order of
\* callbacks, holds and looks leaves a command that no look will ever apply
\* (mock.cpp:118-121, 362-367).
PendingHasTick == robot.pending # Robot!NoKey => tick # "none"

\* mock-result.json adds up: every accepted command was applied once, overwritten
\* before it was applied, withdrawn with its session, or is pending.  (accepted and
\* applied are counted by mock.cpp, overwritten by the Protocol object, which a
\* request replaces by a copy.)
CommandsAddUp ==
  counts.applied + robot.overwritten + (IF robot.pending = Robot!NoKey THEN 0 ELSE 1)
    <= counts.accepted

\* "Commit the proposed state only after its ACK was published" (mock.cpp:143): a
\* client that was told of no lease holds none.
LeaseWasAnnounced == robot.lease # 0 => robot.lease \in announced

\* What the mock's rule, that evidence is of a current command (protocol.cpp:209-213),
\* comes to for a client: in a BodyState published after a status that was not RUNNING
\* the key is zero or newer than everything admitted by then, although the two topics
\* are copied in separate locked blocks (mock.cpp:373, 387).  It is no rule of the robot:
\* README.md:86-91 promises the opposite in this very case, to retain the association
\* over pauses and until TRACKING output was sent.
EvidenceFollowsStatus ==
  LET seen == shown.status  key == shown.output
  IN shown.afterStatus /\ seen.phase # "RUNNING" /\ key # Robot!NoKey
       => \/ key.session > seen.issued
          \/ key.session = seen.session /\ key.sequence > seen.sequence

\* Exit code 0 means that nothing failed, up to the freeing of the subscriptions:
\* "Drain callbacks and close every resource before deciding the verdict"
\* (mock.cpp:405).
VerdictIsHonest == place = "done" /\ rc = 0 => ~faults

\* A command does not stay pending: it is applied, replaced by a later one or
\* withdrawn, unless the process ends.
PendingIsTransient ==
  \A n \in Robot!Sequences \ {0} :
    LET waits == robot.pending.sequence = n IN waits ~> ~waits \/ place = "done"

\* A failed endpoint ends the process.
FailureEnds == failed ~> place = "done"

\* README.md:52 of the mock, "The latest accepted BodyCmd is applied at a synthetic
\* tick": a stream of commands is applied.  One look may come before the tick of
\* the command that is pending, and one after a command replaced it; three in a row
\* leave two periods without output while commands keep coming.
StreamIsApplied == missed <= 2
=============================================================================
