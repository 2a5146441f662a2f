----------------------------- MODULE MotionPrograms -----------------------------
(***************************************************************************)
(* The programs under examples/ that move the robot, from main to its end. *)
(* All have one shape: open what they use, look at the body, enter         *)
(* EXTERNAL, repeat a frame (checks, a body command, perhaps end effector  *)
(* targets), give the session up whatever happened, and close what they    *)
(* opened.  What differs is the order of opening, of a frame and of        *)
(* closing, the stages, what is checked, and how a program is stopped;     *)
(* each program has its own definitions for that.                          *)
(*                                                                         *)
(* An opening, and a frame, is the sequence of the places where it opens,  *)
(* reads or writes what others share; anything may happen between two      *)
(* places.  A with statement enters in one step.  Time is counted in       *)
(* ticks, up to Longest.  What a read returns is chosen when it is read:   *)
(* feedback is newer or not, at rest or not, allows output or not.         *)
(* ExternalController models the calls behind Enter, Exit and Close: here  *)
(* they are one or two steps with the outcomes that module has.            *)
(***************************************************************************)
EXTENDS Naturals, Sequences, FiniteSets

CONSTANTS
  Window,          \* LOWSTATE_WINDOW_S, in ticks
  Period,          \* the period of the frames, in ticks
  Settle,          \* ENDPOINT_SETTLE_S, in ticks
  MaxInterrupts    \* bound: KeyboardInterrupts a program gets

ASSUME WindowAssumption == Period \in Nat \ {0} /\ Window \in Nat /\ Window > Period
ASSUME SettleAssumption == Settle \in Nat
ASSUME InterruptAssumption == MaxInterrupts \in Nat

VARIABLES
  program,     \* which program this is
  run,         \* its place and locals
  clock,       \* its timers
  session,     \* what controller.status shows of the session
  pending,     \* sides whose last target the robot has not yet accepted
  world        \* what happens to it: stop signals, interrupts, silent feedback

programVars == <<program, run, clock, session, pending, world>>

Policies == {"velocity", "wbc", "teleop"}
EndEffectors == {"gripper", "sine", "hand"}
Programs == Policies \cup EndEffectors \cup {"external_control"}

\* run and run_external wait for 200 ms at rest; the policies read one state.
StartsAtRest == EndEffectors \cup {"external_control"}

\* What a program opens; the two subscriptions of a trace are one.
Resources == {"transport", "controller", "clients", "joy", "source", "log", "traces"}
Opened == run.open

SidesOf(p) == CASE p = "gripper" -> {"left"}
                [] p \in {"sine", "hand"} -> {"left", "right"}
                [] OTHER -> {}

-----------------------------------------------------------------------------
(* The openings: what each program opens and looks at before it enters, in its order *)

ExternalControlOpening == <<"controller", "roster", "rest">>

\* main, run and run_external; a zero pose alone is traced.
GripperOpening == <<"controller", "clients", "limits", "roster", "rest", "traces">>

\* _sine_preflight stands between the clients and run_external.
SineOpening == <<"controller", "clients", "limits", "roster", "rest", "traces">>

HandOpening == <<"controller", "clients", "touch", "limits", "roster", "rest">>

\* The controller is given the transport.
VelocityOpening == <<"transport", "controller", "first", "roster", "log", "joy">>

WbcOpening == <<"log", "controller", "source", "roster", "first", "warm", "reset">>

TeleopOpening == <<"log", "controller", "joy", "roster", "first", "warm", "reset">>

Opening == CASE program = "external_control" -> ExternalControlOpening
             [] program = "velocity" -> VelocityOpening
             [] program = "wbc" -> WbcOpening
             [] program = "teleop" -> TeleopOpening
             [] program = "gripper" -> GripperOpening
             [] program = "sine" -> SineOpening
             [] program = "hand" -> HandOpening

Spot == IF run.pc = "preflight" /\ run.step <= Len(Opening) THEN Opening[run.step] ELSE "none"

-----------------------------------------------------------------------------
(* The frames: what each program does, in its order *)

\* publish_frame, and what _publish_dwell does with the state it returns.
ExternalControlFrame(stage) ==
  <<"status", "state", "publish", "pace">> \o (IF stage = "dwell" THEN <<"settle">> ELSE <<>>)

\* Faults the checks must notice are named Faulty...; nothing uses them.
FaultyVelocityFrame == <<"state", "status", "infer", "stop", "fresh", "publish", "keep">>
\* run_cycles.
VelocityFrame == <<"state", "status", "infer", "stop", "status", "fresh", "publish", "keep">>

WbcFrame == <<"status", "newer", "infer", "stop", "status", "publish", "keep">>

TeleopFrame == <<"status", "newer", "infer", "stop", "status", "publish", "keep">>

\* The frame that run_external gives to its command loop.
HoldFrame == <<"status", "state", "publish", "pace">>

\* command_loop: the guard's feedback, and in a leg the target.
GripperFrame(stage) ==
  HoldFrame \o (CASE stage = "body" -> <<>>
                  [] stage = "leg" -> <<"feedback", "target">>
                  [] OTHER -> <<"feedback">>)

\* stream: both guards are looked at before either target is written.
SineFrame(stage) ==
  HoldFrame \o (CASE stage = "body" -> <<>>
                  [] stage = "leg" -> <<"feedback", "target">>
                  [] OTHER -> <<"feedback">>)

\* frame looks at the hands itself, after the body command; move writes the targets.
HandFrame(stage) ==
  <<"status", "state", "publish", "feedback", "pace">>
    \o (IF stage = "leg" THEN <<"target">> ELSE <<>>)

Frame(p, stage) ==
  CASE p = "external_control" -> ExternalControlFrame(stage)
    [] p = "velocity" -> VelocityFrame
    [] p = "wbc" -> WbcFrame
    [] p = "teleop" -> TeleopFrame
    [] p = "gripper" -> GripperFrame(stage)
    [] p = "sine" -> SineFrame(stage)
    [] p = "hand" -> HandFrame(stage)

Route == Frame(program, run.stage)
Place == IF run.pc = "frame" /\ run.step <= Len(Route) THEN Route[run.step] ELSE "none"

-----------------------------------------------------------------------------
(* The stages: what may follow a frame *)

\* A segment, a dwell that must have settled, and both again on the way back.
ExternalControlStages ==
  CASE run.stage = "body" -> {"body", "dwell"}
    [] run.stage = "dwell" ->
         {"dwell"} \cup (IF ~run.settled THEN {"raise"} ELSE IF run.legs = 0 THEN {"body"} ELSE {"end"})

\* Until the duration is over; without one, until stopped.
PolicyStages == {"body", "end"}

Enabled == \A side \in SidesOf(program) : run.read[side] = "enabled"

FaultyAdmitted == \E side \in SidesOf(program) : side \notin pending
\* admitted, of each guard: the robot's state shows the last target accepted.
Admitted == pending = {}

\* Wait for output, one leg or two, each admitted before what follows.
GripperStages ==
  CASE run.stage = "body" -> {"body", "ready"}
    [] run.stage = "ready" -> IF Enabled THEN {"leg"} ELSE {"ready"}
    [] run.stage = "leg" -> {"leg", "final"}
    [] run.stage = "final" ->
         IF ~Admitted THEN {"final"} ELSE IF run.legs = 0 THEN {"leg", "end"} ELSE {"end"}

\* Entry, sine and return are one stream; only the last is waited for.
SineStages ==
  CASE run.stage = "body" -> {"body", "ready"}
    [] run.stage = "ready" -> IF Enabled THEN {"leg"} ELSE {"ready"}
    [] run.stage = "leg" -> {"leg", "final"}
    [] run.stage = "final" -> IF Admitted THEN {"end"} ELSE {"final"}

\* Moves, each followed by a dwell; rounds repeat.
HandStages ==
  CASE run.stage = "ready" -> IF Enabled THEN {"leg"} ELSE {"ready"}
    [] run.stage = "leg" -> {"leg", "dwell"}
    [] run.stage = "dwell" -> {"dwell", "leg", "end"}

Stages == CASE program = "external_control" -> ExternalControlStages
            [] program \in Policies -> PolicyStages
            [] program = "gripper" -> GripperStages
            [] program = "sine" -> SineStages
            [] program = "hand" -> HandStages

\* The gripper programs may hold the measured pose, and then have no body stage.
FirstStage == CASE program \in {"gripper", "sine"} -> IF "traces" \in Opened THEN "body" ELSE "ready"
                [] program = "hand" -> "ready"
                [] OTHER -> "body"

-----------------------------------------------------------------------------
(* The session as a program sees it *)

\* entered: as the program expects it; held: TIMEOUT_HOLD; rejecting, dropping: the
\* robot's counters moved; gone: another action, phase, generation or owner.
SessionStates == {"none", "entered", "held", "rejecting", "dropping", "gone"}

\* All but velocity expect what enter_external returned; velocity what a status shows
\* when its frames begin, so that until then no counter is compared.
Expects(p) == p = "velocity" => run.pc \notin {"entered", "warm", "baseline"}

\* velocity and wbc alone compare ingress_drop_count.
Tolerated(p) == CASE ~Expects(p) -> {"entered", "rejecting", "dropping"}
                  [] Expects(p) /\ p \in {"velocity", "wbc"} -> {"entered"}
                  [] OTHER -> {"entered", "dropping"}

\* What ends the program: a hold may still be left.
Lost(p) == session \in {"rejecting", "dropping", "gone"} \ Tolerated(p)

SessionChanges ==
  /\ session \notin {"none", "gone"}
  /\ session' \in CASE session \in Tolerated(program) -> {"held", "rejecting", "dropping", "gone"}
                    [] session = "held" -> {"entered", "gone"}
                    [] OTHER -> {"gone"}
  /\ UNCHANGED <<program, run, clock, pending, world>>

-----------------------------------------------------------------------------
(* The steps of a frame *)

NewClock == [age |-> 0, due |-> 0, late |-> 0, since |-> 0, unrest |-> 0]

\* The locals of the frames are gone.
Forgotten(r) == [r EXCEPT !.step = 1, !.stage = "none", !.legs = 0, !.repeats = 0, !.calm = FALSE,
                          !.timing = FALSE, !.settled = FALSE, !.lost = FALSE, !.warm = FALSE,
                          !.foreign = FALSE, !.read = <<>>, !.unwritten = {}]
Fail(r) == [Forgotten(r) EXCEPT !.pc = "cleanup", !.outcome = "error"]
Leave(r) == [Forgotten(r) EXCEPT !.pc = "cleanup", !.outcome = "ok"]
Onward(r) == [r EXCEPT !.step = @ + 1]

\* require_running and the checks like it.  A session that was another's when it was
\* taken for the expected one is not noticed here.
CheckStatus ==
  /\ Place = "status"
  /\ run' = IF session \in Tolerated(program) \/ run.foreign THEN Onward(run) ELSE Fail(run)
  /\ UNCHANGED <<program, clock, session, pending, world>>

Arrivals == IF world.silent THEN {"none"} ELSE {"none", "newer", "older"}

FaultyAdvances(arrival) == TRUE
\* All but velocity take any other state_id for a change.
Advances(arrival) == arrival = "newer" \/ (arrival = "older" /\ program # "velocity")

Stale(arrival) == ~Advances(arrival) /\ clock.age >= Window

\* wait_state may return what it returned before; the window bounds for how long.
ReadState ==
  /\ Place = "state"
  /\ \E arrival \in Arrivals, calm \in BOOLEAN :
       /\ calm \/ program = "external_control"
       /\ run' = IF Stale(arrival) THEN Fail(run)
                 ELSE [Onward(run) EXCEPT !.calm = calm,
                                         !.repeats = IF Advances(arrival) THEN 0 ELSE @]
       /\ clock' = [clock EXCEPT !.age = IF Advances(arrival) THEN 0 ELSE @,
                                 !.unrest = IF calm THEN @ ELSE 0]
  /\ UNCHANGED <<program, session, pending, world>>

\* velocity looks at the window again when the policy has run.
CheckWindow ==
  /\ Place = "fresh"
  /\ run' = IF clock.age >= Window THEN Fail(run) ELSE Onward(run)
  /\ UNCHANGED <<program, clock, session, pending, world>>

FaultyNewerStates == {"newer", "none"}
NewerStates == {"newer"}

\* wbc and teleop wait for a state they have not used, or for a stop.
ReadNewer ==
  /\ Place = "newer"
  /\ \/ /\ world.stop /\ run' = Leave(run)
     \/ \E arrival \in Arrivals \cap NewerStates :
          run' = [Onward(run) EXCEPT !.repeats = IF arrival = "newer" THEN 0 ELSE @]
  /\ UNCHANGED <<program, clock, session, pending, world>>

\* lost is history: what the session had come to when the policy had run.
Infer ==
  /\ Place = "infer"
  /\ run' = [Onward(run) EXCEPT !.lost = Lost(program)]
  /\ UNCHANGED <<program, clock, session, pending, world>>

CheckStop ==
  /\ Place = "stop"
  /\ run' = IF world.stop THEN Leave(run) ELSE Onward(run)
  /\ UNCHANGED <<program, clock, session, pending, world>>

\* The most frames a window holds: the first of them is late by almost a period.
MostRepeats == (Window - 2) \div Period + 2

\* The controller refuses a session that is not this client's any more.
PublishFrame ==
  /\ Place = "publish"
  /\ run' = IF session = "gone" THEN Fail(run)
            ELSE [Onward(run) EXCEPT !.repeats = IF @ <= MostRepeats THEN @ + 1 ELSE @]
  /\ UNCHANGED <<program, clock, session, pending, world>>

\* next_publish: a period from now.
Pace ==
  /\ Place = "pace"
  /\ run' = Onward(run) /\ clock' = [clock EXCEPT !.due = Period]
  /\ UNCHANGED <<program, session, pending, world>>

FaultyKept == IF clock.late < Period THEN Period - clock.late ELSE 0
\* The period is kept; after an overrun it starts anew, so that nothing is caught up.
Kept == IF clock.late < Period THEN Period - clock.late ELSE Period

Keep ==
  /\ Place = "keep"
  /\ run' = Onward(run) /\ clock' = [clock EXCEPT !.due = Kept, !.late = 0]
  /\ UNCHANGED <<program, session, pending, world>>

\* _publish_dwell: at the endpoint without a break for ENDPOINT_SETTLE_S.
Settling(calm) ==
  CASE ~calm -> [since |-> 0, settled |-> FALSE]
    [] calm /\ ~run.timing -> [since |-> 0, settled |-> run.settled]
    [] OTHER -> [since |-> clock.since, settled |-> run.settled \/ clock.since >= Settle]

SettleDwell ==
  /\ Place = "settle"
  /\ run' = [Onward(run) EXCEPT !.timing = run.calm, !.settled = Settling(run.calm).settled]
  /\ clock' = [clock EXCEPT !.since = Settling(run.calm).since]
  /\ UNCHANGED <<program, session, pending, world>>

-----------------------------------------------------------------------------
(* End effectors *)

Moving == run.stage # "ready"

\* validate_state, validate_hand: output is asked for when moving, and a fault never taken.
Acceptable == IF Moving THEN {"enabled"} ELSE {"enabled", "inhibited"}

FaultyRefused(seen) == \A side \in SidesOf(program) : seen[side] \notin Acceptable
Refused(seen) == \E side \in SidesOf(program) : seen[side] \notin Acceptable

\* The feedback of each side; a fault stands for every other reason to raise.
ReadFeedback ==
  /\ Place = "feedback"
  /\ \E seen \in [SidesOf(program) -> {"enabled", "inhibited", "fault"}] :
       run' = IF Refused(seen) THEN Fail(run)
              ELSE [Onward(run) EXCEPT !.read = seen, !.unwritten = SidesOf(program)]
  /\ UNCHANGED <<program, clock, session, pending, world>>

\* The targets are separate writes, and one may raise after another went out.
WriteTarget ==
  /\ Place = "target"
  /\ \E side \in run.unwritten :
       /\ pending' = pending \cup {side}
       /\ run' = [run EXCEPT !.unwritten = @ \ {side}]
  /\ UNCHANGED <<program, clock, session, world>>

TargetsWritten ==
  /\ Place = "target" /\ run.unwritten = {}
  /\ run' = Onward(run)
  /\ UNCHANGED <<program, clock, session, pending, world>>

\* The robot accepts a target, and its state tells so.
Accepts(side) ==
  /\ side \in pending /\ pending' = pending \ {side}
  /\ UNCHANGED <<program, run, clock, session, world>>

-----------------------------------------------------------------------------
(* Between frames *)

NewFrame(r, stage) ==
  [r EXCEPT !.pc = "pace", !.step = 1, !.stage = stage, !.read = <<>>, !.unwritten = {},
            !.settled = IF stage = "dwell" THEN @ ELSE FALSE,
            !.timing = IF stage = "dwell" THEN @ ELSE FALSE,
            !.legs = IF run.stage \in {"dwell", "final"} /\ stage \in {"body", "leg"} THEN 1 ELSE @]

FrameEnds ==
  /\ run.pc = "frame" /\ run.step > Len(Route)
  /\ \E stage \in Stages :
       run' = CASE stage = "end" -> Leave(run)
                [] stage = "raise" -> Fail(run)
                [] OTHER -> NewFrame(run, stage)
  /\ UNCHANGED <<program, clock, session, pending, world>>

\* A policy looks for a stop before each frame; all sleep until it is due.
FrameBegins ==
  /\ run.pc = "pace"
  /\ \/ /\ program \in Policies /\ world.stop /\ run' = Leave(run)
     \/ /\ clock.due = 0 /\ ~(program \in Policies /\ world.stop)
        /\ run' = [run EXCEPT !.pc = "frame"]
  /\ UNCHANGED <<program, clock, session, pending, world>>

\* A deadline passes: no newer state, output not enabled, a target neither echoed nor
\* accepted.
GivesUp ==
  /\ \/ Place = "newer" \/ (run.pc = "warm" /\ program = "wbc")
     \/ run.pc = "frame" /\ run.step > Len(Route) /\ run.stage = "ready" /\ ~Enabled
     \/ run.pc = "frame" /\ run.step > Len(Route) /\ run.stage = "final" /\ ~Admitted
     \/ Place = "feedback" /\ pending # {}
  /\ run' = Fail(run)
  /\ UNCHANGED <<program, clock, session, pending, world>>

\* What a frame calls may raise: feedback that is not valid, inference, a log, a publish.
Raises ==
  /\ run.pc \in {"warm", "baseline", "frame"}
  /\ run' = Fail(run)
  /\ UNCHANGED <<program, clock, session, pending, world>>

-----------------------------------------------------------------------------
(* Before the first frame *)

Passes(place) == /\ Spot = place /\ run' = Onward(run)
                 /\ UNCHANGED <<program, clock, session, pending, world>>

\* get_robot_info has this body; wait_info and wait_state of each side allow the motion;
\* set_touch, where it is asked for, is in a later info.
CheckRoster == Passes("roster")
CheckLimits == Passes("limits")
SetTouch == Passes("touch")

OpenNext ==
  /\ Spot \in Resources
  /\ run' = [Onward(run) EXCEPT !.open = @ \cup {Spot}]
  /\ UNCHANGED <<program, clock, session, pending, world>>

\* No --log for teleop, no zero pose for the gripper programs.
LeaveOut == (program = "teleop" /\ Passes("log")) \/ Passes("traces")

\* wbc runs its model once, teleop builds an observation: both leave a history of frames.
WarmUp ==
  /\ Spot = "warm" /\ run' = [Onward(run) EXCEPT !.warm = TRUE]
  /\ UNCHANGED <<program, clock, session, pending, world>>

FaultyErased == run.warm
\* policy.reset, policy.history.clear.
Erased == FALSE

EraseHistory ==
  /\ Spot = "reset" /\ run' = [Onward(run) EXCEPT !.warm = Erased]
  /\ UNCHANGED <<program, clock, session, pending, world>>

StillTimed(calm) == calm

FaultyAtRest(calm) == calm /\ run.timing
AtRest(calm) == calm /\ run.timing /\ clock.since >= Window

\* _wait_for_stationary_body_state: only new states tell of rest, each of them restarts
\* the time without news, and one that moves restarts the time at rest.
WaitAtRest ==
  /\ Spot = "rest"
  /\ \/ \E arrival \in Arrivals \ {"none"}, calm \in BOOLEAN :
          /\ run' = [run EXCEPT !.timing = StillTimed(calm) /\ ~AtRest(calm),
                                !.step = IF AtRest(calm) THEN @ + 1 ELSE @]
          /\ clock' = [clock EXCEPT !.age = 0, !.since = IF StillTimed(calm) /\ run.timing THEN @ ELSE 0,
                                    !.unrest = IF calm THEN @ ELSE 0]
     \/ /\ "none" \in Arrivals /\ clock.age >= Window
        /\ run' = Fail(run) /\ UNCHANGED clock
  /\ UNCHANGED <<program, session, pending, world>>

\* wait_ready of velocity; the first state of wbc and teleop, which a stop may end.
ReadFirst ==
  /\ Spot = "first"
  /\ \/ /\ Arrivals # {"none"} /\ run' = Onward(run)
     \/ /\ program = "wbc" /\ world.stop /\ run' = Leave(run)
  /\ UNCHANGED <<program, clock, session, pending, world>>

\* The deadline of the preflight, and whatever it finds wrong.
PreflightRaises ==
  /\ run.pc = "preflight" /\ run' = Fail(run)
  /\ UNCHANGED <<program, clock, session, pending, world>>

PreflightPasses ==
  /\ run.pc = "preflight" /\ run.step > Len(Opening)
  /\ run' = [run EXCEPT !.pc = "enter", !.step = 1]
  /\ UNCHANGED <<program, clock, session, pending, world>>

\* wbc and teleop do not enter once stopped.
StopBeforeEnter ==
  /\ run.pc = "enter" /\ program \in {"wbc", "teleop"} /\ world.stop
  /\ run' = Leave(run)
  /\ UNCHANGED <<program, clock, session, pending, world>>

\* Five promise to exit before they enter, these two when they have entered.
AttemptsFirst == Programs \ {"external_control", "velocity"}

\* request: the controller holds a request; cancelled: a CANCEL for it was tried.
Enter ==
  /\ run.pc = "enter" /\ ~(program \in {"wbc", "teleop"} /\ world.stop)
  /\ LET r == [run EXCEPT !.attempted = program \in AttemptsFirst, !.begun = TRUE, !.request = TRUE] IN
     \/ /\ run' = [r EXCEPT !.pc = "entered"] /\ session' = "entered"
     \/ /\ run' = [Fail(r) EXCEPT !.cancelled = TRUE] /\ UNCHANGED session
  /\ UNCHANGED <<program, clock, pending, world>>

\* The locals of the frames; age counts from here.
Entered ==
  /\ run.pc = "entered"
  /\ run' = [run EXCEPT !.attempted = TRUE, !.stage = FirstStage,
                        !.pc = IF \/ program \in {"velocity", "wbc"}
                                  \/ program \in EndEffectors /\ FirstStage = "body"
                               THEN "warm" ELSE "pace"]
  /\ clock' = NewClock
  /\ UNCHANGED <<program, session, pending, world>>

\* wbc waits for a state newer than the entry; velocity's transition and a zero pose
\* start from the latest state.
ReadAfterEntry ==
  /\ run.pc = "warm"
  /\ \/ /\ program = "wbc" /\ world.stop /\ run' = Leave(run)
     \/ /\ program = "wbc" => Arrivals # {"none"}
        /\ run' = [run EXCEPT !.pc = IF program = "velocity" THEN "baseline" ELSE "pace"]
  /\ clock' = [clock EXCEPT !.age = 0]
  /\ UNCHANGED <<program, session, pending, world>>

\* velocity's expected: any status that is EXTERNAL, RUNNING and not held, another
\* owner's too; what the counters show by now is what they are compared with.
TakeBaseline ==
  /\ run.pc = "baseline"
  /\ \/ session \in {"held", "gone"} /\ run' = Fail(run) /\ UNCHANGED session
     \/ /\ session # "held"
        /\ run' = [run EXCEPT !.pc = "pace", !.foreign = session = "gone"]
        /\ session' = IF session = "gone" THEN "gone" ELSE "entered"
  /\ UNCHANGED <<program, clock, pending, world>>

-----------------------------------------------------------------------------
(* The end *)

\* The finally of each program.
Exits == run.attempted

CleanUp ==
  /\ run.pc = "cleanup"
  /\ run' = [run EXCEPT !.pc = IF Exits THEN "exit" ELSE "close"]
  /\ clock' = NewClock
  /\ UNCHANGED <<program, session, pending, world>>

\* exit_external: a CANCEL, unless one was sent.
Exit ==
  /\ run.pc = "exit"
  /\ run' = [run EXCEPT !.pc = "confirm", !.cancelled = TRUE]
  /\ UNCHANGED <<program, clock, session, pending, world>>

FaultyRequiresPassive == FALSE
\* All but velocity want to see PASSIVE.
RequiresPassive == program # "velocity"

\* Its ACK and an idle status, or an error; actual is the action the status shows.
Confirm ==
  /\ run.pc = "confirm"
  /\ \/ \E actual \in {"PASSIVE", "other"} :
          run' = [run EXCEPT !.pc = "close", !.request = FALSE, !.actual = actual,
                    !.outcome = IF RequiresPassive /\ actual # "PASSIVE" /\ @ = "ok"
                                THEN "error" ELSE @]
     \/ run' = [run EXCEPT !.pc = "close",
                           !.outcome = IF @ = "ok" THEN "error" ELSE @]
  /\ session' = "none"
  /\ UNCHANGED <<program, clock, pending, world>>

FaultyCloseCancels == FALSE
\* close: the last chance for a CANCEL.
CloseCancels == run.request

\* ExitStack, with and closing undo in the reverse order; velocity has its own.
ClosedBefore(one, other) ==
  LET order == IF program = "velocity" THEN <<"log", "transport", "controller", "joy">> ELSE Opening
  IN  \E i, j \in 1 .. Len(order) : j < i /\ order[i] = one /\ order[j] = other

FaultyClosedNext == CHOOSE one \in Opened : \A other \in Opened \ {one} : ClosedBefore(other, one)
ClosedNext == CHOOSE one \in Opened : \A other \in Opened \ {one} : ClosedBefore(one, other)

\* The controller closes the transport it was given.
ClosedWith(one) == {one} \cup (IF one = "controller" THEN {"transport"} ELSE {})

\* finish_recording: an error of closing does not hide the first one.
Worse(outcome) == IF outcome = "ok" THEN "error" ELSE outcome

\* One of them is closed, and may raise; the others are closed all the same.
Close ==
  /\ run.pc = "close" /\ Opened # {}
  /\ \E outcome \in {run.outcome, Worse(run.outcome)} :
       run' = [run EXCEPT !.open = @ \ ClosedWith(ClosedNext), !.outcome = outcome,
                          !.cancelled = @ \/ (ClosedNext = "controller" /\ CloseCancels)]
  /\ session' = IF ClosedNext = "controller" THEN "none" ELSE session
  /\ UNCHANGED <<program, clock, pending, world>>

Done ==
  /\ run.pc = "close" /\ Opened = {} /\ run' = [run EXCEPT !.pc = "done"]
  /\ UNCHANGED <<program, clock, session, pending, world>>

\* SIGINT and SIGTERM: the policies set a flag.
StopSignal ==
  /\ program \in Policies /\ ~world.stop /\ run.pc # "done"
  /\ world' = [world EXCEPT !.stop = TRUE]
  /\ UNCHANGED <<program, run, clock, session, pending>>

\* stop_signals interrupts once, and cleanup then ignores signals; external_control
\* keeps Python's handler.  close is taken to run undisturbed.
MayInterrupt ==
  \/ program = "external_control" /\ world.interrupts < MaxInterrupts
  \/ program \in EndEffectors /\ world.interrupts = 0 /\ run.pc \notin {"exit", "confirm"}

\* An interrupt in the finally may come before exit_external is reached.
Interrupt ==
  /\ MayInterrupt /\ run.pc \notin {"close", "done"}
  /\ world' = [world EXCEPT !.interrupts = @ + 1]
  /\ \E place \in IF run.pc \in {"cleanup", "exit", "confirm"} THEN {"close"} ELSE {"cleanup"} :
       run' = [Forgotten(run) EXCEPT !.pc = place, !.outcome = "interrupted"]
  /\ UNCHANGED <<program, clock, session, pending>>

\* The robot's feedback stops for good.
FallsSilent ==
  /\ ~world.silent /\ world' = [world EXCEPT !.silent = TRUE]
  /\ UNCHANGED <<program, run, clock, session, pending>>

-----------------------------------------------------------------------------
(* Time *)

\* Rest is compared with the window or the settling time; beyond both nothing changes.
Longest == IF Settle > Window THEN Settle ELSE Window
Grown(t, limit) == IF t < limit THEN t + 1 ELSE t

\* late: how long the frame is overdue, which only the policies' pacing looks at.
Tick ==
  /\ Spot = "rest" \/ run.pc \in {"warm", "baseline", "pace", "frame"}
  /\ clock' = [age |-> IF program \in {"wbc", "teleop"} THEN 0 ELSE Grown(clock.age, Window),
               due |-> IF clock.due > 0 THEN clock.due - 1 ELSE 0,
               late |-> IF clock.due = 0 /\ program \in Policies /\ run.pc \in {"pace", "frame"}
                           /\ clock.late < Period THEN clock.late + 1 ELSE clock.late,
               since |-> IF run.timing THEN Grown(clock.since, Longest) ELSE 0,
               unrest |-> IF program \in Policies THEN 0
                          ELSE IF run.pc = "preflight" \/ (run.stage = "dwell" /\ program = "external_control")
                          THEN Grown(clock.unrest, Longest) ELSE clock.unrest]
  /\ clock' # clock
  /\ UNCHANGED <<program, run, session, pending, world>>

FrameStep == \/ CheckStatus \/ ReadState \/ CheckWindow \/ ReadNewer \/ Infer \/ CheckStop
             \/ PublishFrame \/ Pace \/ Keep \/ SettleDwell \/ ReadFeedback \/ WriteTarget
             \/ TargetsWritten \/ FrameEnds \/ FrameBegins
Preflight == \/ CheckRoster \/ CheckLimits \/ SetTouch \/ OpenNext \/ LeaveOut \/ WarmUp
             \/ EraseHistory \/ WaitAtRest \/ ReadFirst \/ PreflightPasses
ProgramStep == \/ Preflight \/ FrameStep \/ StopBeforeEnter \/ Enter \/ Entered
               \/ ReadAfterEntry \/ TakeBaseline \/ CleanUp \/ Exit \/ Confirm \/ Close \/ Done
WorldStep == \/ SessionChanges \/ (\E side \in pending : Accepts(side)) \/ StopSignal
             \/ Interrupt \/ FallsSilent

ProgramInit ==
  /\ program \in Programs
  /\ run = [pc |-> "preflight", step |-> 1, stage |-> "body", legs |-> 0, outcome |-> "none",
            attempted |-> FALSE, begun |-> FALSE, request |-> FALSE, cancelled |-> FALSE,
            actual |-> "none", repeats |-> 0, calm |-> FALSE, timing |-> FALSE, settled |-> FALSE,
            lost |-> FALSE, warm |-> FALSE, foreign |-> FALSE, read |-> <<>>, unwritten |-> {}, open |-> {}]
  /\ clock = NewClock
  /\ session = "none" /\ pending = {}
  /\ world = [stop |-> FALSE, interrupts |-> 0, silent |-> FALSE]

ProgramNext == ProgramStep \/ GivesUp \/ Raises \/ PreflightRaises \/ WorldStep \/ Tick

\* The thread runs, deadlines pass, and so does time; no error need come.
ProgramFairness ==
  WF_programVars(ProgramStep) /\ WF_programVars(GivesUp)
    /\ WF_programVars(PreflightRaises) /\ WF_programVars(Tick)

ProgramSpec == ProgramInit /\ [][ProgramNext]_programVars /\ ProgramFairness

-----------------------------------------------------------------------------
(* What must hold *)

DwellIsOver == run.pc = "frame" /\ run.stage = "dwell" /\ Place = "none"

\* A program that asks for rest has read no moving state for a whole window when it
\* enters, and external_control none away from the endpoint for ENDPOINT_SETTLE_S when
\* it takes the endpoint for settled.
StillnessIsMeasured ==
  /\ run.pc = "enter" /\ program \in StartsAtRest => clock.unrest >= Window
  /\ DwellIsOver /\ run.settled => clock.unrest >= Settle

\* However its frames are delayed, a program sends no more commands on one body state
\* than the window holds, and wbc and teleop a single one.
RepeatsAreBounded ==
  run.repeats <= IF program \in {"wbc", "teleop"} THEN 1 ELSE MostRepeats

\* Nothing is sent on what was seen to be lost: no policy sends a command computed
\* while the session it expects was being lost (for velocity, the session as its first
\* status check found it), nor one that remembers frames of its preflight,
\* and a target goes to no side unless, in the same frame, every side was seen enabled
\* before the first was written.
SendsFollowChecks ==
  /\ Place = "keep" => ~run.lost /\ ~run.warm
  /\ Place = "target" /\ run.unwritten # SidesOf(program) =>
       \A side \in SidesOf(program) : run.read[side] = "enabled"

\* However a program ends, errors and interrupts in any place included, a session it
\* began to enter has had its CANCEL; and one that ends well has seen the robot leave
\* EXTERNAL (PASSIVE, where it asks) with no target of a gripper still unaccepted.
SessionIsGivenUp ==
  run.pc = "done" =>
    /\ run.begun => run.cancelled
    /\ run.outcome = "ok" =>
         /\ run.begun => run.actual \in {"PASSIVE"} \cup (IF program = "velocity" THEN {"other"} ELSE {})
         /\ program \in {"gripper", "sine"} => pending = {}

OnNode == {"clients", "joy", "traces"}

\* However an opening or a closing fails, a program ends with all closed that it opened,
\* each once; nothing is left on a node that is closed, and the log of velocity and wbc
\* is open for as long as their session may be.
AllIsClosed ==
  /\ run.pc = "done" => Opened = {}
  /\ Opened \cap OnNode # {} => Opened \cap {"transport", "controller"} # {}
  /\ program \in {"velocity", "wbc"} /\ run.begun /\ "controller" \in Opened => "log" \in Opened

\* The end of a program, over errors and interrupts in every place: the session has its
\* CANCEL and all that was opened is closed.
EndIsClean == SessionIsGivenUp /\ AllIsClosed

\* A stop, an interrupt, a session that is lost or feedback that stays away ends every
\* program, in whatever place it was.  Counters that move between the entry and the first
\* status check of velocity are no loss: it compares with what it finds there.
Doomed == world.stop \/ world.interrupts > 0 \/ world.silent \/ Lost(program)
ProgramEnds == Doomed ~> run.pc = "done"
=============================================================================
