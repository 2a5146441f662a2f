--------------------------- MODULE MotionProgramsProofs ---------------------------
(***************************************************************************)
(* What the programs of MotionPrograms promise, proved for every window,   *)
(* period and settling time: how a program ends (EndIsClean), that its     *)
(* checks come before what it sends (SendsFollowChecks), that rest is      *)
(* measured (StillnessIsMeasured) and that no body state is used for more  *)
(* commands than the window holds (RepeatsAreBounded).                     *)
(***************************************************************************)
EXTENDS MotionPrograms, TLAPS

-----------------------------------------------------------------------------
(* The operators on a run, field by field *)

RunFields == {"pc", "step", "stage", "legs", "outcome", "attempted", "begun", "request", "cancelled",
              "actual", "repeats", "calm", "timing", "settled", "lost", "warm", "foreign",
              "read", "unwritten", "open"}

\* What a session and its end are told by.
SameSession(q, r) ==
  /\ q.attempted = r.attempted /\ q.begun = r.begun /\ q.request = r.request
  /\ q.cancelled = r.cancelled /\ q.actual = r.actual /\ q.open = r.open

NoLocals(q) ==
  /\ q.step = 1 /\ q.stage = "none" /\ q.legs = 0 /\ q.repeats = 0
  /\ q.calm = FALSE /\ q.timing = FALSE /\ q.settled = FALSE /\ q.lost = FALSE /\ q.warm = FALSE
  /\ q.foreign = FALSE /\ q.unwritten = {}

LEMMA Forgets ==
  ASSUME NEW r, DOMAIN r = RunFields
  PROVE  /\ DOMAIN Forgotten(r) = RunFields
         /\ Forgotten(r).pc = r.pc /\ Forgotten(r).outcome = r.outcome
         /\ SameSession(Forgotten(r), r) /\ NoLocals(Forgotten(r))
<1>1. DOMAIN Forgotten(r) = RunFields
  BY DEF Forgotten
<1>2. Forgotten(r).pc = r.pc /\ Forgotten(r).outcome = r.outcome
  BY DEF Forgotten, RunFields
<1>3. SameSession(Forgotten(r), r)
  BY DEF Forgotten, RunFields, SameSession
<1>4. NoLocals(Forgotten(r))
  BY DEF Forgotten, RunFields, NoLocals
<1> QED BY <1>1, <1>2, <1>3, <1>4

LEMMA Fails ==
  ASSUME NEW r, DOMAIN r = RunFields
  PROVE  /\ DOMAIN Fail(r) = RunFields
         /\ Fail(r).pc = "cleanup" /\ Fail(r).outcome = "error"
         /\ SameSession(Fail(r), r) /\ NoLocals(Fail(r))
BY Forgets DEF Fail, RunFields, SameSession, NoLocals

LEMMA Leaves ==
  ASSUME NEW r, DOMAIN r = RunFields
  PROVE  /\ DOMAIN Leave(r) = RunFields
         /\ Leave(r).pc = "cleanup" /\ Leave(r).outcome = "ok"
         /\ SameSession(Leave(r), r) /\ NoLocals(Leave(r))
BY Forgets DEF Leave, RunFields, SameSession, NoLocals

LEMMA Onwards ==
  ASSUME NEW r, DOMAIN r = RunFields
  PROVE  /\ DOMAIN Onward(r) = RunFields
         /\ Onward(r).step = r.step + 1
         /\ \A f \in RunFields \ {"step"} : Onward(r)[f] = r[f]
BY DEF Onward, RunFields

LEMMA NewFrames ==
  ASSUME NEW r, DOMAIN r = RunFields, NEW stage
  PROVE  /\ DOMAIN NewFrame(r, stage) = RunFields
         /\ NewFrame(r, stage).pc = "pace" /\ NewFrame(r, stage).step = 1
         /\ NewFrame(r, stage).stage = stage /\ NewFrame(r, stage).outcome = r.outcome
         /\ SameSession(NewFrame(r, stage), r)
BY DEF NewFrame, RunFields, SameSession

\* What it keeps of the locals, and what only a dwell keeps.
LEMMA NewFrameKeeps ==
  ASSUME NEW r, DOMAIN r = RunFields, NEW stage
  PROVE  /\ NewFrame(r, stage).repeats = r.repeats /\ NewFrame(r, stage).calm = r.calm
         /\ NewFrame(r, stage).lost = r.lost /\ NewFrame(r, stage).warm = r.warm
         /\ NewFrame(r, stage).foreign = r.foreign /\ NewFrame(r, stage).unwritten = {}
BY DEF NewFrame, RunFields

LEMMA NewFrameDwells ==
  ASSUME NEW r, DOMAIN r = RunFields, NEW stage
  PROVE  /\ stage = "dwell" => /\ NewFrame(r, stage).settled = r.settled
                               /\ NewFrame(r, stage).timing = r.timing
         /\ stage # "dwell" => /\ NewFrame(r, stage).settled = FALSE
                               /\ NewFrame(r, stage).timing = FALSE
         /\ NewFrame(r, stage).legs \in {1, r.legs}
BY DEF NewFrame, RunFields

-----------------------------------------------------------------------------
(* Typing *)

Frames == {"warm", "baseline", "pace", "frame"}
Ended == {"cleanup", "exit", "confirm", "close", "done"}
Pcs == {"preflight", "enter", "entered"} \cup Frames \cup Ended

StagesOf(p) == CASE p = "external_control" -> {"body", "dwell"}
                 [] p \in Policies -> {"body"}
                 [] p \in {"gripper", "sine"} -> {"body", "ready", "leg", "final"}
                 [] p = "hand" -> {"ready", "leg", "dwell"}

SessionTyped(r) ==
  /\ r.attempted \in BOOLEAN /\ r.begun \in BOOLEAN /\ r.request \in BOOLEAN /\ r.cancelled \in BOOLEAN
  /\ r.actual \in {"none", "PASSIVE", "other"}
  /\ r.open \subseteq Resources

LocalsTyped(p, r) ==
  /\ r.legs \in {0, 1} /\ r.repeats \in Nat
  /\ r.calm \in BOOLEAN /\ r.timing \in BOOLEAN /\ r.settled \in BOOLEAN
  /\ r.lost \in BOOLEAN /\ r.warm \in BOOLEAN /\ r.foreign \in BOOLEAN
  /\ r.unwritten \subseteq SidesOf(p)

RunTyped(p, r) ==
  /\ DOMAIN r = RunFields
  /\ r.pc \in Pcs
  /\ r.step \in Nat \ {0}
  /\ r.pc \in Frames => r.stage \in StagesOf(p)
  /\ r.outcome \in {"none", "ok", "error", "interrupted"}
  /\ SessionTyped(r)
  /\ LocalsTyped(p, r)

ClockTyped ==
  clock \in [age : 0 .. Window, due : 0 .. Period, late : 0 .. Period,
             since : 0 .. Longest, unrest : 0 .. Longest]

\* Nothing is assumed of the order of the window and the settling time.
LEMMA LongestIsLonger == Longest \in Nat /\ Window <= Longest /\ Settle <= Longest
BY WindowAssumption, SettleAssumption DEF Longest

\* A read may be any function; the runs never look at it but to compare.
Typed ==
  /\ program \in Programs
  /\ RunTyped(program, run)
  /\ ClockTyped
  /\ session \in SessionStates
  /\ pending \subseteq SidesOf(program)
  /\ world \in [stop : BOOLEAN, interrupts : Nat, silent : BOOLEAN]

LEMMA OnwardTyped ==
  ASSUME NEW r, RunTyped(program, r) PROVE RunTyped(program, Onward(r))
<1>1. /\ DOMAIN Onward(r) = RunFields /\ Onward(r).step = r.step + 1
      /\ \A f \in RunFields \ {"step"} : Onward(r)[f] = r[f]
  BY Onwards DEF RunTyped
<1> HIDE DEF Onward
<1> QED BY <1>1 DEF RunTyped, SessionTyped, LocalsTyped, RunFields

LEMMA SameSessionTyped ==
  ASSUME NEW q, NEW r, SameSession(q, r), SessionTyped(r) PROVE SessionTyped(q)
BY DEF SameSession, SessionTyped

LEMMA NoLocalsTyped ==
  ASSUME NEW q, NoLocals(q) PROVE LocalsTyped(program, q)
<1>1. /\ q.calm \in BOOLEAN /\ q.timing \in BOOLEAN /\ q.settled \in BOOLEAN
      /\ q.lost \in BOOLEAN /\ q.warm \in BOOLEAN /\ q.foreign \in BOOLEAN
  BY DEF NoLocals
<1>2. q.legs \in {0, 1} /\ q.repeats \in Nat /\ q.unwritten \subseteq SidesOf(program)
  BY DEF NoLocals
<1> QED BY <1>1, <1>2 DEF LocalsTyped

LEMMA FailTyped ==
  ASSUME NEW r, RunTyped(program, r) PROVE RunTyped(program, Fail(r))
<1>1. /\ DOMAIN Fail(r) = RunFields /\ Fail(r).pc = "cleanup" /\ Fail(r).outcome = "error"
      /\ SameSession(Fail(r), r) /\ NoLocals(Fail(r))
  BY Fails DEF RunTyped
<1>2. SessionTyped(Fail(r))
  BY <1>1, SameSessionTyped DEF RunTyped
<1>3. LocalsTyped(program, Fail(r))
  BY <1>1, NoLocalsTyped
<1>4. Fail(r).step = 1
  BY <1>1 DEF NoLocals
<1> QED BY <1>1, <1>2, <1>3, <1>4 DEF RunTyped, Pcs, Ended, Frames

LEMMA LeaveTyped ==
  ASSUME NEW r, RunTyped(program, r) PROVE RunTyped(program, Leave(r))
<1>1. /\ DOMAIN Leave(r) = RunFields /\ Leave(r).pc = "cleanup" /\ Leave(r).outcome = "ok"
      /\ SameSession(Leave(r), r) /\ NoLocals(Leave(r))
  BY Leaves DEF RunTyped
<1>2. SessionTyped(Leave(r))
  BY <1>1, SameSessionTyped DEF RunTyped
<1>3. LocalsTyped(program, Leave(r))
  BY <1>1, NoLocalsTyped
<1>4. Leave(r).step = 1
  BY <1>1 DEF NoLocals
<1> QED BY <1>1, <1>2, <1>3, <1>4 DEF RunTyped, Pcs, Ended, Frames

LEMMA NewFrameTyped ==
  ASSUME NEW r, RunTyped(program, r), NEW stage \in StagesOf(program) PROVE RunTyped(program, NewFrame(r, stage))
<1> DEFINE q == NewFrame(r, stage)
<1>1. DOMAIN q = RunFields /\ q.pc = "pace" /\ q.step = 1 /\ q.stage = stage /\ q.outcome = r.outcome /\ SameSession(q, r)
  BY NewFrames DEF RunTyped
<1>2. SessionTyped(q)
  BY <1>1, SameSessionTyped DEF RunTyped
<1>3. LocalsTyped(program, q)
  <2>1. q.settled \in BOOLEAN /\ q.timing \in BOOLEAN
    <3>1. CASE stage = "dwell"
      <4>1. q.settled = r.settled /\ q.timing = r.timing
        BY <3>1, NewFrameDwells DEF RunTyped
      <4> HIDE DEF q
      <4> QED BY <4>1 DEF RunTyped, LocalsTyped
    <3>2. CASE stage # "dwell"
      BY <3>2, NewFrameDwells DEF RunTyped, LocalsTyped
    <3> QED BY <3>1, <3>2
  <2>2. q.calm \in BOOLEAN /\ q.lost \in BOOLEAN /\ q.warm \in BOOLEAN /\ q.foreign \in BOOLEAN
    BY NewFrameKeeps DEF RunTyped, LocalsTyped
  <2>3. q.unwritten = {} /\ q.legs \in {0, 1} /\ q.repeats \in Nat
    BY NewFrameKeeps, NewFrameDwells DEF RunTyped, LocalsTyped
  <2> HIDE DEF q
  <2> QED BY <2>1, <2>2, <2>3 DEF LocalsTyped
<1> HIDE DEF q
<1>5. RunTyped(program, q)
  BY <1>1, <1>2, <1>3 DEF RunTyped, Pcs, Frames
<1> QED BY <1>5 DEF q

LEMMA StagesTyped ==
  ASSUME Typed, run.pc = "frame" PROVE Stages \subseteq StagesOf(program) \cup {"end", "raise"}
BY DEF Typed, RunTyped, StagesOf, Stages, ExternalControlStages, PolicyStages, GripperStages, SineStages,
       HandStages, Programs, Policies, EndEffectors, Frames

\* Most steps change the run alone.
LEMMA RunStepTyped ==
  ASSUME Typed, RunTyped(program, run'), UNCHANGED <<program, clock, session, pending, world>>
  PROVE  Typed'
BY DEF Typed, ClockTyped

LEMMA FrameStepTyped ==
  ASSUME Typed, FrameStep PROVE Typed'
<1> USE WindowAssumption, LongestIsLonger
<1>1. ASSUME CheckStatus PROVE Typed'
  <2>1. RunTyped(program, run')
    BY <1>1, OnwardTyped, FailTyped DEF CheckStatus, Typed
  <2> QED BY <1>1, <2>1, RunStepTyped DEF CheckStatus
<1>2. ASSUME ReadState PROVE Typed'
  <2>1. PICK arrival \in Arrivals, calm \in BOOLEAN :
          /\ run' = IF Stale(arrival) THEN Fail(run)
                    ELSE [Onward(run) EXCEPT !.calm = calm,
                                            !.repeats = IF Advances(arrival) THEN 0 ELSE @]
          /\ clock' = [clock EXCEPT !.age = IF Advances(arrival) THEN 0 ELSE @,
                                    !.unrest = IF calm THEN @ ELSE 0]
    BY <1>2 DEF ReadState
  <2>2. RunTyped(program, run')
    <3>1. CASE Stale(arrival)
      BY <2>1, <3>1, FailTyped DEF Typed
    <3>2. CASE ~Stale(arrival)
      <4> DEFINE r == Onward(run)
      <4>1. RunTyped(program, r)
        BY OnwardTyped DEF Typed
      <4>2. run' = [r EXCEPT !.calm = calm, !.repeats = IF Advances(arrival) THEN 0 ELSE @]
        BY <2>1, <3>2
      <4> HIDE DEF r
      <4> QED BY <4>1, <4>2 DEF RunTyped, SessionTyped, LocalsTyped, RunFields
    <3> QED BY <3>1, <3>2
  <2>3. ClockTyped'
    <3> DEFINE age == IF Advances(arrival) THEN 0 ELSE clock.age
               unrest == IF calm THEN clock.unrest ELSE 0
    <3>1. age \in 0 .. Window /\ unrest \in 0 .. Longest
      BY DEF Typed, ClockTyped
    <3>2. clock' = [clock EXCEPT !.age = age, !.unrest = unrest]
      BY <2>1
    <3> HIDE DEF age, unrest
    <3> QED BY <3>1, <3>2 DEF Typed, ClockTyped
  <2> QED BY <1>2, <2>2, <2>3 DEF ReadState, Typed
<1>3. ASSUME CheckWindow PROVE Typed'
  <2>1. RunTyped(program, run')
    BY <1>3, OnwardTyped, FailTyped DEF CheckWindow, Typed
  <2> QED BY <1>3, <2>1, RunStepTyped DEF CheckWindow
<1>4. ASSUME ReadNewer PROVE Typed'
  <2>1. RunTyped(program, run')
    <3>1. CASE run' = Leave(run)
      BY <3>1, LeaveTyped DEF Typed
    <3>2. ASSUME NEW arrival, run' = [Onward(run) EXCEPT !.repeats = IF arrival = "newer" THEN 0 ELSE @]
          PROVE  RunTyped(program, run')
      <4> DEFINE r == Onward(run)
      <4>1. RunTyped(program, r)
        BY OnwardTyped DEF Typed
      <4>2. run' = [r EXCEPT !.repeats = IF arrival = "newer" THEN 0 ELSE @]
        BY <3>2
      <4> HIDE DEF r
      <4> QED BY <4>1, <4>2 DEF RunTyped, SessionTyped, LocalsTyped, RunFields
    <3> QED BY <1>4, <3>1, <3>2 DEF ReadNewer
  <2> QED BY <1>4, <2>1, RunStepTyped DEF ReadNewer
<1>5. ASSUME Infer PROVE Typed'
  <2> DEFINE r == Onward(run)
  <2>1. RunTyped(program, r)
    BY OnwardTyped DEF Typed
  <2>2. run' = [r EXCEPT !.lost = Lost(program)]
    BY <1>5 DEF Infer
  <2>3. Lost(program) \in BOOLEAN
    BY DEF Lost
  <2> HIDE DEF r
  <2>4. RunTyped(program, run')
    BY <2>1, <2>2, <2>3 DEF RunTyped, SessionTyped, LocalsTyped, RunFields
  <2> QED BY <1>5, <2>4, RunStepTyped DEF Infer
<1>6. ASSUME CheckStop PROVE Typed'
  <2>1. RunTyped(program, run')
    BY <1>6, OnwardTyped, LeaveTyped DEF CheckStop, Typed
  <2> QED BY <1>6, <2>1, RunStepTyped DEF CheckStop
<1>7. ASSUME PublishFrame PROVE Typed'
  <2>1. RunTyped(program, run')
    <3>1. CASE session = "gone"
      BY <1>7, <3>1, FailTyped DEF PublishFrame, Typed
    <3>2. CASE session # "gone"
      <4> DEFINE r == Onward(run)
      <4>1. RunTyped(program, r)
        BY OnwardTyped DEF Typed
      <4>2. run' = [r EXCEPT !.repeats = IF @ <= MostRepeats THEN @ + 1 ELSE @]
        BY <1>7, <3>2 DEF PublishFrame
      <4> HIDE DEF r
      <4> QED BY <4>1, <4>2 DEF RunTyped, SessionTyped, LocalsTyped, RunFields
    <3> QED BY <3>1, <3>2
  <2> QED BY <1>7, <2>1, RunStepTyped DEF PublishFrame
<1>8. ASSUME Pace PROVE Typed'
  <2>1. RunTyped(program, run') /\ ClockTyped'
    BY <1>8, OnwardTyped DEF Pace, Typed, ClockTyped
  <2> QED BY <1>8, <2>1 DEF Pace, Typed
<1>9. ASSUME Keep PROVE Typed'
  <2>1. RunTyped(program, run')
    BY <1>9, OnwardTyped DEF Keep, Typed
  <2>2. Kept \in 0 .. Period /\ 0 \in 0 .. Period
    BY DEF Kept, Typed, ClockTyped
  <2>3. clock' = [clock EXCEPT !.due = Kept, !.late = 0]
    BY <1>9 DEF Keep
  <2>4. ClockTyped'
    BY <2>2, <2>3 DEF Typed, ClockTyped
  <2> QED BY <1>9, <2>1, <2>4 DEF Keep, Typed
<1>10. ASSUME SettleDwell PROVE Typed'
  <2>1. Settling(run.calm).settled \in BOOLEAN /\ Settling(run.calm).since \in 0 .. Longest
    <3>1. run.calm \in BOOLEAN /\ run.timing \in BOOLEAN /\ run.settled \in BOOLEAN
      BY DEF Typed, RunTyped, LocalsTyped
    <3>2. clock.since \in 0 .. Longest
      BY DEF Typed, ClockTyped
    <3>3. CASE ~run.calm
      <4>1. Settling(run.calm) = [since |-> 0, settled |-> FALSE]
        BY <3>3 DEF Settling
      <4> QED BY <4>1
    <3>4. CASE run.calm /\ ~run.timing
      BY <3>1, <3>4 DEF Settling
    <3>5. CASE run.calm /\ run.timing
      <4>1. Settling(run.calm) = [since |-> clock.since, settled |-> run.settled \/ clock.since >= Settle]
        BY <3>5 DEF Settling
      <4> QED BY <3>2, <4>1
    <3> QED BY <3>1, <3>3, <3>4, <3>5
  <2> DEFINE r == Onward(run)
  <2>2. RunTyped(program, r) /\ run.calm \in BOOLEAN
    BY OnwardTyped DEF Typed, RunTyped, LocalsTyped
  <2>3. run' = [r EXCEPT !.timing = run.calm, !.settled = Settling(run.calm).settled]
    BY <1>10 DEF SettleDwell
  <2>4. ClockTyped'
    BY <1>10, <2>1 DEF SettleDwell, Typed, ClockTyped
  <2> HIDE DEF r
  <2>5. RunTyped(program, run')
    BY <2>1, <2>2, <2>3 DEF RunTyped, SessionTyped, LocalsTyped, RunFields
  <2> QED BY <1>10, <2>4, <2>5 DEF SettleDwell, Typed
<1>11. ASSUME ReadFeedback PROVE Typed'
  <2>1. PICK seen \in [SidesOf(program) -> {"enabled", "inhibited", "fault"}] :
          run' = IF Refused(seen) THEN Fail(run)
                 ELSE [Onward(run) EXCEPT !.read = seen, !.unwritten = SidesOf(program)]
    BY <1>11 DEF ReadFeedback
  <2>2. RunTyped(program, run')
    <3>1. CASE Refused(seen)
      BY <2>1, <3>1, FailTyped DEF Typed
    <3>2. CASE ~Refused(seen)
      <4> DEFINE r == Onward(run)
      <4>1. RunTyped(program, r)
        BY OnwardTyped DEF Typed
      <4>2. run' = [r EXCEPT !.read = seen, !.unwritten = SidesOf(program)]
        BY <2>1, <3>2
      <4> HIDE DEF r
      <4> QED BY <4>1, <4>2 DEF RunTyped, SessionTyped, LocalsTyped, RunFields
    <3> QED BY <3>1, <3>2
  <2> QED BY <1>11, <2>2, RunStepTyped DEF ReadFeedback
<1>12. ASSUME WriteTarget PROVE Typed'
  <2>1. PICK side \in run.unwritten : /\ pending' = pending \cup {side}
                                      /\ run' = [run EXCEPT !.unwritten = @ \ {side}]
    BY <1>12 DEF WriteTarget
  <2>2. RunTyped(program, run')
    BY <2>1 DEF Typed, RunTyped, SessionTyped, LocalsTyped, RunFields
  <2>3. pending' \subseteq SidesOf(program)
    BY <2>1 DEF Typed, RunTyped, LocalsTyped
  <2> QED BY <1>12, <2>2, <2>3 DEF WriteTarget, Typed, ClockTyped
<1>13. ASSUME TargetsWritten PROVE Typed'
  <2>1. RunTyped(program, run')
    BY <1>13, OnwardTyped DEF TargetsWritten, Typed
  <2> QED BY <1>13, <2>1, RunStepTyped DEF TargetsWritten
<1>14. ASSUME FrameEnds PROVE Typed'
  <2>1. PICK stage \in Stages : run' = CASE stage = "end" -> Leave(run)
                                         [] stage = "raise" -> Fail(run)
                                         [] OTHER -> NewFrame(run, stage)
    BY <1>14 DEF FrameEnds
  <2>2. stage \in StagesOf(program) \cup {"end", "raise"}
    BY <1>14, StagesTyped DEF FrameEnds
  <2>3. RunTyped(program, run')
    BY <2>1, <2>2, LeaveTyped, FailTyped, NewFrameTyped DEF Typed
  <2> QED BY <1>14, <2>3, RunStepTyped DEF FrameEnds
<1>15. ASSUME FrameBegins PROVE Typed'
  <2>1. RunTyped(program, [run EXCEPT !.pc = "frame"]) \/ run' = Leave(run)
    BY <1>15 DEF FrameBegins, Typed, RunTyped, SessionTyped, LocalsTyped, RunFields, Pcs, Frames
  <2>2. RunTyped(program, run')
    BY <1>15, <2>1, LeaveTyped DEF FrameBegins, Typed
  <2> QED BY <1>15, <2>2, RunStepTyped DEF FrameBegins
<1> QED BY <1>1, <1>2, <1>3, <1>4, <1>5, <1>6, <1>7, <1>8, <1>9, <1>10, <1>11, <1>12, <1>13, <1>14, <1>15
        DEF FrameStep

LEMMA PreflightTyped ==
  ASSUME Typed, Preflight PROVE Typed'
<1> USE WindowAssumption, LongestIsLonger
<1>1. ASSUME CheckRoster \/ CheckLimits \/ SetTouch \/ LeaveOut PROVE Typed'
  <2>1. RunTyped(program, run')
    BY <1>1, OnwardTyped DEF CheckRoster, CheckLimits, SetTouch, LeaveOut, Passes, Typed
  <2> QED BY <1>1, <2>1, RunStepTyped DEF CheckRoster, CheckLimits, SetTouch, LeaveOut, Passes
<1>2. ASSUME OpenNext PROVE Typed'
  <2> DEFINE r == Onward(run)
  <2>1. RunTyped(program, r)
    BY OnwardTyped DEF Typed
  <2>2. run' = [r EXCEPT !.open = @ \cup {Spot}] /\ Spot \in Resources
    BY <1>2 DEF OpenNext
  <2> HIDE DEF r
  <2>3. RunTyped(program, run')
    BY <2>1, <2>2 DEF RunTyped, SessionTyped, LocalsTyped, RunFields
  <2> QED BY <1>2, <2>3, RunStepTyped DEF OpenNext
<1>3. ASSUME WarmUp \/ EraseHistory PROVE Typed'
  <2> DEFINE r == Onward(run)
  <2>1. RunTyped(program, r)
    BY OnwardTyped DEF Typed
  <2>2. PICK warm \in BOOLEAN : run' = [r EXCEPT !.warm = warm]
    BY <1>3 DEF WarmUp, EraseHistory, Erased
  <2> HIDE DEF r
  <2>3. RunTyped(program, run')
    BY <2>1, <2>2 DEF RunTyped, SessionTyped, LocalsTyped, RunFields
  <2> QED BY <1>3, <2>3, RunStepTyped DEF WarmUp, EraseHistory
<1>4. ASSUME WaitAtRest PROVE Typed'
  <2>1. ASSUME NEW calm \in BOOLEAN,
               run' = [run EXCEPT !.timing = StillTimed(calm) /\ ~AtRest(calm),
                                  !.step = IF AtRest(calm) THEN @ + 1 ELSE @],
               clock' = [clock EXCEPT !.age = 0, !.since = IF StillTimed(calm) /\ run.timing THEN @ ELSE 0,
                                      !.unrest = IF calm THEN @ ELSE 0],
               UNCHANGED <<program, session, pending, world>>
        PROVE  Typed'
    <3> DEFINE timing == StillTimed(calm) /\ ~AtRest(calm)
               step == IF AtRest(calm) THEN run.step + 1 ELSE run.step
               since == IF StillTimed(calm) /\ run.timing THEN clock.since ELSE 0
               unrest == IF calm THEN clock.unrest ELSE 0
    <3>1. timing \in BOOLEAN /\ step \in Nat \ {0}
      BY DEF Typed, RunTyped, StillTimed
    <3>2. since \in 0 .. Longest /\ unrest \in 0 .. Longest /\ 0 \in 0 .. Window
      BY DEF Typed, ClockTyped
    <3>3. /\ run' = [run EXCEPT !.timing = timing, !.step = step]
          /\ clock' = [clock EXCEPT !.age = 0, !.since = since, !.unrest = unrest]
      BY <2>1
    <3> HIDE DEF timing, step, since, unrest
    <3>4. RunTyped(program, run')
      BY <3>1, <3>3 DEF Typed, RunTyped, SessionTyped, LocalsTyped, RunFields
    <3>5. ClockTyped'
      BY <3>2, <3>3 DEF Typed, ClockTyped
    <3> QED BY <2>1, <3>4, <3>5 DEF Typed
  <2>2. ASSUME run' = Fail(run), UNCHANGED <<program, clock, session, pending, world>>
        PROVE  Typed'
    BY <2>2, FailTyped, RunStepTyped DEF Typed
  <2> QED BY <1>4, <2>1, <2>2 DEF WaitAtRest
<1>5. ASSUME ReadFirst PROVE Typed'
  <2>1. RunTyped(program, run')
    BY <1>5, OnwardTyped, LeaveTyped DEF ReadFirst, Typed
  <2> QED BY <1>5, <2>1, RunStepTyped DEF ReadFirst
<1>6. ASSUME PreflightPasses PROVE Typed'
  <2>1. RunTyped(program, run')
    BY <1>6 DEF PreflightPasses, Typed, RunTyped, SessionTyped, LocalsTyped, RunFields, Pcs, Frames
  <2> QED BY <1>6, <2>1, RunStepTyped DEF PreflightPasses
<1> QED BY <1>1, <1>2, <1>3, <1>4, <1>5, <1>6 DEF Preflight

LEMMA SessionStepTyped ==
  ASSUME Typed, StopBeforeEnter \/ Enter \/ Entered \/ ReadAfterEntry \/ TakeBaseline PROVE Typed'
<1> USE WindowAssumption, LongestIsLonger
<1>1. ASSUME StopBeforeEnter PROVE Typed'
  BY <1>1, LeaveTyped, RunStepTyped DEF StopBeforeEnter, Typed
<1>2. ASSUME Enter PROVE Typed'
  <2> DEFINE r == [run EXCEPT !.attempted = program \in AttemptsFirst, !.begun = TRUE, !.request = TRUE]
  <2>1. RunTyped(program, r)
    BY DEF Typed, RunTyped, SessionTyped, LocalsTyped, RunFields
  <2>2. \/ run' = [r EXCEPT !.pc = "entered"] /\ session' = "entered"
        \/ run' = [Fail(r) EXCEPT !.cancelled = TRUE] /\ session' = session
    BY <1>2 DEF Enter
  <2> HIDE DEF r
  <2>3. RunTyped(program, [r EXCEPT !.pc = "entered"])
    BY <2>1 DEF RunTyped, SessionTyped, LocalsTyped, RunFields, Pcs, Frames, Ended
  <2>4. RunTyped(program, [Fail(r) EXCEPT !.cancelled = TRUE])
    <3> DEFINE f == Fail(r)
    <3>1. RunTyped(program, f)
      BY <2>1, FailTyped
    <3> HIDE DEF f
    <3>2. RunTyped(program, [f EXCEPT !.cancelled = TRUE])
      BY <3>1 DEF RunTyped, SessionTyped, LocalsTyped, RunFields
    <3> QED BY <3>2 DEF f
  <2>5. session' \in SessionStates
    BY <2>2 DEF Typed, SessionStates
  <2>6. RunTyped(program, run')
    BY <2>2, <2>3, <2>4
  <2> QED BY <1>2, <2>5, <2>6 DEF Enter, Typed, ClockTyped
<1>3. ASSUME Entered PROVE Typed'
  <2> DEFINE pc == IF \/ program \in {"velocity", "wbc"}
                      \/ program \in EndEffectors /\ FirstStage = "body"
                   THEN "warm" ELSE "pace"
  <2>1. run' = [run EXCEPT !.attempted = TRUE, !.stage = FirstStage, !.pc = pc]
    BY <1>3 DEF Entered
  <2>2. FirstStage \in StagesOf(program)
    BY DEF FirstStage, StagesOf, Typed, Programs, Policies, EndEffectors
  <2>3. pc \in Frames
    BY DEF Frames
  <2> HIDE DEF pc
  <2>4. RunTyped(program, run')
    BY <2>1, <2>2, <2>3 DEF Typed, RunTyped, SessionTyped, LocalsTyped, RunFields, Pcs
  <2>5. ClockTyped'
    BY <1>3 DEF Entered, NewClock, ClockTyped
  <2> QED BY <1>3, <2>4, <2>5 DEF Entered, Typed
<1>4. ASSUME ReadAfterEntry PROVE Typed'
  <2>1. \A pc \in {"baseline", "pace"} : RunTyped(program, [run EXCEPT !.pc = pc]) \/ run.pc # "warm"
    BY DEF Typed, RunTyped, SessionTyped, LocalsTyped, RunFields, Pcs, Frames
  <2>2. RunTyped(program, run')
    BY <1>4, <2>1, LeaveTyped DEF ReadAfterEntry, Typed
  <2>3. ClockTyped'
    BY <1>4 DEF ReadAfterEntry, Typed, ClockTyped
  <2> QED BY <1>4, <2>2, <2>3 DEF ReadAfterEntry, Typed
<1>5. ASSUME TakeBaseline PROVE Typed'
  <2>1. RunTyped(program, run') /\ session' \in SessionStates
    <3>1. CASE run' = Fail(run) /\ session' = session
      BY <3>1, FailTyped DEF Typed
    <3>2. CASE /\ run' = [run EXCEPT !.pc = "pace", !.foreign = session = "gone"]
               /\ session' = IF session = "gone" THEN "gone" ELSE "entered"
      <4> DEFINE foreign == session = "gone"
      <4>1. foreign \in BOOLEAN /\ run' = [run EXCEPT !.pc = "pace", !.foreign = foreign]
        BY <3>2
      <4> HIDE DEF foreign
      <4>2. run.stage \in StagesOf(program)
        BY <1>5 DEF TakeBaseline, Typed, RunTyped, Frames
      <4> QED BY <3>2, <4>1, <4>2 DEF Typed, RunTyped, SessionTyped, LocalsTyped, RunFields, Pcs, Frames,
                   SessionStates
    <3> QED BY <1>5, <3>1, <3>2 DEF TakeBaseline
  <2> QED BY <1>5, <2>1 DEF TakeBaseline, Typed, ClockTyped
<1> QED BY <1>1, <1>2, <1>3, <1>4, <1>5

LEMMA EndStepTyped ==
  ASSUME Typed, CleanUp \/ Exit \/ Confirm \/ Close \/ Done PROVE Typed'
<1> USE WindowAssumption, LongestIsLonger
<1>1. ASSUME CleanUp PROVE Typed'
  <2>1. RunTyped(program, run')
    BY <1>1 DEF CleanUp, Typed, RunTyped, SessionTyped, LocalsTyped, RunFields, Pcs, Frames, Ended
  <2>2. ClockTyped'
    BY <1>1 DEF CleanUp, NewClock, ClockTyped
  <2> QED BY <1>1, <2>1, <2>2 DEF CleanUp, Typed
<1>2. ASSUME Exit PROVE Typed'
  <2>1. RunTyped(program, run')
    BY <1>2 DEF Exit, Typed, RunTyped, SessionTyped, LocalsTyped, RunFields, Pcs, Frames, Ended
  <2> QED BY <1>2, <2>1, RunStepTyped DEF Exit
<1>3. ASSUME Confirm PROVE Typed'
  <2>1. RunTyped(program, run')
    <3>1. ASSUME NEW actual \in {"PASSIVE", "other"},
                 run' = [run EXCEPT !.pc = "close", !.request = FALSE, !.actual = actual,
                           !.outcome = IF RequiresPassive /\ actual # "PASSIVE" /\ @ = "ok"
                                       THEN "error" ELSE @]
          PROVE  RunTyped(program, run')
      <4> DEFINE outcome == IF RequiresPassive /\ actual # "PASSIVE" /\ run.outcome = "ok"
                            THEN "error" ELSE run.outcome
      <4>1. outcome \in {"none", "ok", "error", "interrupted"}
        BY DEF Typed, RunTyped
      <4>2. run' = [run EXCEPT !.pc = "close", !.request = FALSE, !.actual = actual, !.outcome = outcome]
        BY <3>1
      <4> HIDE DEF outcome
      <4> QED BY <4>1, <4>2 DEF Typed, RunTyped, SessionTyped, LocalsTyped, RunFields, Pcs, Frames, Ended
    <3>2. ASSUME run' = [run EXCEPT !.pc = "close", !.outcome = IF @ = "ok" THEN "error" ELSE @]
          PROVE  RunTyped(program, run')
      BY <3>2 DEF Typed, RunTyped, SessionTyped, LocalsTyped, RunFields, Pcs, Frames, Ended
    <3> QED BY <1>3, <3>1, <3>2 DEF Confirm
  <2> QED BY <1>3, <2>1 DEF Confirm, Typed, ClockTyped, SessionStates
<1>4. ASSUME Close PROVE Typed'
  <2>1. PICK outcome \in {run.outcome, Worse(run.outcome)} :
          run' = [run EXCEPT !.open = @ \ ClosedWith(ClosedNext), !.outcome = outcome,
                             !.cancelled = @ \/ (ClosedNext = "controller" /\ CloseCancels)]
    BY <1>4 DEF Close
  <2> DEFINE cancelled == run.cancelled \/ (ClosedNext = "controller" /\ CloseCancels)
  <2>2. outcome \in {"none", "ok", "error", "interrupted"}
    BY DEF Typed, RunTyped, Worse
  <2>3. cancelled \in BOOLEAN
    OBVIOUS
  <2>4. run' = [run EXCEPT !.open = @ \ ClosedWith(ClosedNext), !.outcome = outcome, !.cancelled = cancelled]
    BY <2>1
  <2> HIDE DEF cancelled
  <2>5. RunTyped(program, run')
    BY <2>2, <2>3, <2>4 DEF Typed, RunTyped, SessionTyped, LocalsTyped, RunFields
  <2> QED BY <1>4, <2>5 DEF Close, Typed, ClockTyped, SessionStates
<1>5. ASSUME Done PROVE Typed'
  <2>1. RunTyped(program, run')
    BY <1>5 DEF Done, Typed, RunTyped, SessionTyped, LocalsTyped, RunFields, Pcs, Frames, Ended
  <2> QED BY <1>5, <2>1, RunStepTyped DEF Done
<1> QED BY <1>1, <1>2, <1>3, <1>4, <1>5

LEMMA WorldStepTyped ==
  ASSUME Typed, WorldStep \/ GivesUp \/ Raises \/ PreflightRaises PROVE Typed'
<1>1. ASSUME SessionChanges PROVE Typed'
  <2>1. session' \in SessionStates
    BY <1>1 DEF SessionChanges, SessionStates, Typed
  <2> QED BY <1>1, <2>1 DEF SessionChanges, Typed, ClockTyped
<1>2. ASSUME NEW side \in pending, Accepts(side) PROVE Typed'
  BY <1>2 DEF Accepts, Typed, ClockTyped
<1>3. ASSUME StopSignal \/ FallsSilent PROVE Typed'
  BY <1>3 DEF StopSignal, FallsSilent, Typed, ClockTyped
<1>4. ASSUME Interrupt PROVE Typed'
  <2>1. PICK place \in {"close", "cleanup"} :
          run' = [Forgotten(run) EXCEPT !.pc = place, !.outcome = "interrupted"]
    BY <1>4 DEF Interrupt
  <2> DEFINE f == Forgotten(run)
  <2>2. DOMAIN f = RunFields /\ SameSession(f, run) /\ NoLocals(f)
    BY Forgets DEF Typed, RunTyped
  <2>3. SessionTyped(f) /\ LocalsTyped(program, f) /\ f.step = 1
    <3>1. SessionTyped(f)
      BY <2>2, SameSessionTyped DEF Typed, RunTyped
    <3> QED BY <2>2, <3>1, NoLocalsTyped DEF NoLocals
  <2>4. run' = [f EXCEPT !.pc = place, !.outcome = "interrupted"]
    BY <2>1
  <2> HIDE DEF f
  <2>5. RunTyped(program, run')
    BY <2>2, <2>3, <2>4 DEF RunTyped, SessionTyped, LocalsTyped, RunFields, Pcs, Frames, Ended
  <2>6. world' \in [stop : BOOLEAN, interrupts : Nat, silent : BOOLEAN]
    BY <1>4 DEF Interrupt, Typed
  <2> QED BY <1>4, <2>5, <2>6 DEF Interrupt, Typed, ClockTyped
<1>5. ASSUME GivesUp \/ Raises \/ PreflightRaises PROVE Typed'
  BY <1>5, FailTyped, RunStepTyped DEF GivesUp, Raises, PreflightRaises, Typed
<1> QED BY <1>1, <1>2, <1>3, <1>4, <1>5 DEF WorldStep

LEMMA TickTyped ==
  ASSUME Typed, Tick PROVE Typed'
<1> USE WindowAssumption, LongestIsLonger
<1>1. \A limit \in Nat : \A t \in 0 .. limit : Grown(t, limit) \in 0 .. limit
  BY DEF Grown
<1>2. /\ clock.age \in 0 .. Window /\ clock.since \in 0 .. Longest /\ clock.unrest \in 0 .. Longest
      /\ clock.due \in 0 .. Period /\ clock.late \in 0 .. Period
  BY DEF Typed, ClockTyped
<1>3. clock'.age \in 0 .. Window /\ clock'.since \in 0 .. Longest /\ clock'.unrest \in 0 .. Longest
  <2>1. clock'.age \in {0, Grown(clock.age, Window)} /\ clock'.since \in {0, Grown(clock.since, Longest)}
    BY DEF Tick
  <2>2. clock'.unrest \in {0, clock.unrest, Grown(clock.unrest, Longest)}
    BY DEF Tick
  <2>3. /\ Grown(clock.age, Window) \in 0 .. Window /\ Grown(clock.since, Longest) \in 0 .. Longest
        /\ Grown(clock.unrest, Longest) \in 0 .. Longest
    BY <1>1, <1>2
  <2> QED BY <1>2, <2>1, <2>2, <2>3
<1>4. clock'.due \in 0 .. Period /\ clock'.late \in 0 .. Period
  BY <1>2 DEF Tick
<1>5. clock' = [age |-> clock'.age, due |-> clock'.due, late |-> clock'.late, since |-> clock'.since,
                unrest |-> clock'.unrest]
  BY DEF Tick
<1>6. ClockTyped'
  BY <1>3, <1>4, <1>5 DEF ClockTyped
<1> QED BY <1>6 DEF Tick, Typed

LEMMA TypedStep ==
  ASSUME Typed, [ProgramNext]_programVars PROVE Typed'
<1>1. CASE UNCHANGED programVars
  BY <1>1 DEF programVars, Typed, ClockTyped
<1>2. CASE ProgramNext
  BY <1>2, PreflightTyped, FrameStepTyped, SessionStepTyped, EndStepTyped, WorldStepTyped, TickTyped
  DEF ProgramNext, ProgramStep
<1> QED BY <1>1, <1>2

LEMMA TypedInit == ProgramInit => Typed
<1> SUFFICES ASSUME ProgramInit PROVE Typed
  OBVIOUS
<1>1. RunTyped(program, run)
  BY DEF ProgramInit, RunTyped, SessionTyped, LocalsTyped, RunFields, Pcs, Frames
<1>2. ClockTyped
  BY WindowAssumption, LongestIsLonger DEF ProgramInit, NewClock, ClockTyped
<1> QED BY <1>1, <1>2 DEF ProgramInit, Typed, SessionStates

LEMMA AlwaysTyped == ProgramSpec => []Typed
BY TypedInit, TypedStep, PTL DEF ProgramSpec

-----------------------------------------------------------------------------
(* The moves of a run: what a step does to the session and to what is open *)

\* Another step at the same place, or from frame to frame.
Continues ==
  /\ run'.pc = run.pc \/ (run.pc \in Frames /\ run'.pc \in Frames)
  /\ run'.outcome = run.outcome /\ SameSession(run', run)
  /\ pending' \subseteq pending \/ run.pc = "frame"

Opens ==
  /\ run.pc = "preflight" /\ run'.pc = "preflight" /\ run'.outcome = run.outcome
  /\ Spot \in Resources /\ run'.open = run.open \cup {Spot}
  /\ run'.begun = run.begun /\ run'.cancelled = run.cancelled
  /\ pending' = pending

ToEnter ==
  /\ run.pc = "preflight" /\ run.step > Len(Opening) /\ run'.pc = "enter"
  /\ run'.outcome = run.outcome /\ SameSession(run', run) /\ pending' = pending

\* A gripper program ends well when its targets are accepted.
Ends ==
  /\ run.pc \in {"preflight", "enter", "entered"} \cup Frames /\ run'.pc = "cleanup"
  /\ run'.outcome \in {"ok", "error", "interrupted"} /\ SameSession(run', run)
  /\ run'.outcome = "ok" => run.pc # "entered" /\ (program \in {"gripper", "sine"} => pending = {})
  /\ pending' = pending

Begins ==
  /\ run.pc = "enter" /\ run'.begun /\ run'.request /\ run'.open = run.open /\ pending' = pending
  /\ \/ run'.pc = "entered" /\ run'.outcome = run.outcome
     \/ run'.pc = "cleanup" /\ run'.outcome = "error" /\ run'.cancelled

Attempts ==
  /\ run.pc = "entered" /\ run'.pc \in Frames /\ run'.attempted /\ run'.outcome = run.outcome
  /\ run'.begun = run.begun /\ run'.request = run.request /\ run'.cancelled = run.cancelled
  /\ run'.open = run.open /\ pending' = pending

ToExit ==
  /\ run.pc = "cleanup" /\ run'.pc = (IF run.attempted THEN "exit" ELSE "close")
  /\ run'.outcome = run.outcome /\ SameSession(run', run) /\ pending' = pending

Cancels ==
  /\ run.pc = "exit" /\ run'.pc = "confirm" /\ run'.cancelled /\ run'.open = run.open
  /\ run'.outcome = run.outcome /\ run'.begun = run.begun /\ pending' = pending

\* What may be seen of the robot after a program that ended well.
MayEnd == {"PASSIVE"} \cup (IF program = "velocity" THEN {"other"} ELSE {})

Confirms ==
  /\ run.pc = "confirm" /\ run'.pc = "close" /\ run'.open = run.open
  /\ run'.begun = run.begun /\ run'.cancelled = run.cancelled /\ pending' = pending
  /\ run'.outcome = "none" <=> run.outcome = "none"
  /\ run'.outcome = "ok" => run.outcome = "ok" /\ run'.actual \in MayEnd

Closes ==
  /\ run.pc = "close" /\ run'.pc = "close" /\ Opened # {}
  /\ run'.open = run.open \ ClosedWith(ClosedNext)
  /\ run'.begun = run.begun /\ run'.request = run.request /\ run'.actual = run.actual
  /\ run'.cancelled <=> run.cancelled \/ (ClosedNext = "controller" /\ run.request)
  /\ run'.outcome = "none" <=> run.outcome = "none"
  /\ run'.outcome = "ok" => run.outcome = "ok"
  /\ pending' = pending

Finishes ==
  /\ run.pc = "close" /\ run'.pc = "done" /\ Opened = {}
  /\ run'.outcome = run.outcome /\ SameSession(run', run) /\ pending' = pending

\* An interrupt in the finally.
IsCutShort ==
  /\ run.pc \in {"cleanup", "exit", "confirm"} /\ run'.pc \in {"close", "cleanup"}
  /\ run'.outcome = "interrupted" /\ SameSession(run', run) /\ pending' = pending

Moves == \/ Continues \/ Opens \/ ToEnter \/ Ends \/ Begins \/ Attempts \/ ToExit \/ Cancels
         \/ Confirms \/ Closes \/ Finishes \/ IsCutShort

StopsPolicies == world.stop => program \in Policies

LEMMA FailEnds ==
  ASSUME Typed, run' = Fail(run), run.pc \in {"preflight"} \cup Frames, pending' = pending
  PROVE  Ends
BY Fails DEF Ends, Typed, RunTyped

LEMMA LeaveEnds ==
  ASSUME Typed, run' = Leave(run), run.pc \in {"preflight", "enter"} \cup Frames, pending' = pending,
         program \in {"gripper", "sine"} => pending = {}
  PROVE  Ends
<1>1. Leave(run).pc = "cleanup" /\ Leave(run).outcome = "ok" /\ SameSession(Leave(run), run)
  BY Leaves DEF Typed, RunTyped
<1>2. run.pc # "entered"
  BY DEF Frames
<1> QED BY <1>1, <1>2 DEF Ends

LEMMA OnwardContinues ==
  ASSUME Typed, run' = Onward(run), pending' = pending PROVE Continues
<1> DEFINE r == Onward(run)
<1>1. \A f \in RunFields \ {"step"} : r[f] = run[f]
  BY Onwards DEF Typed, RunTyped
<1> HIDE DEF r
<1>2. r.pc = run.pc /\ r.outcome = run.outcome /\ SameSession(r, run)
  BY <1>1 DEF RunFields, SameSession
<1> QED BY <1>2 DEF Continues, r

\* Where a stop is looked at, the program is a policy.
LEMMA StopIsOfPolicy ==
  ASSUME StopsPolicies, world.stop PROVE program \notin {"gripper", "sine"}
BY DEF StopsPolicies, Policies

LEMMA PlaceInFrame == Place # "none" => run.pc = "frame"
BY DEF Place

LEMMA SpotInPreflight == Spot # "none" => run.pc = "preflight"
BY DEF Spot

LEMMA PreflightMoves ==
  ASSUME Typed, Preflight \/ PreflightRaises PROVE Moves
<1>1. ASSUME CheckRoster \/ CheckLimits \/ SetTouch \/ LeaveOut PROVE Moves
  BY <1>1, OnwardContinues DEF CheckRoster, CheckLimits, SetTouch, LeaveOut, Passes, Moves
<1>2. ASSUME OpenNext PROVE Opens
  <2>1. run.pc = "preflight" /\ Spot \in Resources
    BY <1>2, SpotInPreflight DEF OpenNext, Resources
  <2>2. /\ run'.pc = run.pc /\ run'.outcome = run.outcome /\ run'.open = run.open \cup {Spot}
        /\ run'.begun = run.begun /\ run'.cancelled = run.cancelled
    BY <1>2 DEF OpenNext, Onward, Typed, RunTyped, RunFields
  <2> QED BY <1>2, <2>1, <2>2 DEF Opens, OpenNext
<1>3. ASSUME WarmUp \/ EraseHistory PROVE Continues
  BY <1>3 DEF WarmUp, EraseHistory, Onward, Continues, SameSession, Typed, RunTyped, RunFields
<1>4. ASSUME WaitAtRest PROVE Moves
  <2>1. CASE run' = Fail(run)
    BY <1>4, <2>1, FailEnds, SpotInPreflight DEF WaitAtRest, Moves
  <2>2. ASSUME NEW calm, run' = [run EXCEPT !.timing = StillTimed(calm) /\ ~AtRest(calm),
                                            !.step = IF AtRest(calm) THEN @ + 1 ELSE @]
        PROVE  Continues
    BY <1>4, <2>2 DEF WaitAtRest, Continues, SameSession, Typed, RunTyped, RunFields
  <2> QED BY <1>4, <2>1, <2>2 DEF WaitAtRest, Moves
<1>5. ASSUME ReadFirst PROVE Moves
  <2>1. CASE run' = Onward(run)
    BY <1>5, <2>1, OnwardContinues DEF ReadFirst, Moves
  <2>2. CASE program = "wbc" /\ run' = Leave(run)
    BY <1>5, <2>2, LeaveEnds, SpotInPreflight DEF ReadFirst, Moves
  <2> QED BY <1>5, <2>1, <2>2 DEF ReadFirst
<1>6. ASSUME PreflightPasses PROVE ToEnter
  BY <1>6 DEF PreflightPasses, ToEnter, SameSession, Typed, RunTyped, RunFields
<1>7. ASSUME PreflightRaises PROVE Moves
  BY <1>7, FailEnds DEF PreflightRaises, Moves
<1> QED BY <1>1, <1>2, <1>3, <1>4, <1>5, <1>6, <1>7 DEF Preflight, Moves

LEMMA FrameMoves ==
  ASSUME Typed, StopsPolicies, FrameStep \/ GivesUp \/ Raises PROVE Moves
<1> USE DEF Frames
<1>1. ASSUME CheckStatus \/ CheckWindow \/ CheckStop PROVE Moves
  <2>1. run.pc = "frame" /\ pending' = pending
    BY <1>1, PlaceInFrame DEF CheckStatus, CheckWindow, CheckStop
  <2>2. \/ run' = Onward(run) \/ run' = Fail(run)
        \/ run' = Leave(run) /\ world.stop
    BY <1>1 DEF CheckStatus, CheckWindow, CheckStop
  <2> QED BY <2>1, <2>2, OnwardContinues, FailEnds, LeaveEnds, StopIsOfPolicy DEF Moves
<1>2. ASSUME ReadState PROVE Moves
  <2>1. run.pc = "frame" /\ pending' = pending
    BY <1>2, PlaceInFrame DEF ReadState
  <2>2. CASE run' = Fail(run)
    BY <2>1, <2>2, FailEnds DEF Moves
  <2>3. ASSUME NEW arrival, NEW calm,
               run' = [Onward(run) EXCEPT !.calm = calm, !.repeats = IF Advances(arrival) THEN 0 ELSE @]
        PROVE  Continues
    BY <2>1, <2>3 DEF Onward, Continues, SameSession, Typed, RunTyped, RunFields
  <2> QED BY <1>2, <2>2, <2>3 DEF ReadState, Moves
<1>3. ASSUME ReadNewer PROVE Moves
  <2>1. run.pc = "frame" /\ pending' = pending
    BY <1>3, PlaceInFrame DEF ReadNewer
  <2>2. CASE world.stop /\ run' = Leave(run)
    BY <2>1, <2>2, LeaveEnds, StopIsOfPolicy DEF Moves
  <2>3. ASSUME NEW arrival, run' = [Onward(run) EXCEPT !.repeats = IF arrival = "newer" THEN 0 ELSE @]
        PROVE  Continues
    BY <2>1, <2>3 DEF Onward, Continues, SameSession, Typed, RunTyped, RunFields
  <2> QED BY <1>3, <2>2, <2>3 DEF ReadNewer, Moves
<1>4. ASSUME Infer \/ SettleDwell \/ WriteTarget PROVE Continues
  <2>1. run.pc = "frame"
    BY <1>4, PlaceInFrame DEF Infer, SettleDwell, WriteTarget
  <2> QED BY <1>4, <2>1 DEF Infer, SettleDwell, WriteTarget, Onward, Continues, SameSession, Typed, RunTyped,
               RunFields
<1>5. ASSUME PublishFrame PROVE Moves
  <2>1. run.pc = "frame" /\ pending' = pending
    BY <1>5, PlaceInFrame DEF PublishFrame
  <2>2. CASE run' = Fail(run)
    BY <2>1, <2>2, FailEnds DEF Moves
  <2>3. CASE run' = [Onward(run) EXCEPT !.repeats = IF @ <= MostRepeats THEN @ + 1 ELSE @]
    <3>1. Continues
      BY <2>1, <2>3 DEF Onward, Continues, SameSession, Typed, RunTyped, RunFields
    <3> QED BY <3>1 DEF Moves
  <2> QED BY <1>5, <2>2, <2>3 DEF PublishFrame
<1>6. ASSUME Pace \/ Keep \/ TargetsWritten PROVE Moves
  BY <1>6, OnwardContinues DEF Pace, Keep, TargetsWritten, Moves
<1>7. ASSUME ReadFeedback PROVE Moves
  <2>1. run.pc = "frame" /\ pending' = pending
    BY <1>7, PlaceInFrame DEF ReadFeedback
  <2>2. CASE run' = Fail(run)
    BY <2>1, <2>2, FailEnds DEF Moves
  <2>3. ASSUME NEW seen, run' = [Onward(run) EXCEPT !.read = seen, !.unwritten = SidesOf(program)]
        PROVE  Continues
    BY <2>1, <2>3 DEF Onward, Continues, SameSession, Typed, RunTyped, RunFields
  <2> QED BY <1>7, <2>2, <2>3 DEF ReadFeedback, Moves
<1>8. ASSUME FrameEnds PROVE Moves
  <2>1. PICK stage \in Stages : run' = CASE stage = "end" -> Leave(run)
                                         [] stage = "raise" -> Fail(run)
                                         [] OTHER -> NewFrame(run, stage)
    BY <1>8 DEF FrameEnds
  <2>2. run.pc = "frame" /\ pending' = pending
    BY <1>8 DEF FrameEnds
  <2>3. CASE stage = "end"
    <3>1. program \in {"gripper", "sine"} => pending = {}
      BY <2>2, <2>3 DEF Stages, GripperStages, SineStages, Admitted, Policies, Typed, RunTyped, StagesOf
    <3> QED BY <2>1, <2>2, <2>3, <3>1, LeaveEnds DEF Moves
  <2>4. CASE stage = "raise"
    BY <2>1, <2>2, <2>4, FailEnds DEF Moves
  <2>5. CASE stage \notin {"end", "raise"}
    <3>1. run' = NewFrame(run, stage)
      BY <2>1, <2>5
    <3>2. run'.pc = "pace" /\ run'.outcome = run.outcome /\ SameSession(run', run)
      BY <3>1, NewFrames DEF Typed, RunTyped
    <3> QED BY <2>2, <3>2 DEF Continues, Moves
  <2> QED BY <2>3, <2>4, <2>5
<1>9. ASSUME FrameBegins PROVE Moves
  <2>1. CASE program \in Policies /\ run' = Leave(run)
    <3>1. program \notin {"gripper", "sine"}
      BY <2>1 DEF Policies
    <3> QED BY <1>9, <2>1, <3>1, LeaveEnds DEF FrameBegins, Moves
  <2>2. CASE run' = [run EXCEPT !.pc = "frame"]
    <3>1. Continues
      BY <1>9, <2>2 DEF FrameBegins, Continues, SameSession, Typed, RunTyped, RunFields
    <3> QED BY <3>1 DEF Moves
  <2> QED BY <1>9, <2>1, <2>2 DEF FrameBegins
<1>10. ASSUME GivesUp \/ Raises PROVE Moves
  <2>1. run.pc \in Frames /\ run' = Fail(run) /\ pending' = pending
    BY <1>10, PlaceInFrame DEF GivesUp, Raises
  <2> QED BY <2>1, FailEnds DEF Moves
<1> QED BY <1>1, <1>2, <1>3, <1>4, <1>5, <1>6, <1>7, <1>8, <1>9, <1>10 DEF FrameStep, Moves

LEMMA SessionMoves ==
  ASSUME Typed, StopsPolicies, StopBeforeEnter \/ Enter \/ Entered \/ ReadAfterEntry \/ TakeBaseline
  PROVE  Moves
<1>1. ASSUME StopBeforeEnter PROVE Moves
  BY <1>1, LeaveEnds DEF StopBeforeEnter, Moves
<1>2. ASSUME Enter PROVE Begins
  <2> DEFINE r == [run EXCEPT !.attempted = program \in AttemptsFirst, !.begun = TRUE, !.request = TRUE]
  <2>1. /\ DOMAIN r = RunFields /\ r.begun /\ r.request /\ r.open = run.open
        /\ r.outcome = run.outcome
    BY DEF Typed, RunTyped, RunFields
  <2>2. \/ run' = [r EXCEPT !.pc = "entered"]
        \/ run' = [Fail(r) EXCEPT !.cancelled = TRUE]
    BY <1>2 DEF Enter
  <2>3. run.pc = "enter" /\ pending' = pending
    BY <1>2 DEF Enter
  <2> HIDE DEF r
  <2>4. CASE run' = [r EXCEPT !.pc = "entered"]
    BY <2>1, <2>3, <2>4 DEF Begins, RunFields
  <2>5. CASE run' = [Fail(r) EXCEPT !.cancelled = TRUE]
    <3> DEFINE f == Fail(r)
    <3>1. DOMAIN f = RunFields /\ f.pc = "cleanup" /\ f.outcome = "error" /\ SameSession(f, r)
      BY <2>1, Fails
    <3>2. run' = [f EXCEPT !.cancelled = TRUE]
      BY <2>5
    <3> HIDE DEF f
    <3> QED BY <2>1, <2>3, <3>1, <3>2 DEF Begins, RunFields, SameSession
  <2> QED BY <2>2, <2>4, <2>5
<1>3. ASSUME Entered PROVE Attempts
  BY <1>3 DEF Entered, Attempts, Typed, RunTyped, RunFields, Frames
<1>4. ASSUME ReadAfterEntry PROVE Moves
  <2>1. CASE program = "wbc" /\ run' = Leave(run)
    BY <1>4, <2>1, LeaveEnds DEF ReadAfterEntry, Frames, Moves
  <2>2. ASSUME NEW pc \in {"baseline", "pace"}, run' = [run EXCEPT !.pc = pc]
        PROVE  Moves
    <3>1. Continues
      BY <1>4, <2>2 DEF ReadAfterEntry, Continues, SameSession, Typed, RunTyped, RunFields, Frames
    <3> QED BY <3>1 DEF Moves
  <2> QED BY <1>4, <2>1, <2>2 DEF ReadAfterEntry
<1>5. ASSUME TakeBaseline PROVE Moves
  <2>1. CASE run' = Fail(run)
    BY <1>5, <2>1, FailEnds DEF TakeBaseline, Frames, Moves
  <2>2. ASSUME NEW foreign, run' = [run EXCEPT !.pc = "pace", !.foreign = foreign]
        PROVE  Continues
    BY <1>5, <2>2 DEF TakeBaseline, Continues, SameSession, Typed, RunTyped, RunFields, Frames
  <2> QED BY <1>5, <2>1, <2>2 DEF TakeBaseline, Moves
<1> QED BY <1>1, <1>2, <1>3, <1>4, <1>5 DEF Moves

LEMMA EndMoves ==
  ASSUME Typed, CleanUp \/ Exit \/ Confirm \/ Close \/ Done PROVE Moves
<1>1. ASSUME CleanUp PROVE ToExit
  BY <1>1 DEF CleanUp, Exits, ToExit, SameSession, Typed, RunTyped, RunFields
<1>2. ASSUME Exit PROVE Cancels
  BY <1>2 DEF Exit, Cancels, Typed, RunTyped, RunFields
<1>3. ASSUME Confirm PROVE Confirms
  <2>1. ASSUME NEW actual \in {"PASSIVE", "other"},
               run' = [run EXCEPT !.pc = "close", !.request = FALSE, !.actual = actual,
                         !.outcome = IF RequiresPassive /\ actual # "PASSIVE" /\ @ = "ok"
                                     THEN "error" ELSE @]
        PROVE  Confirms
    <3>1. /\ run'.pc = "close" /\ run'.open = run.open /\ run'.actual = actual
          /\ run'.begun = run.begun /\ run'.cancelled = run.cancelled
          /\ run'.outcome = IF RequiresPassive /\ actual # "PASSIVE" /\ run.outcome = "ok"
                            THEN "error" ELSE run.outcome
      BY <2>1 DEF Typed, RunTyped, RunFields
    <3>2. run.pc = "confirm" /\ pending' = pending
      BY <1>3 DEF Confirm
    <3> QED BY <3>1, <3>2 DEF Confirms, MayEnd, RequiresPassive
  <2>2. ASSUME run' = [run EXCEPT !.pc = "close", !.outcome = IF @ = "ok" THEN "error" ELSE @]
        PROVE  Confirms
    BY <1>3, <2>2 DEF Confirm, Confirms, Typed, RunTyped, RunFields
  <2> QED BY <1>3, <2>1, <2>2 DEF Confirm
<1>4. ASSUME Close PROVE Closes
  <2>1. PICK outcome \in {run.outcome, Worse(run.outcome)} :
          run' = [run EXCEPT !.open = @ \ ClosedWith(ClosedNext), !.outcome = outcome,
                             !.cancelled = @ \/ (ClosedNext = "controller" /\ CloseCancels)]
    BY <1>4 DEF Close
  <2>2. run.pc = "close" /\ Opened # {} /\ pending' = pending
    BY <1>4 DEF Close
  <2>3. run'.pc = "close" /\ run'.open = run.open \ ClosedWith(ClosedNext) /\ run'.outcome = outcome
    BY <2>1, <2>2 DEF Typed, RunTyped, RunFields
  <2>4. run'.begun = run.begun /\ run'.request = run.request /\ run'.actual = run.actual
    BY <2>1 DEF Typed, RunTyped, RunFields
  <2>5. run'.cancelled = (run.cancelled \/ (ClosedNext = "controller" /\ run.request))
    BY <2>1 DEF CloseCancels, Typed, RunTyped, RunFields
  <2>6. (outcome = "none" <=> run.outcome = "none") /\ (outcome = "ok" => run.outcome = "ok")
    BY DEF Worse
  <2> QED BY <2>2, <2>3, <2>4, <2>5, <2>6 DEF Closes
<1>5. ASSUME Done PROVE Finishes
  BY <1>5 DEF Done, Finishes, SameSession, Typed, RunTyped, RunFields
<1> QED BY <1>1, <1>2, <1>3, <1>4, <1>5 DEF Moves

LEMMA WorldMoves ==
  ASSUME Typed, WorldStep \/ Tick PROVE Moves
<1>1. ASSUME SessionChanges \/ StopSignal \/ FallsSilent \/ Tick PROVE Continues
  BY <1>1 DEF SessionChanges, StopSignal, FallsSilent, Tick, Continues, SameSession
<1>2. ASSUME NEW side \in pending, Accepts(side) PROVE Continues
  BY <1>2 DEF Accepts, Continues, SameSession
<1>3. ASSUME Interrupt PROVE Ends \/ IsCutShort
  <2>1. PICK place \in IF run.pc \in {"cleanup", "exit", "confirm"} THEN {"close"} ELSE {"cleanup"} :
          run' = [Forgotten(run) EXCEPT !.pc = place, !.outcome = "interrupted"]
    BY <1>3 DEF Interrupt
  <2> DEFINE f == Forgotten(run)
  <2>2. DOMAIN f = RunFields /\ SameSession(f, run)
    BY Forgets DEF Typed, RunTyped
  <2>3. run' = [f EXCEPT !.pc = place, !.outcome = "interrupted"]
    BY <2>1
  <2> HIDE DEF f
  <2>4. run'.pc = place /\ run'.outcome = "interrupted" /\ SameSession(run', run)
    BY <2>2, <2>3 DEF RunFields, SameSession
  <2>5. run.pc \in Pcs /\ run.pc \notin {"close", "done"} /\ pending' = pending
    BY <1>3 DEF Interrupt, Typed, RunTyped
  <2> QED BY <2>1, <2>4, <2>5 DEF Ends, IsCutShort, Pcs, Ended
<1> QED BY <1>1, <1>2, <1>3 DEF WorldStep, Moves

LEMMA ProgramStays ==
  ASSUME [ProgramNext]_programVars PROVE program' = program
BY DEF programVars, ProgramNext, ProgramStep, Preflight, FrameStep, WorldStep, CheckRoster, CheckLimits, SetTouch,
   OpenNext, LeaveOut, Passes, WarmUp, EraseHistory, WaitAtRest, ReadFirst, PreflightPasses, CheckStatus,
   ReadState, CheckWindow, ReadNewer, Infer, CheckStop, PublishFrame, Pace, Keep, SettleDwell,
   ReadFeedback, WriteTarget, TargetsWritten, FrameEnds, FrameBegins, StopBeforeEnter, Enter, Entered,
   ReadAfterEntry, TakeBaseline, CleanUp, Exit, Confirm, Close, Done, GivesUp, Raises, PreflightRaises,
   SessionChanges, Accepts, StopSignal, Interrupt, FallsSilent, Tick

\* Every step is one of the moves.
LEMMA EveryStepMoves ==
  ASSUME Typed, StopsPolicies, [ProgramNext]_programVars PROVE Moves /\ program' = program
<1>1. ASSUME UNCHANGED programVars PROVE Moves
  BY <1>1 DEF programVars, Moves, Continues, SameSession
<1>2. ASSUME ProgramNext PROVE Moves
  BY <1>2, PreflightMoves, FrameMoves, SessionMoves, EndMoves, WorldMoves DEF ProgramNext, ProgramStep
<1> QED BY <1>1, <1>2, ProgramStays

-----------------------------------------------------------------------------
(* The order of opening and of closing *)

\* What each program may open, and what it has opened when it enters.
MayUse(p) == CASE p = "external_control" -> {"controller"}
               [] p = "velocity" -> {"transport", "controller", "log", "joy"}
               [] p = "wbc" -> {"log", "controller", "source"}
               [] p = "teleop" -> {"log", "controller", "joy"}
               [] p \in {"gripper", "sine"} -> {"controller", "clients", "traces"}
               [] p = "hand" -> {"controller", "clients"}

MustOpen(p) == {"controller"} \cup (IF p \in {"velocity", "wbc"} THEN {"log"} ELSE {})

LEMMA SpotIsUsed ==
  ASSUME program \in Programs, run.step \in Nat \ {0}, Spot \in Resources PROVE Spot \in MayUse(program)
<1> USE DEF Spot, Opening, Resources, MayUse, ExternalControlOpening, VelocityOpening, WbcOpening, TeleopOpening,
            GripperOpening, SineOpening, HandOpening
<1>1. CASE program = "external_control" BY <1>1
<1>2. CASE program = "velocity" BY <1>2
<1>3. CASE program = "wbc" BY <1>3
<1>4. CASE program = "teleop" BY <1>4
<1>5. CASE program = "gripper" BY <1>5
<1>6. CASE program = "sine" BY <1>6
<1>7. CASE program = "hand" BY <1>7
<1> QED BY <1>1, <1>2, <1>3, <1>4, <1>5, <1>6, <1>7 DEF Programs, Policies, EndEffectors

\* A controller is opened before what runs on its node.
LEMMA ControllerBefore ==
  ASSUME program \in Programs, run.step \in Nat \ {0}, Spot \in OnNode
  PROVE  \E j \in 1 .. Len(Opening) : j < run.step /\ Opening[j] = "controller"
<1> USE DEF Spot, Opening, OnNode, ExternalControlOpening, VelocityOpening, WbcOpening, TeleopOpening,
            GripperOpening, SineOpening, HandOpening
<1>1. CASE program = "external_control" BY <1>1
<1>2. CASE program = "velocity" BY <1>2
<1>3. CASE program = "wbc" BY <1>3
<1>4. CASE program = "teleop" BY <1>4
<1>5. CASE program = "gripper" BY <1>5
<1>6. CASE program = "sine" BY <1>6
<1>7. CASE program = "hand" BY <1>7
<1> QED BY <1>1, <1>2, <1>3, <1>4, <1>5, <1>6, <1>7 DEF Programs, Policies, EndEffectors

LEMMA MustIsOpening ==
  ASSUME program \in Programs, NEW r \in MustOpen(program)
  PROVE  \E j \in 1 .. Len(Opening) : Opening[j] = r
<1> USE DEF Opening, MustOpen, ExternalControlOpening, VelocityOpening, WbcOpening, TeleopOpening,
            GripperOpening, SineOpening, HandOpening
<1>1. CASE program = "external_control" BY <1>1
<1>2. CASE program = "velocity" BY <1>2
<1>3. CASE program = "wbc" BY <1>3
<1>4. CASE program = "teleop" BY <1>4
<1>5. CASE program = "gripper" BY <1>5
<1>6. CASE program = "sine" BY <1>6
<1>7. CASE program = "hand" BY <1>7
<1> QED BY <1>1, <1>2, <1>3, <1>4, <1>5, <1>6, <1>7 DEF Programs, Policies, EndEffectors

\* The order is total on what is opened, so that one of them is closed next.
LEMMA OneIsClosed ==
  ASSUME program \in Programs, Opened \subseteq MayUse(program), Opened # {}
  PROVE  \E one \in Opened : \A other \in Opened \ {one} : ClosedBefore(one, other)
<1>1. CASE program = "external_control"
  BY <1>1 DEF MayUse
<1>2. CASE program = "velocity"
  <2>1. /\ ClosedBefore("joy", "controller") /\ ClosedBefore("joy", "transport") /\ ClosedBefore("joy", "log")
        /\ ClosedBefore("controller", "transport") /\ ClosedBefore("controller", "log")
        /\ ClosedBefore("transport", "log")
    BY <1>2 DEF ClosedBefore
  <2> QED BY <1>2, <2>1 DEF MayUse
<1>3. CASE program = "wbc"
  <2>1. /\ ClosedBefore("source", "controller") /\ ClosedBefore("source", "log")
        /\ ClosedBefore("controller", "log")
    BY <1>3 DEF ClosedBefore, Opening, WbcOpening
  <2> QED BY <1>3, <2>1 DEF MayUse
<1>4. CASE program = "teleop"
  <2>1. /\ ClosedBefore("joy", "controller") /\ ClosedBefore("joy", "log")
        /\ ClosedBefore("controller", "log")
    BY <1>4 DEF ClosedBefore, Opening, TeleopOpening
  <2> QED BY <1>4, <2>1 DEF MayUse
<1>5. CASE program \in {"gripper", "sine"}
  <2>1. /\ ClosedBefore("traces", "clients") /\ ClosedBefore("traces", "controller")
        /\ ClosedBefore("clients", "controller")
    BY <1>5 DEF ClosedBefore, Opening, GripperOpening, SineOpening
  <2> QED BY <1>5, <2>1 DEF MayUse
<1>6. CASE program = "hand"
  <2>1. ClosedBefore("clients", "controller")
    BY <1>6 DEF ClosedBefore, Opening, HandOpening
  <2> QED BY <1>6, <2>1 DEF MayUse
<1> QED BY <1>1, <1>2, <1>3, <1>4, <1>5, <1>6 DEF Programs, Policies, EndEffectors

LEMMA ClosedNextIsLast ==
  ASSUME program \in Programs, Opened \subseteq MayUse(program), Opened # {}
  PROVE  /\ ClosedNext \in Opened
         /\ \A other \in Opened \ {ClosedNext} : ClosedBefore(ClosedNext, other)
BY OneIsClosed DEF ClosedNext

\* Nothing on a node is closed after the node, and no log before the session's controller.
LEMMA NodeIsNotBefore ==
  ASSUME program \in Programs, NEW r \in OnNode \cap MayUse(program)
  PROVE  ~ClosedBefore("controller", r) /\ ~ClosedBefore("transport", r)
<1>1. CASE program = "velocity"
  BY <1>1 DEF MayUse, OnNode, ClosedBefore
<1>2. CASE program = "teleop"
  BY <1>2 DEF MayUse, OnNode, ClosedBefore, Opening, TeleopOpening
<1>3. CASE program \in {"gripper", "sine"}
  BY <1>3 DEF MayUse, OnNode, ClosedBefore, Opening, GripperOpening, SineOpening
<1>4. CASE program = "hand"
  BY <1>4 DEF MayUse, OnNode, ClosedBefore, Opening, HandOpening
<1> QED BY <1>1, <1>2, <1>3, <1>4 DEF MayUse, OnNode, Programs, Policies, EndEffectors

LEMMA LogIsNotBefore ==
  ASSUME program \in {"velocity", "wbc"} PROVE ~ClosedBefore("log", "controller")
<1>1. CASE program = "velocity"
  BY <1>1 DEF ClosedBefore
<1>2. CASE program = "wbc"
  BY <1>2 DEF ClosedBefore, Opening, WbcOpening
<1> QED BY <1>1, <1>2

-----------------------------------------------------------------------------
(* How a program ends *)

\* A session that may still be the robot's has its request in the controller, which is open.
SessionOutstanding ==
  /\ run.begun /\ ~run.cancelled => run.request /\ "controller" \in Opened
  /\ run.pc = "confirm" => run.cancelled
  /\ run.pc \in {"preflight", "enter"} => ~run.begun

\* An outcome is told in the finally; a program that runs has promised to exit.
Promised ==
  /\ run.outcome = "none" <=> run.pc \notin Ended
  /\ run.pc \in Frames => run.attempted
  /\ run.outcome = "ok" /\ run.begun /\ run.pc = "cleanup" => run.attempted
  /\ run.outcome = "ok" /\ run.begun /\ run.pc \in {"close", "done"} => run.actual \in MayEnd

AllAccepted == run.outcome = "ok" /\ program \in {"gripper", "sine"} => pending = {}

OpenedInOrder ==
  /\ Opened \subseteq MayUse(program)
  /\ run.pc = "preflight" =>
       \A i \in 1 .. Len(Opening) : i < run.step /\ Opening[i] \in MustOpen(program) => Opening[i] \in Opened
  /\ run.pc = "enter" => MustOpen(program) \subseteq Opened

EndInv == /\ Typed /\ StopsPolicies /\ SessionOutstanding /\ Promised /\ AllAccepted
          /\ OpenedInOrder /\ AllIsClosed

LEMMA EndInvInit == ProgramInit => EndInv
<1> SUFFICES ASSUME ProgramInit PROVE EndInv
  OBVIOUS
<1>1. Typed
  BY TypedInit
<1>2. /\ run.pc = "preflight" /\ run.step = 1 /\ run.outcome = "none" /\ ~run.begun /\ run.open = {}
      /\ world.stop = FALSE
  BY DEF ProgramInit
<1>3. StopsPolicies /\ SessionOutstanding /\ Promised /\ AllAccepted
  BY <1>2 DEF StopsPolicies, SessionOutstanding, Promised, AllAccepted, Ended, Frames
<1>4. OpenedInOrder /\ AllIsClosed
  BY <1>2 DEF OpenedInOrder, AllIsClosed, Opened, OnNode
<1> QED BY <1>1, <1>3, <1>4 DEF EndInv

LEMMA StopsPoliciesStep ==
  ASSUME StopsPolicies, Typed, [ProgramNext]_programVars PROVE StopsPolicies'
<1>1. program' = program
  BY EveryStepMoves
<1>2. world' = world \/ StopSignal \/ Interrupt \/ FallsSilent
  BY DEF programVars, ProgramNext, ProgramStep, Preflight, FrameStep, WorldStep, CheckRoster, CheckLimits, SetTouch,
     OpenNext, LeaveOut, Passes, WarmUp, EraseHistory, WaitAtRest, ReadFirst, PreflightPasses, CheckStatus,
     ReadState, CheckWindow, ReadNewer, Infer, CheckStop, PublishFrame, Pace, Keep, SettleDwell,
     ReadFeedback, WriteTarget, TargetsWritten, FrameEnds, FrameBegins, StopBeforeEnter, Enter, Entered,
     ReadAfterEntry, TakeBaseline, CleanUp, Exit, Confirm, Close, Done, GivesUp, Raises, PreflightRaises,
     SessionChanges, Accepts, Tick
<1>3. CASE world' = world
  BY <1>1, <1>3 DEF StopsPolicies
<1>4. CASE StopSignal
  BY <1>1, <1>4 DEF StopSignal, StopsPolicies
<1>5. CASE Interrupt
  BY <1>1, <1>5 DEF Interrupt, StopsPolicies, Typed
<1>6. CASE FallsSilent
  BY <1>1, <1>6 DEF FallsSilent, StopsPolicies, Typed
<1> QED BY <1>2, <1>3, <1>4, <1>5, <1>6

LEMMA OutstandingStep ==
  ASSUME EndInv, Moves, program' = program PROVE SessionOutstanding'
<1> USE DEF SessionOutstanding, Opened
<1>1. CASE Continues
  BY <1>1 DEF EndInv, Continues, SameSession, Frames
<1>2. CASE Opens
  BY <1>2 DEF EndInv, Opens
<1>3. CASE ToEnter \/ ToExit \/ Finishes \/ IsCutShort \/ Ends
  BY <1>3 DEF EndInv, ToEnter, ToExit, Finishes, IsCutShort, Ends, SameSession
<1>4. CASE Begins
  <2>1. "controller" \in Opened
    BY <1>4 DEF EndInv, OpenedInOrder, MustOpen, Begins
  <2> QED BY <1>4, <2>1 DEF Begins
<1>5. CASE Attempts
  BY <1>5 DEF EndInv, Attempts, Frames
<1>6. CASE Cancels
  BY <1>6 DEF Cancels
<1>7. CASE Confirms
  BY <1>7 DEF EndInv, Confirms
<1>8. CASE Closes
  <2>1. ClosedNext # "controller" => "controller" \notin ClosedWith(ClosedNext)
    BY DEF ClosedWith
  <2> QED BY <1>8, <2>1 DEF EndInv, Closes
<1> QED BY <1>1, <1>2, <1>3, <1>4, <1>5, <1>6, <1>7, <1>8 DEF Moves

LEMMA PromisedStep ==
  ASSUME EndInv, Moves, program' = program PROVE Promised'
<1> USE DEF Promised, Ended, Frames
<1>1. CASE Continues
  BY <1>1 DEF EndInv, Continues, SameSession, MayEnd
<1>2. CASE Opens
  BY <1>2 DEF EndInv, Opens
<1>3. CASE Ends
  BY <1>3 DEF EndInv, Ends, SameSession, SessionOutstanding
<1>4. CASE Begins
  BY <1>4 DEF EndInv, Begins
<1>5. CASE Attempts
  BY <1>5 DEF EndInv, Attempts
<1>6. CASE ToEnter
  BY <1>6 DEF EndInv, ToEnter, SameSession
<1>7. CASE ToExit
  BY <1>7 DEF EndInv, ToExit, SameSession
<1>8. CASE Cancels
  BY <1>8 DEF EndInv, Cancels
<1>9. CASE Confirms
  BY <1>9 DEF EndInv, Confirms, MayEnd
<1>10. CASE Closes
  BY <1>10 DEF EndInv, Closes, MayEnd
<1>11. CASE Finishes
  BY <1>11 DEF EndInv, Finishes, SameSession, MayEnd
<1>12. CASE IsCutShort
  BY <1>12 DEF EndInv, IsCutShort
<1> QED BY <1>1, <1>2, <1>3, <1>4, <1>5, <1>6, <1>7, <1>8, <1>9, <1>10, <1>11, <1>12 DEF Moves

LEMMA AcceptedStep ==
  ASSUME EndInv, Moves, program' = program PROVE AllAccepted'
<1> USE DEF AllAccepted
<1>1. CASE Continues
  BY <1>1 DEF EndInv, Continues, Promised, Ended
<1>2. CASE Ends
  BY <1>2 DEF Ends
<1>3. CASE Begins \/ Attempts \/ ToEnter \/ ToExit \/ Cancels \/ Confirms
  BY <1>3 DEF EndInv, Begins, Attempts, ToEnter, ToExit, Cancels, Confirms
<1>4. CASE Opens \/ Closes \/ Finishes \/ IsCutShort
  BY <1>4 DEF EndInv, Opens, Closes, Finishes, IsCutShort
<1> QED BY <1>1, <1>2, <1>3, <1>4 DEF Moves

\* In the preflight a step passes no place without having opened what must be open.
LEMMA PreflightSteps ==
  ASSUME EndInv, [ProgramNext]_programVars, run.pc = "preflight", run'.pc = "preflight"
  PROVE  /\ run.open \subseteq run'.open
         /\ \/ run'.step = run.step
            \/ run'.step = run.step + 1 /\ (Spot \in MustOpen(program) => Spot \in run'.open)
<1> USE DEF EndInv, Typed, RunTyped
<1>1. CASE UNCHANGED run
  BY <1>1
<1>2. CASE CheckRoster \/ CheckLimits \/ SetTouch
  BY <1>2 DEF CheckRoster, CheckLimits, SetTouch, Passes, Onward, RunFields, MustOpen
<1>3. CASE OpenNext
  BY <1>3 DEF OpenNext, Onward, RunFields
<1>4. CASE LeaveOut
  BY <1>4 DEF LeaveOut, Passes, Onward, RunFields, MustOpen
<1>5. CASE WarmUp \/ EraseHistory
  BY <1>5 DEF WarmUp, EraseHistory, Onward, RunFields, MustOpen
<1>6. CASE WaitAtRest
  <2>1. Spot = "rest" /\ Fail(run).pc # "preflight"
    BY <1>6, Fails DEF WaitAtRest
  <2>2. PICK calm \in BOOLEAN : run' = [run EXCEPT !.timing = StillTimed(calm) /\ ~AtRest(calm),
                                                   !.step = IF AtRest(calm) THEN @ + 1 ELSE @]
    BY <1>6, <2>1 DEF WaitAtRest
  <2> QED BY <2>1, <2>2 DEF RunFields, MustOpen
<1>7. CASE ReadFirst
  <2>1. Spot = "first" /\ Leave(run).pc # "preflight"
    BY <1>7, Leaves DEF ReadFirst
  <2> QED BY <1>7, <2>1 DEF ReadFirst, Onward, RunFields, MustOpen
<1>8. CASE PreflightPasses
  BY <1>8 DEF PreflightPasses, RunFields
<1>9. CASE FrameStep \/ GivesUp \/ Raises
  BY <1>9, PlaceInFrame DEF FrameStep, CheckStatus, ReadState, CheckWindow, ReadNewer, Infer, CheckStop,
     PublishFrame, Pace, Keep, SettleDwell, ReadFeedback, WriteTarget, TargetsWritten, FrameEnds,
     FrameBegins, GivesUp, Raises, Frames
<1>10. CASE StopBeforeEnter \/ Enter \/ Entered \/ ReadAfterEntry \/ TakeBaseline
  BY <1>10 DEF StopBeforeEnter, Enter, Entered, ReadAfterEntry, TakeBaseline
<1>11. CASE CleanUp \/ Exit \/ Confirm \/ Close \/ Done
  BY <1>11 DEF CleanUp, Exit, Confirm, Close, Done
<1>12. CASE PreflightRaises
  BY <1>12, Fails DEF PreflightRaises
<1>13. CASE Interrupt
  <2>1. PICK place \in {"close", "cleanup"} :
          run' = [Forgotten(run) EXCEPT !.pc = place, !.outcome = "interrupted"]
    BY <1>13 DEF Interrupt
  <2>2. "pc" \in DOMAIN Forgotten(run)
    BY Forgets DEF RunFields
  <2> QED BY <2>1, <2>2
<1>14. CASE Tick \/ SessionChanges \/ StopSignal \/ FallsSilent \/ (\E side \in pending : Accepts(side))
  BY <1>14, <1>1 DEF Tick, SessionChanges, StopSignal, FallsSilent, Accepts
<1> QED BY <1>1, <1>2, <1>3, <1>4, <1>5, <1>6, <1>7, <1>8, <1>9, <1>10, <1>11, <1>12, <1>13, <1>14
        DEF ProgramNext, ProgramStep, Preflight, WorldStep, programVars

LEMMA OrderStep ==
  ASSUME EndInv, [ProgramNext]_programVars PROVE OpenedInOrder'
<1>1. Moves /\ program' = program
  BY EveryStepMoves DEF EndInv
<1>2. program \in Programs /\ run.step \in Nat \ {0}
  BY DEF EndInv, Typed, RunTyped
<1>3. Opening' = Opening
  BY <1>1 DEF Opening
<1>4. run'.open \subseteq run.open \cup {Spot} /\ (Spot \in run'.open => Spot \in run.open \cup Resources)
  BY <1>1 DEF Moves, Continues, Opens, ToEnter, Ends, Begins, Attempts, ToExit, Cancels, Confirms, Closes, Finishes,
     IsCutShort, SameSession
<1>5. Opened' \subseteq MayUse(program)
  <2>1. Opened \subseteq MayUse(program)
    BY DEF EndInv, OpenedInOrder
  <2>2. ASSUME NEW r \in run'.open PROVE r \in MayUse(program)
    BY <1>2, <1>4, <2>1, <2>2, SpotIsUsed DEF Opened
  <2> QED BY <2>2 DEF Opened
<1>6. ASSUME run'.pc = "preflight", NEW i \in 1 .. Len(Opening), i < run'.step, Opening[i] \in MustOpen(program)
      PROVE  Opening[i] \in Opened'
  <2>1. run.pc = "preflight"
    BY <1>1, <1>6 DEF Moves, Continues, Opens, ToEnter, Ends, Begins, Attempts, ToExit, Cancels, Confirms, Closes,
       Finishes, IsCutShort, Frames
  <2>2. CASE i < run.step
    BY <1>6, <2>1, <2>2, PreflightSteps DEF EndInv, OpenedInOrder, Opened
  <2>3. CASE ~(i < run.step)
    <3>1. run'.step = run.step + 1 /\ i = run.step
      BY <1>2, <1>6, <2>1, <2>3, PreflightSteps
    <3>2. Spot = Opening[i]
      BY <2>1, <3>1 DEF Spot
    <3> QED BY <1>2, <1>6, <2>1, <3>1, <3>2, PreflightSteps DEF Opened
  <2> QED BY <2>2, <2>3
<1>7. ASSUME run'.pc = "enter" PROVE MustOpen(program) \subseteq Opened'
  <2>1. CASE Continues
    BY <1>7, <2>1 DEF Continues, Frames, SameSession, EndInv, OpenedInOrder, Opened
  <2>2. CASE ToEnter
    <3>1. ASSUME NEW r \in MustOpen(program) PROVE r \in Opened
      <4>1. PICK j \in 1 .. Len(Opening) : Opening[j] = r
        BY <1>2, <3>1, MustIsOpening
      <4>2. j < run.step
        <5>1. Len(Opening) \in Nat
          BY <1>2 DEF Opening, ExternalControlOpening, VelocityOpening, WbcOpening, TeleopOpening,
             GripperOpening, SineOpening, HandOpening, Programs, Policies, EndEffectors
        <5> QED BY <1>2, <2>2, <5>1 DEF ToEnter
      <4> QED BY <2>2, <3>1, <4>1, <4>2 DEF ToEnter, EndInv, OpenedInOrder
    <3> QED BY <2>2, <3>1 DEF ToEnter, SameSession, Opened
  <2> QED BY <1>1, <1>7, <2>1, <2>2 DEF Moves, Opens, Ends, Begins, Attempts, ToExit, Cancels, Confirms, Closes,
       Finishes, IsCutShort, Frames
<1>8. MayUse(program)' = MayUse(program) /\ MustOpen(program)' = MustOpen(program)
  BY <1>1
<1> QED BY <1>1, <1>3, <1>5, <1>6, <1>7, <1>8 DEF OpenedInOrder

LEMMA ClosedStep ==
  ASSUME EndInv, Moves, program' = program PROVE AllIsClosed'
<1> DEFINE OnANode(open) == open \cap OnNode # {} => open \cap {"transport", "controller"} # {}
           Logged(begun, open) ==
             program \in {"velocity", "wbc"} /\ begun /\ "controller" \in open => "log" \in open
<1>1. program \in Programs /\ run.step \in Nat \ {0} /\ Opened \subseteq MayUse(program)
  BY DEF EndInv, Typed, RunTyped, OpenedInOrder
<1>2. OnANode(run.open) /\ Logged(run.begun, run.open) /\ (run.pc = "done" => run.open = {})
  BY DEF EndInv, AllIsClosed, Opened
<1>3. SUFFICES OnANode(run'.open) /\ Logged(run'.begun, run'.open) /\ (run'.pc = "done" => run'.open = {})
  BY DEF AllIsClosed, Opened
<1>4. ASSUME run'.open = run.open, run'.begun = run.begun, run'.pc = "done" => run.pc = "done" \/ run.open = {}
      PROVE  OnANode(run'.open) /\ Logged(run'.begun, run'.open) /\ (run'.pc = "done" => run'.open = {})
  BY <1>2, <1>4
<1>5. CASE Continues \/ ToEnter \/ Ends \/ Attempts \/ ToExit \/ Cancels \/ Confirms \/ Finishes \/ IsCutShort
  <2>1. run'.open = run.open /\ run'.begun = run.begun
    BY <1>5 DEF Continues, ToEnter, Ends, Attempts, ToExit, Cancels, Confirms, Finishes, IsCutShort, SameSession
  <2>2. run'.pc = "done" => run.pc = "done" \/ run.open = {}
    BY <1>5 DEF Continues, ToEnter, Ends, Attempts, ToExit, Cancels, Confirms, Finishes, IsCutShort, Frames, Opened
  <2> QED BY <1>4, <2>1, <2>2
<1>6. CASE Opens
  <2>1. ~run.begun /\ run'.begun = run.begun /\ run'.pc = "preflight" /\ run'.open = run.open \cup {Spot}
    BY <1>6 DEF Opens, EndInv, SessionOutstanding
  <2>2. Spot \in OnNode => "controller" \in run.open
    BY <1>1, <1>6, ControllerBefore DEF Opens, EndInv, OpenedInOrder, MustOpen, Opened
  <2>3. OnANode(run'.open)
    BY <1>2, <2>1, <2>2
  <2> QED BY <2>1, <2>3
<1>7. CASE Begins
  <2>1. run'.open = run.open /\ MustOpen(program) \subseteq run.open /\ run'.pc # "done"
    BY <1>7 DEF Begins, EndInv, OpenedInOrder, Opened
  <2> QED BY <1>2, <2>1 DEF MustOpen
<1>8. CASE Closes
  <2>1. /\ ClosedNext \in Opened
        /\ \A other \in Opened \ {ClosedNext} : ClosedBefore(ClosedNext, other)
    BY <1>1, <1>8, ClosedNextIsLast DEF Closes
  <2>2. /\ run'.open = run.open \ ClosedWith(ClosedNext) /\ run'.begun = run.begun /\ run'.pc = "close"
    BY <1>8 DEF Closes
  <2>3. OnANode(run'.open)
    <3>1. ASSUME NEW r \in run'.open \cap OnNode PROVE ClosedNext \notin {"controller", "transport"}
      <4>1. r \in Opened /\ r \in OnNode \cap MayUse(program)
        BY <1>1, <2>2, <3>1 DEF Opened
      <4>2. r \notin {"controller", "transport"}
        BY <3>1 DEF OnNode
      <4> QED BY <1>1, <2>1, <4>1, <4>2, NodeIsNotBefore
    <3> QED BY <1>2, <2>2, <3>1 DEF ClosedWith
  <2>4. Logged(run'.begun, run'.open)
    <3>1. ASSUME program \in {"velocity", "wbc"}, "controller" \in run'.open PROVE ClosedNext # "log"
      BY <2>1, <2>2, <3>1, LogIsNotBefore DEF Opened
    <3> QED BY <1>2, <2>2, <3>1 DEF ClosedWith
  <2> QED BY <2>2, <2>3, <2>4
<1> QED BY <1>5, <1>6, <1>7, <1>8 DEF Moves

LEMMA EndInvStep ==
  ASSUME EndInv, [ProgramNext]_programVars PROVE EndInv'
<1>1. Moves /\ program' = program
  BY EveryStepMoves DEF EndInv
<1>2. Typed' /\ StopsPolicies'
  BY TypedStep, StopsPoliciesStep DEF EndInv
<1> QED BY <1>1, <1>2, OutstandingStep, PromisedStep, AcceptedStep, OrderStep, ClosedStep DEF EndInv

LEMMA EndInvMeansClean == EndInv => EndIsClean
<1> SUFFICES ASSUME EndInv PROVE SessionIsGivenUp /\ AllIsClosed
  BY DEF EndIsClean
<1>1. AllIsClosed
  BY DEF EndInv
<1>2. ASSUME run.pc = "done" PROVE Opened = {} /\ run.pc \in Ended
  BY <1>1, <1>2 DEF AllIsClosed, Ended
<1> QED BY <1>1, <1>2 DEF EndInv, SessionIsGivenUp, SessionOutstanding, Promised, MayEnd, AllAccepted

\* However a program of examples/ ends, over an error or an interrupt in any place, the
\* session it began has had its CANCEL, a good end has seen the robot leave EXTERNAL with
\* no gripper target unaccepted, and all it opened is closed, nothing after its node.
THEOREM EndsAreClean == ProgramSpec => []EndIsClean
BY EndInvInit, EndInvStep, EndInvMeansClean, PTL DEF ProgramSpec

-----------------------------------------------------------------------------
(* What a frame sends *)

LEMMA PolicyPlaces ==
  ASSUME program \in Policies, run.pc = "frame", run.step \in Nat \ {0}
  PROVE  /\ Place = "infer" => run.step = 3
         /\ run.step = 4 => Place = "stop"
         /\ run.step = 5 => Place = "status"
         /\ Place = "keep" => run.step >= 6
         /\ Len(Route) >= 6
<1>1. CASE program = "velocity"
  BY <1>1 DEF Place, Route, Frame, VelocityFrame
<1>2. CASE program = "wbc"
  BY <1>2 DEF Place, Route, Frame, WbcFrame
<1>3. CASE program = "teleop"
  BY <1>3 DEF Place, Route, Frame, TeleopFrame
<1> QED BY <1>1, <1>2, <1>3 DEF Policies

LEMMA VelocityPlaces ==
  ASSUME program = "velocity", run.pc = "frame", run.step \in Nat \ {0}
  PROVE  /\ run.step = 7 => Place = "publish"
         /\ Place = "keep" => run.step = 8
         /\ Len(Route) = 8
BY DEF Place, Route, Frame, VelocityFrame

LEMMA ExternalControlPlaces ==
  ASSUME program = "external_control", run.pc = "frame", run.step \in Nat \ {0}
  PROVE  /\ Len(Route) = IF run.stage = "dwell" THEN 5 ELSE 4
         /\ run.step = 1 => Place = "status"
         /\ run.step = 2 => Place = "state"
         /\ run.step = 3 => Place = "publish"
         /\ run.step = 4 => Place = "pace"
         /\ run.step = 5 => Place = IF run.stage = "dwell" THEN "settle" ELSE "none"
         /\ run.step > 5 => Place = "none"
<1>1. CASE run.stage = "dwell"
  BY <1>1 DEF Place, Route, Frame, ExternalControlFrame
<1>2. CASE run.stage # "dwell"
  BY <1>2 DEF Place, Route, Frame, ExternalControlFrame
<1> QED BY <1>1, <1>2

LEMMA GripperPlaces ==
  ASSUME program \in {"gripper", "sine"}, run.pc = "frame", run.step \in Nat \ {0}
  PROVE  /\ Len(Route) = IF run.stage = "body" THEN 4 ELSE IF run.stage = "leg" THEN 6 ELSE 5
         /\ run.step = 1 => Place = "status"
         /\ run.step = 2 => Place = "state"
         /\ run.step = 3 => Place = "publish"
         /\ run.step = 4 => Place = "pace"
         /\ run.step = 5 => Place = IF run.stage = "body" THEN "none" ELSE "feedback"
         /\ run.step = 6 => Place = IF run.stage = "leg" THEN "target" ELSE "none"
         /\ run.step > 6 => Place = "none"
<1> USE DEF Place, Route, Frame, GripperFrame, SineFrame, HoldFrame
<1>1. CASE run.stage = "body"
  BY <1>1
<1>2. CASE run.stage = "leg"
  BY <1>2
<1>3. CASE run.stage \notin {"body", "leg"}
  BY <1>3
<1> QED BY <1>1, <1>2, <1>3

LEMMA HandPlaces ==
  ASSUME program = "hand", run.pc = "frame", run.step \in Nat \ {0}
  PROVE  /\ Len(Route) = IF run.stage = "leg" THEN 6 ELSE 5
         /\ run.step = 1 => Place = "status"
         /\ run.step = 2 => Place = "state"
         /\ run.step = 3 => Place = "publish"
         /\ run.step = 4 => Place = "feedback"
         /\ run.step = 5 => Place = "pace"
         /\ run.step = 6 => Place = IF run.stage = "leg" THEN "target" ELSE "none"
         /\ run.step > 6 => Place = "none"
<1>1. CASE run.stage = "leg"
  BY <1>1 DEF Place, Route, Frame, HandFrame
<1>2. CASE run.stage # "leg"
  BY <1>2 DEF Place, Route, Frame, HandFrame
<1> QED BY <1>1, <1>2

\* The other programs have no policy.
LEMMA OthersPlaces ==
  ASSUME program \in Programs \ Policies, run.pc = "frame", run.step \in Nat \ {0}
  PROVE  Place \in {"status", "state", "publish", "pace", "settle", "feedback", "target", "none"}
<1>1. CASE program = "external_control"
  BY <1>1, ExternalControlPlaces
<1>2. CASE program \in {"gripper", "sine"}
  BY <1>2, GripperPlaces
<1>3. CASE program = "hand"
  BY <1>3, HandPlaces
<1> QED BY <1>1, <1>2, <1>3 DEF Programs, EndEffectors

\* Where the feedback is read in a frame.
ReadAt == IF program = "hand" THEN 4 ELSE 5

LEMMA LegPlaces ==
  ASSUME program \in EndEffectors, run.pc = "frame", run.stage = "leg", run.step \in Nat \ {0}
  PROVE  /\ Place = "feedback" <=> run.step = ReadAt
         /\ Place = "target" => run.step > ReadAt
<1>1. CASE program = "hand"
  BY <1>1, HandPlaces DEF ReadAt
<1>2. CASE program \in {"gripper", "sine"}
  BY <1>2, GripperPlaces DEF ReadAt
<1> QED BY <1>1, <1>2 DEF EndEffectors

LEMMA TargetIsInLeg ==
  ASSUME program \in Programs, run.step \in Nat \ {0}, Place = "target"
  PROVE  run.pc = "frame" /\ program \in EndEffectors /\ run.stage = "leg"
<1>1. run.pc = "frame"
  BY PlaceInFrame
<1>2. program \notin Policies
  <2>1. CASE program = "velocity"
    BY <1>1, <2>1 DEF Place, Route, Frame, VelocityFrame
  <2>2. CASE program = "wbc"
    BY <1>1, <2>2 DEF Place, Route, Frame, WbcFrame
  <2>3. CASE program = "teleop"
    BY <1>1, <2>3 DEF Place, Route, Frame, TeleopFrame
  <2> QED BY <2>1, <2>2, <2>3 DEF Policies
<1>3. CASE program = "external_control"
  BY <1>1, <1>3, ExternalControlPlaces
<1>4. CASE program \in {"gripper", "sine"}
  BY <1>1, <1>4, GripperPlaces DEF EndEffectors
<1>5. CASE program = "hand"
  BY <1>1, <1>5, HandPlaces DEF EndEffectors
<1> QED BY <1>1, <1>2, <1>3, <1>4, <1>5 DEF Programs, EndEffectors

\* What the policy has seen being lost ends in the second look at the status, or where it
\* is published; the frames
\* of the preflight are forgotten; a leg writes when all sides were seen enabled.
LossIsKnown ==
  run.lost => /\ run.pc = "frame" /\ program \in Policies /\ Lost(program)
              /\ run.step \in (IF run.foreign THEN 4 .. 7 ELSE {4, 5})

\* A session that was another's when velocity took it for the expected one passes its
\* checks and ends at the publish.
ForeignIsGone ==
  /\ run.pc = "baseline" => program = "velocity"
  /\ run.foreign => /\ program = "velocity" /\ session = "gone"
                    /\ run.pc = "pace" \/ (run.pc = "frame" /\ run.step <= 7)

WarmIsErased == run.warm => Spot = "reset"

StepsFromOne == run.pc \notin {"preflight", "frame"} => run.step = 1

LegIsEnabled ==
  run.pc = "frame" /\ program \in EndEffectors /\ run.stage = "leg" /\ run.step > ReadAt => Enabled

SendInv == Typed /\ LossIsKnown /\ ForeignIsGone /\ WarmIsErased /\ StepsFromOne /\ LegIsEnabled

LEMMA SendInvInit == ProgramInit => SendInv
<1> SUFFICES ASSUME ProgramInit PROVE SendInv
  OBVIOUS
<1>1. run.pc = "preflight" /\ run.lost = FALSE /\ run.warm = FALSE /\ run.foreign = FALSE
  BY DEF ProgramInit
<1> QED BY <1>1, TypedInit DEF SendInv, LossIsKnown, ForeignIsGone, WarmIsErased, StepsFromOne, LegIsEnabled

\* The steps that look at no place but the run's pc, or at none.
Elsewhere == \/ StopBeforeEnter \/ Enter \/ Entered \/ ReadAfterEntry \/ TakeBaseline
             \/ CleanUp \/ Exit \/ Confirm \/ Close \/ Done

LEMMA ElsewhereKeeps ==
  ASSUME Typed, Elsewhere
  PROVE  /\ run.pc \notin {"preflight", "frame"} /\ run'.pc \notin {"preflight", "frame"}
         /\ run'.lost \in {run.lost, FALSE} /\ run'.warm \in {run.warm, FALSE} /\ run'.step \in {run.step, 1}
         /\ run'.repeats \in {run.repeats, 0}
         /\ run'.pc = "baseline" => program = "velocity"
         /\ \/ run'.foreign \in {run.foreign, FALSE}
            \/ run.pc = "baseline" /\ run'.pc = "pace" /\ session' = "gone"
<1> USE DEF Typed, RunTyped, RunFields
<1>1. CASE run' = Leave(run) /\ (StopBeforeEnter \/ ReadAfterEntry)
  BY <1>1, Leaves DEF StopBeforeEnter, ReadAfterEntry, NoLocals
<1>2. CASE Enter
  <2> DEFINE r == [run EXCEPT !.attempted = program \in AttemptsFirst, !.begun = TRUE, !.request = TRUE]
  <2>1. /\ DOMAIN r = RunFields /\ r.lost = run.lost /\ r.warm = run.warm /\ r.step = run.step
        /\ r.repeats = run.repeats /\ r.foreign = run.foreign
    OBVIOUS
  <2>2. \/ run' = [r EXCEPT !.pc = "entered"]
        \/ run' = [Fail(r) EXCEPT !.cancelled = TRUE]
    BY <1>2 DEF Enter
  <2>3. run.pc = "enter"
    BY <1>2 DEF Enter
  <2> HIDE DEF r
  <2>4. CASE run' = [r EXCEPT !.pc = "entered"]
    BY <2>1, <2>3, <2>4
  <2>5. CASE run' = [Fail(r) EXCEPT !.cancelled = TRUE]
    <3> DEFINE f == Fail(r)
    <3>1. DOMAIN f = RunFields /\ f.pc = "cleanup" /\ NoLocals(f)
      BY <2>1, Fails
    <3>2. run' = [f EXCEPT !.cancelled = TRUE]
      BY <2>5
    <3> HIDE DEF f
    <3> QED BY <2>3, <3>1, <3>2 DEF NoLocals
  <2> QED BY <2>2, <2>4, <2>5
<1>3. CASE Entered
  BY <1>3 DEF Entered
<1>4. CASE ReadAfterEntry /\ run' = [run EXCEPT !.pc = IF program = "velocity" THEN "baseline" ELSE "pace"]
  BY <1>4 DEF ReadAfterEntry
<1>5. CASE CleanUp \/ Exit \/ Done
  <2>1. CASE CleanUp
    BY <2>1 DEF CleanUp
  <2>2. CASE Exit
    BY <2>2 DEF Exit
  <2>3. CASE Done
    BY <2>3 DEF Done
  <2> HIDE DEF Typed, RunTyped, RunFields
  <2> QED BY <1>5, <2>1, <2>2, <2>3
<1>6. CASE Confirm
  <2>1. run.pc = "confirm"
    BY <1>6 DEF Confirm
  <2>2. run'.pc = "close" /\ run'.step = run.step /\ run'.repeats = run.repeats
    BY <1>6 DEF Confirm
  <2>3. run'.lost = run.lost /\ run'.warm = run.warm /\ run'.foreign = run.foreign
    BY <1>6 DEF Confirm
  <2> QED BY <2>1, <2>2, <2>3
<1>7. CASE Close
  <2>1. /\ run'.pc = run.pc /\ run'.lost = run.lost
        /\ run'.warm = run.warm /\ run'.step = run.step /\ run'.repeats = run.repeats
        /\ run'.foreign = run.foreign
    BY <1>7 DEF Close
  <2> QED BY <1>7, <2>1 DEF Close
<1>8. CASE TakeBaseline
  <2>1. CASE run' = Fail(run)
    <3>1. run'.pc = "cleanup" /\ NoLocals(run')
      BY <2>1, Fails
    <3> QED BY <1>8, <3>1 DEF TakeBaseline, NoLocals
  <2>2. CASE /\ run' = [run EXCEPT !.pc = "pace", !.foreign = session = "gone"]
             /\ session' = IF session = "gone" THEN "gone" ELSE "entered"
    <3>1. /\ run'.pc = "pace" /\ run'.lost = run.lost /\ run'.warm = run.warm /\ run'.step = run.step
          /\ run'.repeats = run.repeats /\ run'.foreign = (session = "gone")
      BY <2>2
    <3>2. run.pc = "baseline"
      BY <1>8 DEF TakeBaseline
    <3>3. CASE session = "gone"
      BY <2>2, <3>1, <3>2, <3>3
    <3>4. CASE session # "gone"
      BY <3>1, <3>2, <3>4
    <3> QED BY <3>3, <3>4
  <2> HIDE DEF Typed, RunTyped, RunFields
  <2> QED BY <1>8, <2>1, <2>2 DEF TakeBaseline
<1>9. \/ run' = Leave(run) /\ (StopBeforeEnter \/ ReadAfterEntry)
      \/ Enter \/ Entered \/ TakeBaseline
      \/ (ReadAfterEntry /\ run' = [run EXCEPT !.pc = IF program = "velocity" THEN "baseline" ELSE "pace"])
      \/ CleanUp \/ Exit \/ Done \/ Confirm \/ Close
  <2> HIDE DEF Typed, RunTyped, RunFields
  <2> QED BY DEF Elsewhere, StopBeforeEnter, ReadAfterEntry
<1> HIDE DEF Typed, RunTyped, RunFields
<1> QED BY <1>1, <1>2, <1>3, <1>4, <1>5, <1>6, <1>7, <1>8, <1>9

LEMMA InterruptForgets ==
  ASSUME Typed, Interrupt
  PROVE  run'.pc \in {"cleanup", "close"} /\ NoLocals(run')
<1>1. PICK place \in {"close", "cleanup"} :
        run' = [Forgotten(run) EXCEPT !.pc = place, !.outcome = "interrupted"]
  BY DEF Interrupt
<1> DEFINE f == Forgotten(run)
<1>2. DOMAIN f = RunFields /\ NoLocals(f)
  BY Forgets DEF Typed, RunTyped
<1>3. run' = [f EXCEPT !.pc = place, !.outcome = "interrupted"]
  BY <1>1
<1> HIDE DEF f
<1> QED BY <1>2, <1>3 DEF NoLocals, RunFields

\* In the preflight: the warm-up alone leaves a history, and what follows it erases it.
LEMMA PreflightKeeps ==
  ASSUME Typed, Preflight
  PROVE  /\ run.pc = "preflight" /\ run'.lost \in {run.lost, FALSE} /\ run'.foreign \in {run.foreign, FALSE}
         /\ run'.repeats \in {run.repeats, 0}
         /\ run'.pc \in {"preflight", "cleanup"} \/ (run'.pc = "enter" /\ run'.step = 1)
         /\ run'.pc = "cleanup" => NoLocals(run')
         /\ \/ run'.warm = FALSE
            \/ run'.warm = run.warm /\ Spot # "reset"
            \/ Spot = "warm" /\ run'.step = run.step + 1 /\ run'.pc = "preflight"
<1> USE DEF Typed, RunTyped, RunFields
<1>1. run.pc = "preflight"
  BY SpotInPreflight DEF Preflight, CheckRoster, CheckLimits, SetTouch, OpenNext, LeaveOut, Passes, WarmUp,
     EraseHistory, WaitAtRest, ReadFirst, PreflightPasses, Resources
<1>2. CASE CheckRoster \/ CheckLimits \/ SetTouch \/ LeaveOut
  BY <1>1, <1>2 DEF CheckRoster, CheckLimits, SetTouch, LeaveOut, Passes, Onward
<1>3. CASE OpenNext
  BY <1>1, <1>3 DEF OpenNext, Onward, Resources
<1>4. CASE WarmUp
  BY <1>1, <1>4 DEF WarmUp, Onward
<1>5. CASE EraseHistory
  BY <1>1, <1>5 DEF EraseHistory, Erased, Onward
<1>6. CASE WaitAtRest
  <2>1. Spot = "rest" /\ Fail(run).pc = "cleanup" /\ NoLocals(Fail(run))
    BY <1>6, Fails DEF WaitAtRest
  <2>2. CASE run' = Fail(run)
    BY <1>1, <2>1, <2>2 DEF NoLocals
  <2>3. ASSUME NEW calm, run' = [run EXCEPT !.timing = StillTimed(calm) /\ ~AtRest(calm),
                                            !.step = IF AtRest(calm) THEN @ + 1 ELSE @]
        PROVE  run'.pc = "preflight" /\ run'.lost = run.lost /\ run'.warm = run.warm
               /\ run'.repeats = run.repeats /\ run'.foreign = run.foreign
    BY <1>1, <2>3
  <2> QED BY <1>1, <1>6, <2>1, <2>2, <2>3 DEF WaitAtRest
<1>7. CASE ReadFirst
  <2>1. Spot = "first" /\ Leave(run).pc = "cleanup" /\ NoLocals(Leave(run))
    BY <1>7, Leaves DEF ReadFirst
  <2>2. CASE run' = Leave(run)
    BY <1>1, <2>1, <2>2 DEF NoLocals
  <2>3. CASE run' = Onward(run)
    BY <1>1, <2>1, <2>3 DEF Onward
  <2> QED BY <1>7, <2>2, <2>3 DEF ReadFirst
<1>8. CASE PreflightPasses
  <2>1. Spot = "none"
    BY <1>8 DEF PreflightPasses, Spot
  <2> QED BY <1>1, <1>8, <2>1 DEF PreflightPasses
<1> QED BY <1>2, <1>3, <1>4, <1>5, <1>6, <1>7, <1>8 DEF Preflight

LEMMA ResetFollowsWarm ==
  ASSUME program \in Programs, run.step \in Nat \ {0}, Spot = "warm",
         run'.pc = "preflight", run'.step = run.step + 1, program' = program
  PROVE  Spot' = "reset"
<1> USE DEF Spot, Opening, ExternalControlOpening, VelocityOpening, WbcOpening, TeleopOpening,
            GripperOpening, SineOpening, HandOpening
<1>1. CASE program \in {"wbc", "teleop"}
  BY <1>1
<1>2. CASE program \in {"external_control", "velocity"}
  BY <1>2
<1>3. CASE program \in {"gripper", "sine", "hand"}
  BY <1>3
<1> QED BY <1>1, <1>2, <1>3 DEF Programs, Policies, EndEffectors

\* How a frame goes on: it breaks off, is followed by another, begins, or does its next place.
BreaksOff == run'.pc = "cleanup" /\ NoLocals(run')
SameHistory == run'.warm = run.warm /\ run'.foreign = run.foreign /\ session' = session
Renews == run.step > Len(Route) /\ run'.pc = "pace" /\ run'.step = 1 /\ run'.lost = run.lost /\ SameHistory
FirstPlace == run.pc = "pace" /\ run'.pc = "frame" /\ run'.step = run.step /\ run'.lost = run.lost /\ SameHistory
NextPlace ==
  /\ run.pc = "frame" /\ run'.pc = "frame" /\ Place # "none" /\ run'.stage = run.stage /\ SameHistory
  /\ run'.step = run.step + 1 \/ (run'.step = run.step /\ Place = "target")
  /\ run'.lost = (IF Place = "infer" THEN Lost(program) ELSE run.lost)
  /\ Place = "feedback" => ~Refused(run'.read)
  /\ Place # "feedback" => run'.read = run.read
  /\ Place = "status" => session \in Tolerated(program) \/ run.foreign
  /\ Place = "publish" => session # "gone"

LEMMA OnwardIsNext ==
  ASSUME Typed, run' = Onward(run), Place \notin {"none", "infer", "feedback", "publish"}, session' = session,
         Place = "status" => session \in Tolerated(program) \/ run.foreign
  PROVE  NextPlace
<1>1. run.pc = "frame"
  BY PlaceInFrame
<1>2. /\ run'.pc = run.pc /\ run'.stage = run.stage /\ run'.warm = run.warm /\ run'.lost = run.lost
      /\ run'.step = run.step + 1 /\ run'.read = run.read /\ run'.foreign = run.foreign
  BY Onwards DEF Typed, RunTyped, RunFields
<1> QED BY <1>1, <1>2 DEF NextPlace, SameHistory

LEMMA FailBreaks == ASSUME Typed, run' = Fail(run) PROVE BreaksOff
BY Fails DEF Typed, RunTyped, BreaksOff

LEMMA LeaveBreaks == ASSUME Typed, run' = Leave(run) PROVE BreaksOff
BY Leaves DEF Typed, RunTyped, BreaksOff

LEMMA FrameGoesOn ==
  ASSUME Typed, FrameStep \/ GivesUp \/ Raises
  PROVE  BreaksOff \/ (run.pc = "frame" /\ Renews) \/ FirstPlace \/ NextPlace
<1>1. ASSUME CheckStatus PROVE BreaksOff \/ NextPlace
  BY <1>1, FailBreaks, OnwardIsNext DEF CheckStatus
<1>2. ASSUME CheckWindow \/ CheckStop \/ Pace \/ Keep \/ TargetsWritten PROVE BreaksOff \/ NextPlace
  BY <1>2, FailBreaks, LeaveBreaks, OnwardIsNext DEF CheckWindow, CheckStop, Pace, Keep, TargetsWritten
<1>3. ASSUME ReadState PROVE BreaksOff \/ NextPlace
  <2>1. ASSUME NEW arrival, NEW calm,
               run' = [Onward(run) EXCEPT !.calm = calm, !.repeats = IF Advances(arrival) THEN 0 ELSE @]
        PROVE  NextPlace
    BY <1>3, <2>1, PlaceInFrame DEF ReadState, NextPlace, SameHistory, Onward, Typed, RunTyped, RunFields
  <2> QED BY <1>3, <2>1, FailBreaks DEF ReadState
<1>4. ASSUME ReadNewer PROVE BreaksOff \/ NextPlace
  <2>1. ASSUME NEW arrival, run' = [Onward(run) EXCEPT !.repeats = IF arrival = "newer" THEN 0 ELSE @]
        PROVE  NextPlace
    BY <1>4, <2>1, PlaceInFrame DEF ReadNewer, NextPlace, SameHistory, Onward, Typed, RunTyped, RunFields
  <2> QED BY <1>4, <2>1, LeaveBreaks DEF ReadNewer
<1>5. ASSUME Infer PROVE NextPlace
  BY <1>5, PlaceInFrame DEF Infer, NextPlace, SameHistory, Onward, Typed, RunTyped, RunFields
<1>6. ASSUME PublishFrame PROVE BreaksOff \/ NextPlace
  <2>1. CASE session # "gone"
    BY <1>6, <2>1, PlaceInFrame DEF PublishFrame, NextPlace, SameHistory, Onward, Typed, RunTyped, RunFields
  <2> QED BY <1>6, <2>1, FailBreaks DEF PublishFrame
<1>7. ASSUME SettleDwell PROVE NextPlace
  BY <1>7, PlaceInFrame DEF SettleDwell, NextPlace, SameHistory, Onward, Typed, RunTyped, RunFields
<1>8. ASSUME ReadFeedback PROVE BreaksOff \/ NextPlace
  <2>1. ASSUME NEW seen, ~Refused(seen),
               run' = [Onward(run) EXCEPT !.read = seen, !.unwritten = SidesOf(program)]
        PROVE  NextPlace
    <3>1. /\ run'.pc = run.pc /\ run'.stage = run.stage /\ run'.warm = run.warm /\ run'.lost = run.lost
          /\ run'.step = run.step + 1 /\ run'.read = seen /\ run'.foreign = run.foreign
      BY <2>1 DEF Onward, Typed, RunTyped, RunFields
    <3> QED BY <1>8, <2>1, <3>1, PlaceInFrame DEF ReadFeedback, NextPlace, SameHistory
  <2> QED BY <1>8, <2>1, FailBreaks DEF ReadFeedback
<1>9. ASSUME WriteTarget PROVE NextPlace
  BY <1>9, PlaceInFrame DEF WriteTarget, NextPlace, SameHistory, Typed, RunTyped, RunFields
<1>10. ASSUME FrameEnds PROVE BreaksOff \/ (run.pc = "frame" /\ Renews)
  <2>1. PICK stage \in Stages : run' = CASE stage = "end" -> Leave(run)
                                         [] stage = "raise" -> Fail(run)
                                         [] OTHER -> NewFrame(run, stage)
    BY <1>10 DEF FrameEnds
  <2>2. CASE run' = NewFrame(run, stage)
    <3>1. /\ run'.pc = "pace" /\ run'.step = 1 /\ run'.lost = run.lost /\ run'.warm = run.warm
          /\ run'.foreign = run.foreign
      BY <2>2, NewFrames, NewFrameKeeps DEF Typed, RunTyped
    <3> QED BY <1>10, <3>1 DEF FrameEnds, Renews, SameHistory
  <2> QED BY <2>1, <2>2, FailBreaks, LeaveBreaks
<1>11. ASSUME FrameBegins PROVE BreaksOff \/ FirstPlace
  <2>1. CASE run' = [run EXCEPT !.pc = "frame"]
    BY <1>11, <2>1 DEF FrameBegins, FirstPlace, SameHistory, Typed, RunTyped, RunFields
  <2> QED BY <1>11, <2>1, LeaveBreaks DEF FrameBegins
<1>12. ASSUME GivesUp \/ Raises PROVE BreaksOff
  BY <1>12, FailBreaks DEF GivesUp, Raises
<1> QED BY <1>1, <1>2, <1>3, <1>4, <1>5, <1>6, <1>7, <1>8, <1>9, <1>10, <1>11, <1>12 DEF FrameStep

\* The steps that leave the run alone.
Around == \/ SessionChanges \/ (\E side \in pending : Accepts(side)) \/ StopSignal \/ FallsSilent \/ Tick
          \/ UNCHANGED programVars

LEMMA StepsAre ==
  ASSUME Typed, [ProgramNext]_programVars
  PROVE  /\ \/ Preflight \/ PreflightRaises \/ FrameStep \/ GivesUp \/ Raises \/ Elsewhere
            \/ Interrupt \/ Around
         /\ Around => run' = run
<1>1. Around => run' = run
  BY DEF Around, SessionChanges, Accepts, StopSignal, FallsSilent, Tick, programVars
<1> QED BY <1>1 DEF ProgramNext, ProgramStep, Elsewhere, WorldStep, Around

\* In a frame and between frames only the robot changes the session, and what is lost
\* stays lost.
LEMMA SessionInFrames ==
  ASSUME Typed, [ProgramNext]_programVars, run.pc \in {"pace", "frame"} PROVE session' = session \/ SessionChanges
BY DEF programVars, ProgramNext, ProgramStep, Preflight, FrameStep, WorldStep, CheckRoster, CheckLimits, SetTouch,
   OpenNext, LeaveOut, Passes, WarmUp, EraseHistory, WaitAtRest, ReadFirst, PreflightPasses, CheckStatus,
   ReadState, CheckWindow, ReadNewer, Infer, CheckStop, PublishFrame, Pace, Keep, SettleDwell,
   ReadFeedback, WriteTarget, TargetsWritten, FrameEnds, FrameBegins, StopBeforeEnter, Enter, Entered,
   ReadAfterEntry, TakeBaseline, CleanUp, Exit, Confirm, Close, Done, GivesUp, Raises, PreflightRaises,
   Accepts, StopSignal, Interrupt, FallsSilent, Tick

LEMMA GoneStays ==
  ASSUME Typed, [ProgramNext]_programVars, run.pc \in {"pace", "frame"}, session = "gone" PROVE session' = "gone"
BY SessionInFrames DEF SessionChanges

LEMMA LostStays ==
  ASSUME Typed, [ProgramNext]_programVars, run.pc = "frame", run'.pc = "frame", Lost(program) PROVE Lost(program)'
<1>1. session' = session \/ SessionChanges
  BY SessionInFrames
<1>2. program' = program
  BY ProgramStays
<1>3. CASE session' = session
  BY <1>2, <1>3 DEF Lost, Tolerated, Expects
<1>4. CASE SessionChanges
  <2>1. session \in {"rejecting", "dropping", "gone"}
    BY DEF Lost
  <2>2. session' = "gone"
    BY <1>4, <2>1 DEF SessionChanges, Lost
  <2> QED BY <1>2, <2>2 DEF Lost, Tolerated
<1> QED BY <1>1, <1>3, <1>4

LEMMA SendInvStep ==
  ASSUME SendInv, [ProgramNext]_programVars PROVE SendInv'
<1> USE DEF SendInv
<1>1. Typed' /\ program' = program
  BY TypedStep, ProgramStays
<1>2. program \in Programs /\ run.step \in Nat \ {0} /\ run.pc \in Pcs
  BY DEF Typed, RunTyped
<1>3. CASE Around
  <2>1. run' = run
    BY <1>3, StepsAre
  <2>2. LossIsKnown'
    BY <1>1, <2>1, LostStays DEF LossIsKnown
  <2>3. ForeignIsGone'
    BY <1>1, <2>1, GoneStays DEF ForeignIsGone
  <2>4. WarmIsErased' /\ StepsFromOne'
    BY <1>1, <2>1 DEF WarmIsErased, StepsFromOne, Spot, Opening
  <2>5. LegIsEnabled'
    BY <1>1, <2>1 DEF LegIsEnabled, Enabled, ReadAt
  <2> QED BY <1>1, <2>2, <2>3, <2>4, <2>5
<1>4. ASSUME run'.pc # "frame", run'.lost \in {run.lost, FALSE}, run'.warm = FALSE,
             run'.pc = "preflight" \/ run'.step = 1, run.lost => run'.lost = FALSE, ForeignIsGone'
      PROVE  SendInv'
  BY <1>1, <1>4 DEF LossIsKnown, WarmIsErased, StepsFromOne, LegIsEnabled
<1>5. CASE Interrupt \/ BreaksOff
  <2>1. run'.pc \in {"cleanup", "close"} /\ NoLocals(run')
    BY <1>5, InterruptForgets DEF BreaksOff
  <2> QED BY <1>4, <2>1 DEF NoLocals, ForeignIsGone
<1>6. CASE Elsewhere
  <2>1. run.lost = FALSE /\ run.warm = FALSE
    BY <1>6, ElsewhereKeeps DEF LossIsKnown, WarmIsErased, Spot, Typed, RunTyped, LocalsTyped
  <2>2. run'.step = 1
    BY <1>6, ElsewhereKeeps DEF StepsFromOne
  <2>3. ForeignIsGone'
    <3>1. run'.pc = "baseline" => program = "velocity"
      BY <1>6, ElsewhereKeeps
    <3>2. ASSUME run'.foreign PROVE program = "velocity" /\ session' = "gone" /\ run'.pc = "pace"
      <4>1. run.foreign = FALSE
        <5>1. run.pc # "pace"
          BY <1>6 DEF Elsewhere, StopBeforeEnter, Enter, Entered, ReadAfterEntry, TakeBaseline, CleanUp, Exit,
             Confirm, Close, Done
        <5> QED BY <1>6, <5>1, ElsewhereKeeps DEF ForeignIsGone, Typed, RunTyped, LocalsTyped
      <4> QED BY <1>6, <3>2, <4>1, ElsewhereKeeps DEF ForeignIsGone
    <3> QED BY <1>1, <3>1, <3>2 DEF ForeignIsGone
  <2> QED BY <1>4, <1>6, <2>1, <2>2, <2>3, ElsewhereKeeps
<1>7. CASE Preflight \/ PreflightRaises
  <2>1. CASE PreflightRaises
    <3>1. BreaksOff
      BY <2>1, FailBreaks DEF PreflightRaises
    <3> QED BY <1>5, <3>1
  <2>2. CASE Preflight
    <3>1. run.lost = FALSE /\ run'.lost = FALSE
      BY <2>2, PreflightKeeps DEF LossIsKnown, Typed, RunTyped, LocalsTyped
    <3>2. run'.pc # "frame" /\ (run'.pc \notin {"preflight", "frame"} => run'.step = 1)
      BY <2>2, PreflightKeeps DEF NoLocals
    <3>3. run'.warm => Spot' = "reset"
      <4>1. CASE run'.warm = run.warm /\ Spot # "reset"
        BY <4>1 DEF WarmIsErased
      <4>2. CASE Spot = "warm" /\ run'.step = run.step + 1 /\ run'.pc = "preflight"
        BY <1>1, <1>2, <4>2, ResetFollowsWarm
      <4> QED BY <2>2, <4>1, <4>2, PreflightKeeps
    <3>4. run'.foreign = FALSE /\ run'.pc # "baseline"
      BY <2>2, PreflightKeeps DEF ForeignIsGone, Typed, RunTyped, LocalsTyped
    <3> QED BY <1>1, <3>1, <3>2, <3>3, <3>4 DEF LossIsKnown, ForeignIsGone, WarmIsErased, StepsFromOne, LegIsEnabled
  <2> QED BY <1>7, <2>1, <2>2
<1>8. run.pc # "preflight" => run.warm = FALSE
  BY DEF WarmIsErased, Spot, Typed, RunTyped, LocalsTyped
<1>9. CASE run.pc = "frame" /\ Renews
  <2>1. run.foreign = FALSE
    <3>1. ASSUME program = "velocity" PROVE run.step > 8
      BY <1>2, <1>9, <3>1, VelocityPlaces DEF Renews
    <3> QED BY <1>9, <3>1 DEF ForeignIsGone, Typed, RunTyped, LocalsTyped
  <2>2. run.lost = FALSE
    BY <1>2, <1>9, <2>1, PolicyPlaces DEF LossIsKnown, Renews, Typed, RunTyped, LocalsTyped
  <2>3. ForeignIsGone'
    BY <1>9, <2>1 DEF Renews, SameHistory, ForeignIsGone
  <2> QED BY <1>4, <1>8, <1>9, <2>2, <2>3 DEF Renews, SameHistory
<1>10. CASE FirstPlace
  <2>1. run.lost = FALSE /\ run.step = 1
    BY <1>10 DEF FirstPlace, LossIsKnown, StepsFromOne, Typed, RunTyped, LocalsTyped
  <2>2. ForeignIsGone'
    BY <1>1, <1>10, <2>1 DEF FirstPlace, SameHistory, ForeignIsGone
  <2> QED BY <1>1, <1>8, <1>10, <2>1, <2>2 DEF FirstPlace, SameHistory, LossIsKnown, WarmIsErased, StepsFromOne,
               LegIsEnabled, ReadAt
<1>11. CASE NextPlace
  <2>1. run.pc = "frame" /\ run'.pc = "frame" /\ run'.warm = FALSE
    BY <1>8, <1>11 DEF NextPlace, SameHistory
  <2>2. run'.foreign = run.foreign /\ session' = session
    BY <1>11 DEF NextPlace, SameHistory
  <2>3. ForeignIsGone'
    <3> SUFFICES ASSUME run.foreign PROVE run'.step <= 7
      BY <1>1, <2>1, <2>2 DEF ForeignIsGone
    <3>1. program = "velocity" /\ session = "gone" /\ run.step <= 7
      BY <2>1 DEF ForeignIsGone
    <3>2. run.step # 7
      BY <1>2, <1>11, <2>1, <3>1, VelocityPlaces DEF NextPlace
    <3> QED BY <1>2, <1>11, <3>1, <3>2 DEF NextPlace
  <2>4. LossIsKnown'
    <3>1. CASE Place = "infer"
      <4>1. run'.lost => Lost(program)
        BY <1>11, <3>1 DEF NextPlace
      <4>2. program \in Policies /\ run'.step = 4
        BY <1>2, <1>11, <2>1, <3>1, OthersPlaces, PolicyPlaces DEF NextPlace
      <4> QED BY <1>1, <2>1, <4>1, <4>2, LostStays DEF LossIsKnown
    <3>2. CASE Place # "infer"
      <4>1. run'.lost = run.lost
        BY <1>11, <3>2 DEF NextPlace
      <4>2. ASSUME run.lost
            PROVE  /\ program \in Policies /\ Lost(program)
                   /\ run'.step \in (IF run.foreign THEN 4 .. 7 ELSE {4, 5})
        <5>1. program \in Policies /\ Lost(program)
          BY <4>2 DEF LossIsKnown
        <5>2. CASE run.foreign
          <6>1. run.step \in 4 .. 7 /\ run'.step <= 7
            BY <2>1, <2>2, <2>3, <4>2, <5>2 DEF LossIsKnown, ForeignIsGone
          <6> QED BY <1>11, <5>1, <5>2, <6>1 DEF NextPlace
        <5>3. CASE ~run.foreign /\ run.step = 4
          BY <1>11, <2>1, <5>1, <5>3, PolicyPlaces DEF NextPlace
        <5>4. CASE ~run.foreign /\ run.step = 5
          BY <1>11, <2>1, <5>1, <5>4, PolicyPlaces DEF NextPlace, Lost
        <5> QED BY <4>2, <5>2, <5>3, <5>4 DEF LossIsKnown
      <4> QED BY <1>1, <2>1, <2>2, <4>1, <4>2, LostStays DEF LossIsKnown
    <3> QED BY <3>1, <3>2
  <2>5. LegIsEnabled'
    <3> SUFFICES ASSUME program \in EndEffectors, run'.stage = "leg", run'.step > ReadAt
                 PROVE  \A side \in SidesOf(program) : run'.read[side] = "enabled"
      BY <1>1 DEF LegIsEnabled, Enabled, ReadAt
    <3>1. run.stage = "leg"
      BY <1>11 DEF NextPlace
    <3>2. CASE run.step = ReadAt
      <4>1. ~Refused(run'.read)
        BY <1>2, <1>11, <2>1, <3>1, <3>2, LegPlaces DEF NextPlace
      <4> QED BY <3>1, <4>1 DEF Refused, Acceptable, Moving
    <3>3. CASE run.step # ReadAt
      <4>1. run.step > ReadAt
        BY <1>2, <1>11, <3>3 DEF NextPlace, ReadAt
      <4>2. run'.read = run.read
        BY <1>2, <1>11, <2>1, <3>1, <3>3, LegPlaces DEF NextPlace
      <4> QED BY <2>1, <3>1, <4>1, <4>2 DEF LegIsEnabled, Enabled
    <3> QED BY <3>2, <3>3
  <2> QED BY <1>1, <2>1, <2>3, <2>4, <2>5 DEF WarmIsErased, StepsFromOne
<1> QED BY StepsAre, <1>3, <1>5, <1>6, <1>7, <1>9, <1>10, <1>11, FrameGoesOn

LEMMA SendInvMeansChecked == SendInv => SendsFollowChecks
<1> SUFFICES ASSUME SendInv PROVE SendsFollowChecks
  OBVIOUS
<1>1. program \in Programs /\ run.step \in Nat \ {0}
  BY DEF SendInv, Typed, RunTyped
<1>2. ASSUME Place = "keep" PROVE ~run.lost /\ ~run.warm
  <2>1. run.pc = "frame" /\ program \in Policies
    BY <1>1, <1>2, PlaceInFrame, OthersPlaces
  <2>2. run.step >= 6 /\ (program = "velocity" => run.step = 8)
    BY <1>1, <1>2, <2>1, PolicyPlaces, VelocityPlaces
  <2>3. run.foreign = FALSE
    BY <2>1, <2>2 DEF SendInv, ForeignIsGone, Typed, RunTyped, LocalsTyped
  <2> QED BY <1>1, <2>1, <2>2, <2>3 DEF SendInv, LossIsKnown, WarmIsErased, Spot
<1>3. ASSUME Place = "target" PROVE \A side \in SidesOf(program) : run.read[side] = "enabled"
  <2>1. run.pc = "frame" /\ program \in EndEffectors /\ run.stage = "leg"
    BY <1>1, <1>3, TargetIsInLeg
  <2>2. run.step > ReadAt
    BY <1>1, <1>3, <2>1, LegPlaces
  <2> QED BY <2>1, <2>2 DEF SendInv, LegIsEnabled, Enabled
<1> QED BY <1>2, <1>3 DEF SendsFollowChecks

\* No policy sends a command computed while its session was being lost, nor one that
\* remembers its preflight, and no target goes out unless every side was seen enabled in
\* the frame: run_cycles looks at the status again after inference, command_loop and
\* stream at both guards before either target.  velocity's session is the one that its
\* first require_running found: what moved before is not lost to it, and a session that
\* was another's even then ends it at its publish, which no check of the status does.
THEOREM ChecksComeFirst == ProgramSpec => []SendsFollowChecks
BY SendInvInit, SendInvStep, SendInvMeansChecked, PTL DEF ProgramSpec

-----------------------------------------------------------------------------
(* How rest is measured *)

InDwell == program = "external_control" /\ run.stage = "dwell" /\ run.pc \in {"pace", "frame"}

\* What is timed, and where.
TimedHere == /\ run.timing => Spot = "rest" \/ InDwell
             /\ run.settled => InDwell

\* In the wait at rest the time at rest began after the last state that moved.
RestIsTimed == Spot = "rest" /\ run.timing => clock.since <= clock.unrest

RestIsSeen ==
  /\ run.pc = "preflight" =>
       \A i \in 1 .. Len(Opening) : Opening[i] = "rest" /\ i < run.step => clock.unrest >= Window
  /\ run.pc = "enter" /\ program \in StartsAtRest => clock.unrest >= Window

\* In a dwell so it did, but between the read of a state that moves and the step that
\* takes note of it.
MovedUnnoted == run.pc = "frame" /\ run.step \in 3 .. 5 /\ ~run.calm

DwellIsTimed ==
  InDwell /\ ~MovedUnnoted => /\ run.timing => clock.since <= clock.unrest
                              /\ run.settled => clock.unrest >= Settle

RestInv == Typed /\ TimedHere /\ RestIsTimed /\ RestIsSeen /\ DwellIsTimed

LEMMA RestInvInit == ProgramInit => RestInv
<1> SUFFICES ASSUME ProgramInit PROVE RestInv
  OBVIOUS
<1>1. run.pc = "preflight" /\ run.step = 1 /\ run.timing = FALSE /\ run.settled = FALSE
  BY DEF ProgramInit
<1>2. TimedHere /\ RestIsTimed /\ DwellIsTimed
  BY <1>1 DEF TimedHere, RestIsTimed, DwellIsTimed, InDwell
<1>3. RestIsSeen
  BY <1>1 DEF RestIsSeen
<1> QED BY <1>2, <1>3, TypedInit DEF RestInv

\* Where nothing is timed there is nothing to show, but at the entry.
LEMMA NothingTimed ==
  ASSUME Typed', run'.timing = FALSE, run'.settled = FALSE, run'.pc \notin {"preflight", "enter"}
  PROVE  RestInv'
<1>1. TimedHere' /\ RestIsTimed' /\ DwellIsTimed'
  BY DEF TimedHere, RestIsTimed, DwellIsTimed
<1>2. RestIsSeen'
  BY DEF RestIsSeen
<1> QED BY <1>1, <1>2 DEF RestInv

LEMMA ElsewhereForgetsRest ==
  ASSUME Typed, Elsewhere
  PROVE  run'.timing \in {run.timing, FALSE} /\ run'.settled \in {run.settled, FALSE} /\ run'.pc # "enter"
<1> USE DEF Typed, RunTyped, RunFields
<1>1. CASE run' = Leave(run) /\ (StopBeforeEnter \/ ReadAfterEntry)
  BY <1>1, Leaves DEF NoLocals
<1>2. CASE Enter
  <2> DEFINE r == [run EXCEPT !.attempted = program \in AttemptsFirst, !.begun = TRUE, !.request = TRUE]
  <2>1. DOMAIN r = RunFields /\ r.timing = run.timing /\ r.settled = run.settled
    OBVIOUS
  <2>2. \/ run' = [r EXCEPT !.pc = "entered"]
        \/ run' = [Fail(r) EXCEPT !.cancelled = TRUE]
    BY <1>2 DEF Enter
  <2> HIDE DEF r
  <2>3. CASE run' = [r EXCEPT !.pc = "entered"]
    BY <2>1, <2>3
  <2>4. CASE run' = [Fail(r) EXCEPT !.cancelled = TRUE]
    <3> DEFINE f == Fail(r)
    <3>1. DOMAIN f = RunFields /\ f.pc = "cleanup" /\ NoLocals(f)
      BY <2>1, Fails
    <3>2. run' = [f EXCEPT !.cancelled = TRUE]
      BY <2>4
    <3> HIDE DEF f
    <3> QED BY <3>1, <3>2 DEF NoLocals
  <2> QED BY <2>2, <2>3, <2>4
<1>3. CASE Entered
  BY <1>3 DEF Entered
<1>4. CASE ReadAfterEntry /\ run' = [run EXCEPT !.pc = IF program = "velocity" THEN "baseline" ELSE "pace"]
  BY <1>4
<1>5. CASE CleanUp \/ Exit \/ Done
  BY <1>5 DEF CleanUp, Exit, Done
<1>6. CASE Confirm
  <2>1. run'.pc = "close" /\ run'.timing = run.timing /\ run'.settled = run.settled
    BY <1>6 DEF Confirm
  <2> QED BY <2>1
<1>7. CASE Close
  <2>1. run'.pc = "close" /\ run'.timing = run.timing /\ run'.settled = run.settled
    BY <1>7 DEF Close
  <2> QED BY <2>1
<1>8. CASE TakeBaseline
  <2>1. CASE run' = Fail(run)
    BY <2>1, Fails DEF NoLocals
  <2>2. CASE run' = [run EXCEPT !.pc = "pace", !.foreign = session = "gone"]
    BY <2>2
  <2> QED BY <1>8, <2>1, <2>2 DEF TakeBaseline
<1> QED BY <1>1, <1>2, <1>3, <1>4, <1>5, <1>6, <1>7, <1>8 DEF Elsewhere, StopBeforeEnter, ReadAfterEntry

LEMMA ElsewhereRest ==
  ASSUME RestInv, Typed', Elsewhere PROVE RestInv'
<1>1. run.pc \notin {"preflight", "frame"} /\ run'.pc \notin {"preflight", "enter"}
  BY ElsewhereKeeps, ElsewhereForgetsRest DEF RestInv
<1>2. run.pc # "pace"
  BY DEF Elsewhere, StopBeforeEnter, Enter, Entered, ReadAfterEntry, TakeBaseline, CleanUp, Exit, Confirm, Close,
       Done
<1>3. run.timing = FALSE /\ run.settled = FALSE
  BY <1>1, <1>2 DEF RestInv, TimedHere, InDwell, Spot, Typed, RunTyped, LocalsTyped
<1> QED BY <1>1, <1>3, ElsewhereForgetsRest, NothingTimed DEF RestInv

\* The programs that start at rest wait for it, and no other does.
LEMMA RestIsWaitedFor ==
  ASSUME program \in Programs
  PROVE  /\ program \in StartsAtRest => \E i \in 1 .. Len(Opening) : Opening[i] = "rest"
         /\ \A i \in 1 .. Len(Opening) : Opening[i] = "rest" => program \notin Policies
         /\ Len(Opening) \in Nat
<1> USE DEF Opening, StartsAtRest, Policies, EndEffectors, ExternalControlOpening, VelocityOpening, WbcOpening,
            TeleopOpening, GripperOpening, SineOpening, HandOpening
<1>1. CASE program = "external_control" BY <1>1
<1>2. CASE program = "velocity" BY <1>2
<1>3. CASE program = "wbc" BY <1>3
<1>4. CASE program = "teleop" BY <1>4
<1>5. CASE program = "gripper" BY <1>5
<1>6. CASE program = "sine" BY <1>6
<1>7. CASE program = "hand" BY <1>7
<1> QED BY <1>1, <1>2, <1>3, <1>4, <1>5, <1>6, <1>7 DEF Programs

LEMMA SpotIsOpening ==
  ASSUME Spot = "rest", run.step \in Nat \ {0}
  PROVE  run.pc = "preflight" /\ run.step \in 1 .. Len(Opening) /\ Opening[run.step] = "rest"
BY DEF Spot

LEMMA ClockFields ==
  ASSUME Typed
  PROVE  /\ clock.since \in 0 .. Longest /\ clock.unrest \in 0 .. Longest /\ clock.age \in 0 .. Window
         /\ clock.due \in 0 .. Period /\ clock.late \in 0 .. Period
BY DEF Typed, ClockTyped

LEMMA GrownGrows ==
  ASSUME NEW limit \in Nat, NEW s \in 0 .. limit, NEW t \in 0 .. limit
  PROVE  /\ Grown(s, limit) \in 0 .. limit /\ Grown(s, limit) >= s
         /\ s <= t => Grown(s, limit) <= Grown(t, limit)
BY DEF Grown

LEMMA TickRest ==
  ASSUME RestInv, Typed', Tick PROVE RestInv'
<1>1. run' = run /\ program' = program
  BY DEF Tick
<1>2. /\ clock.since \in 0 .. Longest /\ clock.unrest \in 0 .. Longest
  BY ClockFields DEF RestInv
<1>3. run.timing => clock'.since = Grown(clock.since, Longest)
  BY DEF Tick
<1>4. program \notin Policies => clock'.unrest \in {clock.unrest, Grown(clock.unrest, Longest)}
  BY DEF Tick
<1>5. program \in Programs /\ run.step \in Nat \ {0}
  BY DEF RestInv, Typed, RunTyped
<1>6. TimedHere'
  BY <1>1 DEF RestInv, TimedHere, InDwell, Spot, Opening
<1>7. RestIsTimed'
  <2>1. Spot' = Spot
    BY <1>1 DEF Spot, Opening
  <2>2. ASSUME Spot = "rest", run.timing PROVE clock'.since <= clock'.unrest
    <3>1. run.pc = "preflight" /\ program \notin Policies
      BY <1>5, <2>2, SpotIsOpening, RestIsWaitedFor
    <3>2. clock'.unrest = Grown(clock.unrest, Longest)
      BY <3>1 DEF Tick
    <3> QED BY <1>2, <1>3, <2>2, <3>2, GrownGrows, LongestIsLonger DEF RestInv, RestIsTimed
  <2> QED BY <1>1, <2>1, <2>2 DEF RestIsTimed
<1>8. RestIsSeen'
  <2>1. ASSUME program \notin Policies, clock.unrest >= Window PROVE clock'.unrest >= Window
    BY <1>2, <1>4, <2>1, GrownGrows, LongestIsLonger, WindowAssumption
  <2>2. run.pc # "enter"
    BY DEF Tick, Spot
  <2>3. Opening' = Opening
    BY <1>1 DEF Opening
  <2> QED BY <1>1, <1>5, <2>1, <2>2, <2>3, RestIsWaitedFor DEF RestInv, RestIsSeen
<1>9. DwellIsTimed'
  <2>1. InDwell' = InDwell /\ MovedUnnoted' = MovedUnnoted
    BY <1>1 DEF InDwell, MovedUnnoted
  <2>2. ASSUME InDwell, ~MovedUnnoted
        PROVE  /\ run.timing => clock'.since <= clock'.unrest
               /\ run.settled => clock'.unrest >= Settle
    <3>1. clock'.unrest = Grown(clock.unrest, Longest)
      BY <2>2 DEF Tick, InDwell, Policies
    <3>2. run.timing => clock'.since <= clock'.unrest
      BY <1>2, <1>3, <2>2, <3>1, GrownGrows, LongestIsLonger DEF RestInv, DwellIsTimed
    <3>3. run.settled => clock'.unrest >= Settle
      <4>1. clock'.unrest \in 0 .. Longest /\ clock'.unrest >= clock.unrest
        BY <1>2, <3>1, GrownGrows, LongestIsLonger
      <4> QED BY <1>2, <2>2, <4>1, WindowAssumption, SettleAssumption DEF RestInv, DwellIsTimed
    <3> QED BY <3>2, <3>3
  <2> QED BY <1>1, <2>1, <2>2 DEF DwellIsTimed
<1> QED BY <1>6, <1>7, <1>8, <1>9 DEF RestInv

\* The preflight but for the wait at rest: the clock stands, and no wait is passed.
LEMMA PreflightPassesNoRest ==
  ASSUME Typed, Preflight, ~WaitAtRest
  PROVE  /\ run.pc = "preflight" /\ clock' = clock
         /\ \/ BreaksOff
            \/ /\ run'.pc = "preflight" /\ run'.step = run.step + 1 /\ Spot # "rest"
               /\ run'.timing = run.timing /\ run'.settled = run.settled
            \/ /\ run'.pc = "enter" /\ run.step > Len(Opening)
               /\ run'.timing = run.timing /\ run'.settled = run.settled
<1> USE DEF Typed, RunTyped, RunFields
<1>1. run.pc = "preflight"
  BY PreflightKeeps
<1>2. CASE CheckRoster \/ CheckLimits \/ SetTouch \/ LeaveOut
  BY <1>1, <1>2 DEF CheckRoster, CheckLimits, SetTouch, LeaveOut, Passes, Onward
<1>3. CASE OpenNext
  BY <1>1, <1>3 DEF OpenNext, Onward, Resources
<1>4. CASE WarmUp \/ EraseHistory
  BY <1>1, <1>4 DEF WarmUp, EraseHistory, Onward
<1>5. CASE ReadFirst
  <2>1. CASE run' = Leave(run)
    BY <1>1, <1>5, <2>1, LeaveBreaks DEF ReadFirst
  <2>2. CASE run' = Onward(run)
    BY <1>1, <1>5, <2>2 DEF ReadFirst, Onward
  <2> QED BY <1>5, <2>1, <2>2 DEF ReadFirst
<1>6. CASE PreflightPasses
  BY <1>1, <1>6 DEF PreflightPasses
<1> QED BY <1>2, <1>3, <1>4, <1>5, <1>6 DEF Preflight

\* It waits once.
LEMMA FirstRest ==
  ASSUME program \in Programs, run.step \in Nat \ {0}, Spot = "rest"
  PROVE  \A i \in 1 .. Len(Opening) : ~(Opening[i] = "rest" /\ i < run.step)
<1> USE DEF Spot, Opening, ExternalControlOpening, VelocityOpening, WbcOpening,
            TeleopOpening, GripperOpening, SineOpening, HandOpening
<1>1. CASE program = "external_control" BY <1>1
<1>2. CASE program = "velocity" BY <1>2
<1>3. CASE program = "wbc" BY <1>3
<1>4. CASE program = "teleop" BY <1>4
<1>5. CASE program = "gripper" BY <1>5
<1>6. CASE program = "sine" BY <1>6
<1>7. CASE program = "hand" BY <1>7
<1> QED BY <1>1, <1>2, <1>3, <1>4, <1>5, <1>6, <1>7 DEF Programs, Policies, EndEffectors

LEMMA WaitAtRestRest ==
  ASSUME RestInv, Typed', WaitAtRest, program' = program PROVE RestInv'
<1>1. Spot = "rest" /\ run.pc = "preflight" /\ run.step \in Nat \ {0} /\ DOMAIN run = RunFields
  BY SpotIsOpening DEF WaitAtRest, RestInv, Typed, RunTyped
<1>2. run.settled = FALSE /\ clock.since \in 0 .. Longest /\ clock.unrest \in 0 .. Longest
  BY <1>1, ClockFields DEF RestInv, TimedHere, InDwell, Typed, RunTyped, LocalsTyped
<1>3. CASE run' = Fail(run)
  <2>1. BreaksOff
    BY <1>3, FailBreaks DEF RestInv
  <2> QED BY <2>1, NothingTimed DEF BreaksOff, NoLocals
<1>4. ASSUME NEW calm \in BOOLEAN,
             run' = [run EXCEPT !.timing = StillTimed(calm) /\ ~AtRest(calm),
                                !.step = IF AtRest(calm) THEN @ + 1 ELSE @],
             clock' = [clock EXCEPT !.age = 0, !.since = IF StillTimed(calm) /\ run.timing THEN @ ELSE 0,
                                    !.unrest = IF calm THEN @ ELSE 0]
      PROVE  RestInv'
  <2>1. /\ run'.pc = "preflight" /\ run'.settled = FALSE
        /\ run'.timing = (calm /\ ~AtRest(calm)) /\ run'.step = IF AtRest(calm) THEN run.step + 1 ELSE run.step
    BY <1>1, <1>2, <1>4 DEF RunFields, StillTimed
  <2>2. /\ clock'.since = IF calm /\ run.timing THEN clock.since ELSE 0
        /\ clock'.unrest = IF calm THEN clock.unrest ELSE 0
    BY <1>4 DEF StillTimed, RestInv, Typed, ClockTyped
  <2>3. Opening' = Opening
    BY DEF Opening
  <2>4. CASE AtRest(calm)
    <3>1. run'.timing = FALSE /\ run'.step = run.step + 1
      BY <2>1, <2>4
    <3>2. clock'.unrest >= Window
      <4>1. calm /\ run.timing /\ clock.since >= Window
        BY <2>4 DEF AtRest
      <4>2. clock.since <= clock.unrest
        BY <1>1, <4>1 DEF RestInv, RestIsTimed
      <4> QED BY <1>2, <2>2, <4>1, <4>2, WindowAssumption, SettleAssumption
    <3>3. TimedHere' /\ RestIsTimed'
      BY <2>1, <3>1 DEF TimedHere, RestIsTimed
    <3>4. RestIsSeen'
      BY <2>1, <3>2 DEF RestIsSeen
    <3>5. DwellIsTimed'
      BY <2>1 DEF DwellIsTimed, InDwell
    <3> QED BY <3>3, <3>4, <3>5 DEF RestInv
  <2>5. CASE ~AtRest(calm)
    <3>1. run'.step = run.step /\ Spot' = "rest"
      BY <1>1, <2>1, <2>3, <2>5 DEF Spot
    <3>2. run'.timing = calm
      BY <2>1, <2>5
    <3>3. TimedHere' /\ DwellIsTimed'
      BY <2>1, <3>1 DEF TimedHere, DwellIsTimed, InDwell
    <3>4. RestIsTimed'
      BY <1>1, <1>2, <2>2, <3>2 DEF RestInv, RestIsTimed
    <3>5. RestIsSeen'
      <4>1. \A i \in 1 .. Len(Opening) : ~(Opening[i] = "rest" /\ i < run.step)
        BY <1>1, FirstRest DEF RestInv, Typed
      <4> QED BY <2>1, <2>3, <3>1, <4>1 DEF RestIsSeen
    <3> QED BY <3>3, <3>4, <3>5 DEF RestInv
  <2> QED BY <2>4, <2>5
<1> QED BY <1>3, <1>4 DEF WaitAtRest

LEMMA PreflightRest ==
  ASSUME RestInv, Typed', Preflight, ~WaitAtRest, program' = program PROVE RestInv'
<1>1. run.pc = "preflight" /\ clock' = clock /\ run.step \in Nat \ {0} /\ program \in Programs
  BY PreflightPassesNoRest DEF RestInv, Typed, RunTyped
<1>2. run.settled = FALSE /\ Opening' = Opening
  BY <1>1 DEF RestInv, TimedHere, InDwell, Typed, RunTyped, LocalsTyped, Opening
<1>3. CASE BreaksOff
  BY <1>3, NothingTimed DEF BreaksOff, NoLocals
<1>4. CASE /\ run'.pc = "preflight" /\ run'.step = run.step + 1 /\ Spot # "rest"
           /\ run'.timing = run.timing /\ run'.settled = run.settled
  <2>1. run'.timing = FALSE /\ run'.settled = FALSE
    BY <1>1, <1>2, <1>4 DEF RestInv, TimedHere, InDwell, Typed, RunTyped, LocalsTyped
  <2>2. TimedHere' /\ RestIsTimed' /\ DwellIsTimed'
    BY <2>1 DEF TimedHere, RestIsTimed, DwellIsTimed
  <2>3. ASSUME NEW i \in 1 .. Len(Opening), Opening[i] = "rest", i < run'.step PROVE i < run.step
    <3>1. i # run.step
      BY <1>1, <1>4, <2>3 DEF Spot
    <3> QED BY <1>1, <1>4, <2>3, <3>1
  <2>4. RestIsSeen'
    BY <1>1, <1>2, <1>4, <2>3 DEF RestInv, RestIsSeen
  <2> QED BY <2>2, <2>4 DEF RestInv
<1>5. CASE /\ run'.pc = "enter" /\ run.step > Len(Opening)
           /\ run'.timing = run.timing /\ run'.settled = run.settled
  <2>1. Spot # "rest"
    BY <1>1, <1>5, RestIsWaitedFor, SpotIsOpening
  <2>2. run'.timing = FALSE /\ run'.settled = FALSE
    BY <1>1, <1>2, <1>5, <2>1 DEF RestInv, TimedHere, InDwell, Typed, RunTyped, LocalsTyped
  <2>3. TimedHere' /\ RestIsTimed' /\ DwellIsTimed'
    BY <2>2 DEF TimedHere, RestIsTimed, DwellIsTimed
  <2>4. ASSUME program \in StartsAtRest PROVE clock.unrest >= Window
    BY <1>1, <1>5, <2>4, RestIsWaitedFor DEF RestInv, RestIsSeen
  <2>5. RestIsSeen'
    BY <1>1, <1>5, <2>4 DEF RestIsSeen
  <2> QED BY <2>3, <2>5 DEF RestInv
<1> QED BY <1>3, <1>4, <1>5, PreflightPassesNoRest DEF RestInv

\* The steps of a frame that look at no state, and so leave the time at rest alone.
LEMMA FrameKeepsRest ==
  ASSUME Typed, FrameStep \/ GivesUp \/ Raises, ~ReadState, ~SettleDwell, ~FrameEnds
  PROVE  \/ BreaksOff
         \/ /\ run.pc \in {"pace", "frame"} /\ run'.pc = "frame" /\ run'.stage = run.stage
            /\ run'.timing = run.timing /\ run'.settled = run.settled /\ run'.calm = run.calm
            /\ clock'.since = clock.since /\ clock'.unrest = clock.unrest
            /\ run.pc = "frame" => /\ run'.step \in {run.step, run.step + 1}
                                   /\ Place \notin {"none", "state", "settle"}
                                   /\ Place # "target" => run'.step = run.step + 1
<1> USE DEF Typed, RunTyped, RunFields
<1>1. CASE CheckStatus \/ CheckWindow \/ CheckStop
  <2>1. run.pc = "frame" /\ clock' = clock
    BY <1>1, PlaceInFrame DEF CheckStatus, CheckWindow, CheckStop
  <2>2. CASE run' = Onward(run)
    BY <1>1, <2>1, <2>2 DEF CheckStatus, CheckWindow, CheckStop, Onward
  <2> QED BY <1>1, <2>2, FailBreaks, LeaveBreaks DEF CheckStatus, CheckWindow, CheckStop
<1>2. CASE ReadNewer
  <2>1. run.pc = "frame" /\ clock' = clock
    BY <1>2, PlaceInFrame DEF ReadNewer
  <2>2. ASSUME NEW arrival, run' = [Onward(run) EXCEPT !.repeats = IF arrival = "newer" THEN 0 ELSE @]
        PROVE  /\ run'.pc = "frame" /\ run'.stage = run.stage /\ run'.timing = run.timing
               /\ run'.settled = run.settled /\ run'.calm = run.calm /\ run'.step = run.step + 1
    BY <2>1, <2>2 DEF Onward
  <2> QED BY <1>2, <2>1, <2>2, LeaveBreaks DEF ReadNewer
<1>3. CASE Infer \/ Pace \/ Keep \/ TargetsWritten \/ WriteTarget
  <2>1. run.pc = "frame"
    BY <1>3, PlaceInFrame DEF Infer, Pace, Keep, TargetsWritten, WriteTarget
  <2>2. clock'.since = clock.since /\ clock'.unrest = clock.unrest
    BY <1>3 DEF Infer, Pace, Keep, TargetsWritten, WriteTarget, ClockTyped
  <2> QED BY <1>3, <2>1, <2>2 DEF Infer, Pace, Keep, TargetsWritten, WriteTarget, Onward
<1>4. CASE PublishFrame
  <2>1. run.pc = "frame" /\ clock' = clock
    BY <1>4, PlaceInFrame DEF PublishFrame
  <2>2. CASE run' = [Onward(run) EXCEPT !.repeats = IF @ <= MostRepeats THEN @ + 1 ELSE @]
    BY <1>4, <2>1, <2>2 DEF PublishFrame, Onward
  <2> QED BY <1>4, <2>2, FailBreaks DEF PublishFrame
<1>5. CASE ReadFeedback
  <2>1. run.pc = "frame" /\ clock' = clock
    BY <1>5, PlaceInFrame DEF ReadFeedback
  <2>2. ASSUME NEW seen, run' = [Onward(run) EXCEPT !.read = seen, !.unwritten = SidesOf(program)]
        PROVE  /\ run'.pc = "frame" /\ run'.stage = run.stage /\ run'.timing = run.timing
               /\ run'.settled = run.settled /\ run'.calm = run.calm /\ run'.step = run.step + 1
    BY <2>1, <2>2 DEF Onward
  <2> QED BY <1>5, <2>1, <2>2, FailBreaks DEF ReadFeedback
<1>6. CASE FrameBegins
  <2>1. CASE run' = [run EXCEPT !.pc = "frame"]
    BY <1>6, <2>1 DEF FrameBegins
  <2> QED BY <1>6, <2>1, LeaveBreaks DEF FrameBegins
<1>7. CASE GivesUp \/ Raises
  BY <1>7, FailBreaks DEF GivesUp, Raises
<1> QED BY <1>1, <1>2, <1>3, <1>4, <1>5, <1>6, <1>7 DEF FrameStep

LEMMA SettleIsInDwell ==
  ASSUME program \in Programs, run.step \in Nat \ {0}, Place = "settle"
  PROVE  InDwell /\ run.step = 5
<1>1. run.pc = "frame"
  BY PlaceInFrame
<1>2. program \notin {"velocity", "wbc", "teleop"}
  BY <1>1 DEF Place, Route, Frame, VelocityFrame, WbcFrame, TeleopFrame
<1>3. program \notin {"gripper", "sine", "hand"}
  BY <1>1, GripperPlaces, HandPlaces
<1>4. program = "external_control"
  BY <1>2, <1>3 DEF Programs, Policies, EndEffectors
<1> QED BY <1>1, <1>4, ExternalControlPlaces DEF InDwell

\* An invariant of a dwell is shown by what it says of one.
LEMMA DwellOnly ==
  ASSUME Typed', run'.pc \in {"pace", "frame"},
         run'.timing \/ run'.settled => InDwell', DwellIsTimed'
  PROVE  RestInv'
<1>1. TimedHere' /\ RestIsTimed'
  BY DEF TimedHere, RestIsTimed, Spot
<1>2. RestIsSeen'
  BY DEF RestIsSeen
<1> QED BY <1>1, <1>2 DEF RestInv

LEMMA FrameRest ==
  ASSUME RestInv, Typed', FrameStep \/ GivesUp \/ Raises, program' = program PROVE RestInv'
<1>1. /\ program \in Programs /\ run.step \in Nat \ {0} /\ DOMAIN run = RunFields
      /\ run.timing \in BOOLEAN /\ run.settled \in BOOLEAN /\ run.calm \in BOOLEAN
  BY DEF RestInv, Typed, RunTyped, LocalsTyped
<1>2. clock.since \in 0 .. Longest /\ clock.unrest \in 0 .. Longest
  BY ClockFields DEF RestInv
<1>3. CASE BreaksOff
  BY <1>3, NothingTimed DEF BreaksOff, NoLocals
<1>4. run.pc # "preflight" => (run.timing \/ run.settled => InDwell)
  BY <1>1 DEF RestInv, TimedHere, Spot
<1>5. CASE ReadState
  <2>1. run.pc = "frame" /\ Place = "state"
    BY <1>5, PlaceInFrame DEF ReadState
  <2>2. ASSUME NEW arrival \in Arrivals, NEW calm \in BOOLEAN,
               run' = [Onward(run) EXCEPT !.calm = calm, !.repeats = IF Advances(arrival) THEN 0 ELSE @],
               clock' = [clock EXCEPT !.age = IF Advances(arrival) THEN 0 ELSE @,
                                      !.unrest = IF calm THEN @ ELSE 0]
        PROVE  RestInv'
    <3>1. /\ run'.pc = "frame" /\ run'.stage = run.stage /\ run'.step = run.step + 1 /\ run'.calm = calm
          /\ run'.timing = run.timing /\ run'.settled = run.settled
      BY <1>1, <2>1, <2>2 DEF Onward, RunFields
    <3>2. clock'.since = clock.since /\ (calm => clock'.unrest = clock.unrest)
      BY <2>2 DEF RestInv, Typed, ClockTyped
    <3>3. InDwell' = InDwell
      BY <2>1, <3>1 DEF InDwell
    <3>4. ASSUME InDwell, ~MovedUnnoted' PROVE calm /\ ~MovedUnnoted
      <4>1. run.step = 2
        BY <1>1, <2>1, <3>4, ExternalControlPlaces DEF InDwell
      <4> QED BY <3>1, <3>4, <4>1 DEF MovedUnnoted
    <3>5. DwellIsTimed'
      BY <3>1, <3>2, <3>3, <3>4 DEF RestInv, DwellIsTimed
    <3> QED BY <1>4, <2>1, <3>1, <3>3, <3>5, DwellOnly
  <2> QED BY <1>3, <1>5, <2>2, FailBreaks DEF ReadState, RestInv
<1>6. CASE SettleDwell
  <2>1. InDwell /\ run.step = 5 /\ run.pc = "frame"
    BY <1>1, <1>6, SettleIsInDwell, PlaceInFrame DEF SettleDwell
  <2>2. /\ run'.pc = "frame" /\ run'.stage = run.stage /\ run'.step = 6
        /\ run'.timing = run.calm /\ run'.settled = Settling(run.calm).settled
    BY <1>1, <1>6, <2>1 DEF SettleDwell, Onward, RunFields
  <2>3. clock'.since = Settling(run.calm).since /\ clock'.unrest = clock.unrest
    BY <1>6 DEF SettleDwell, RestInv, Typed, ClockTyped
  <2>4. run.calm => /\ run.timing => clock.since <= clock.unrest
                    /\ run.settled => clock.unrest >= Settle
    BY <2>1 DEF RestInv, DwellIsTimed, MovedUnnoted
  <2>5. /\ run'.timing => clock'.since <= clock'.unrest
        /\ run'.settled => clock'.unrest >= Settle
    <3>1. CASE ~run.calm
      <4>1. Settling(run.calm) = [since |-> 0, settled |-> FALSE]
        BY <3>1 DEF Settling
      <4> QED BY <2>2, <3>1, <4>1
    <3>2. CASE run.calm /\ ~run.timing
      <4>1. Settling(run.calm) = [since |-> 0, settled |-> run.settled]
        BY <3>2 DEF Settling
      <4>2. clock'.since = 0 /\ clock'.unrest = clock.unrest
        BY <2>3, <4>1
      <4>3. run'.settled = run.settled
        BY <2>2, <4>1
      <4>4. clock'.since <= clock'.unrest
        BY <1>2, <4>2
      <4>5. run'.settled => clock'.unrest >= Settle
        BY <2>4, <3>2, <4>2, <4>3
      <4> QED BY <4>4, <4>5
    <3>3. CASE run.calm /\ run.timing
      <4>1. Settling(run.calm) = [since |-> clock.since, settled |-> run.settled \/ clock.since >= Settle]
        BY <3>3 DEF Settling
      <4>2. clock'.since = clock.since /\ clock'.unrest = clock.unrest
        BY <2>3, <4>1
      <4>3. run'.settled = (run.settled \/ clock.since >= Settle)
        BY <2>2, <4>1
      <4>4. clock.since <= clock.unrest /\ (run.settled => clock.unrest >= Settle)
        BY <2>4, <3>3
      <4>5. clock.since >= Settle => clock.unrest >= Settle
        BY <1>2, <4>4, WindowAssumption, SettleAssumption
      <4>6. run'.settled => clock'.unrest >= Settle
        BY <1>1, <4>2, <4>3, <4>4, <4>5
      <4> QED BY <4>2, <4>4, <4>6
    <3> QED BY <1>1, <3>1, <3>2, <3>3
  <2>6. InDwell'
    BY <2>1, <2>2 DEF InDwell
  <2> QED BY <2>2, <2>5, <2>6, DwellOnly DEF DwellIsTimed
<1>7. CASE FrameEnds
  <2>1. PICK stage \in Stages : run' = CASE stage = "end" -> Leave(run)
                                         [] stage = "raise" -> Fail(run)
                                         [] OTHER -> NewFrame(run, stage)
    BY <1>7 DEF FrameEnds
  <2>2. CASE run' = NewFrame(run, stage)
    <3>1. run'.pc = "pace" /\ run'.stage = stage /\ run.pc = "frame" /\ run.step > Len(Route) /\ clock' = clock
      BY <1>1, <1>7, <2>2, NewFrames DEF FrameEnds
    <3>2. CASE stage = "dwell" /\ (run.timing \/ run.settled)
      <4>1. run'.timing = run.timing /\ run'.settled = run.settled
        BY <1>1, <2>2, <3>2, NewFrameDwells
      <4>2. InDwell /\ run.step > 5
        BY <1>1, <1>4, <3>1, <3>2, ExternalControlPlaces DEF InDwell
      <4>3. InDwell'
        BY <3>1, <3>2, <4>2 DEF InDwell
      <4>4. ~MovedUnnoted
        BY <1>1, <4>2 DEF MovedUnnoted
      <4>5. DwellIsTimed'
        BY <3>1, <4>1, <4>2, <4>4 DEF RestInv, DwellIsTimed
      <4> QED BY <3>1, <4>3, <4>5, DwellOnly
    <3>3. CASE ~(stage = "dwell" /\ (run.timing \/ run.settled))
      <4>1. run'.timing = FALSE /\ run'.settled = FALSE
        BY <1>1, <2>2, <3>3, NewFrameDwells
      <4> QED BY <3>1, <4>1, NothingTimed
    <3> QED BY <3>2, <3>3
  <2> QED BY <1>3, <2>1, <2>2, FailBreaks, LeaveBreaks DEF RestInv
<1>8. ASSUME ~BreaksOff, ~ReadState, ~SettleDwell, ~FrameEnds PROVE RestInv'
  <2>1. /\ run.pc \in {"pace", "frame"} /\ run'.pc = "frame" /\ run'.stage = run.stage
        /\ run'.timing = run.timing /\ run'.settled = run.settled /\ run'.calm = run.calm
        /\ clock'.since = clock.since /\ clock'.unrest = clock.unrest
    BY <1>8, FrameKeepsRest DEF RestInv
  <2>2. InDwell' = InDwell
    BY <2>1 DEF InDwell
  <2>3. ASSUME InDwell, ~MovedUnnoted' PROVE ~MovedUnnoted
    <3>1. CASE run.pc = "pace"
      BY <3>1 DEF MovedUnnoted
    <3>2. CASE run.pc = "frame"
      <4>1. Place \notin {"none", "state", "settle", "target"} /\ run'.step = run.step + 1
        <5>1. Place # "target"
          BY <1>1, <2>3, <3>2, ExternalControlPlaces DEF InDwell
        <5> QED BY <1>8, <3>2, <5>1, FrameKeepsRest DEF RestInv
      <4>2. run.step \in {1, 3, 4}
        BY <1>1, <2>3, <3>2, <4>1, ExternalControlPlaces DEF InDwell
      <4> QED BY <2>1, <2>3, <3>2, <4>1, <4>2 DEF MovedUnnoted
    <3> QED BY <2>1, <3>1, <3>2
  <2>4. DwellIsTimed'
    BY <2>1, <2>2, <2>3 DEF RestInv, DwellIsTimed
  <2> QED BY <1>4, <2>1, <2>2, <2>4, DwellOnly
<1> QED BY <1>3, <1>5, <1>6, <1>7, <1>8

LEMMA RestInvStep ==
  ASSUME RestInv, [ProgramNext]_programVars PROVE RestInv'
<1>1. Typed' /\ program' = program
  BY TypedStep, ProgramStays DEF RestInv
<1>2. CASE Preflight
  BY <1>1, <1>2, PreflightRest, WaitAtRestRest
<1>3. CASE FrameStep \/ GivesUp \/ Raises
  BY <1>1, <1>3, FrameRest
<1>4. CASE Elsewhere
  BY <1>1, <1>4, ElsewhereRest
<1>5. CASE PreflightRaises \/ Interrupt
  <2>1. run'.pc \in {"cleanup", "close"} /\ NoLocals(run')
    BY <1>5, FailBreaks, InterruptForgets DEF RestInv, PreflightRaises, BreaksOff
  <2> QED BY <1>1, <2>1, NothingTimed DEF NoLocals
<1>6. CASE Tick
  BY <1>1, <1>6, TickRest
<1>7. CASE Around /\ ~Tick
  <2>1. run' = run /\ clock' = clock
    BY <1>7 DEF Around, SessionChanges, Accepts, StopSignal, FallsSilent, programVars
  <2>2. Opening' = Opening
    BY <1>1 DEF Opening
  <2> QED BY <1>1, <2>1, <2>2 DEF RestInv, TimedHere, RestIsTimed, RestIsSeen, DwellIsTimed, InDwell, MovedUnnoted, Spot
<1> QED BY <1>2, <1>3, <1>4, <1>5, <1>6, <1>7, StepsAre DEF RestInv

LEMMA RestInvMeansMeasured == RestInv => StillnessIsMeasured
<1> SUFFICES ASSUME RestInv PROVE StillnessIsMeasured
  OBVIOUS
<1>1. program \in Programs /\ run.step \in Nat \ {0}
  BY DEF RestInv, Typed, RunTyped
<1>2. ASSUME DwellIsOver, run.settled PROVE clock.unrest >= Settle
  <2>1. InDwell /\ run.pc = "frame" /\ Place = "none"
    BY <1>2 DEF RestInv, TimedHere, DwellIsOver
  <2>2. run.step > 5
    BY <1>1, <2>1, ExternalControlPlaces DEF InDwell
  <2>3. ~MovedUnnoted
    BY <1>1, <2>2 DEF MovedUnnoted
  <2> QED BY <1>2, <2>1, <2>3 DEF RestInv, DwellIsTimed
<1> QED BY <1>2 DEF RestInv, RestIsSeen, StillnessIsMeasured

\* No program that asks for rest enters without a whole window in which no state read
\* moved, and external_control takes no endpoint for settled before ENDPOINT_SETTLE_S of
\* them, however the reads and the clock interleave and whichever of the two times is the
\* longer (in the source the settling time is): _wait_for_stationary_body_state and
\* _publish_dwell start their time anew with every state that moves.
THEOREM RestIsMeasured == ProgramSpec => []StillnessIsMeasured
BY RestInvInit, RestInvStep, RestInvMeansMeasured, PTL DEF ProgramSpec

-----------------------------------------------------------------------------
(* How often a body state is used *)

LEMMA TimesNext ==
  ASSUME NEW p \in Nat, NEW r \in Nat PROVE p * (r + 1) = p * r + p /\ p * r \in Nat /\ p * 0 = 0
OBVIOUS

LEMMA Divides ==
  ASSUME NEW p \in Nat \ {0}, NEW n \in Nat, NEW q \in Nat, p * q <= n
  PROVE  q <= n \div p /\ n \div p \in Nat
OBVIOUS

\* Those whose frames are paced against the window; wbc and teleop wait for a new state.
Metered == Programs \ {"wbc", "teleop"}

PublishAt == IF program = "velocity" THEN 7 ELSE 3
PaceAt == CASE program = "velocity" -> 8 [] program = "hand" -> 5 [] OTHER -> 4

LEMMA MeteredPlaces ==
  ASSUME program \in Metered, run.pc = "frame", run.step \in Nat \ {0}
  PROVE  /\ Place = "publish" <=> run.step = PublishAt
         /\ Place \in {"pace", "keep"} <=> run.step = PaceAt
         /\ Place = "state" => run.step < PublishAt
         /\ run.step + 1 = PublishAt => Place \in {"state", "fresh"}
         /\ Place # "newer" /\ PublishAt \in Nat /\ PaceAt \in Nat /\ PublishAt < PaceAt
         /\ run.step > Len(Route) => run.step > PaceAt
<1>1. CASE program = "velocity"
  BY <1>1 DEF Place, Route, Frame, VelocityFrame, PublishAt, PaceAt
<1>2. CASE program = "external_control"
  <2>1. PublishAt = 3 /\ PaceAt = 4
    BY <1>2 DEF PublishAt, PaceAt
  <2>2. Len(Route) \in {4, 5} /\ (run.step = 5 => Place \in {"settle", "none"})
    BY <1>2, ExternalControlPlaces
  <2>3. run.step \in {1, 2, 3, 4, 5} \/ run.step > 5
    OBVIOUS
  <2>4. Place = "publish" <=> run.step = PublishAt
    BY <1>2, <2>1, <2>2, <2>3, ExternalControlPlaces
  <2>5. Place \in {"pace", "keep"} <=> run.step = PaceAt
    BY <1>2, <2>1, <2>2, <2>3, ExternalControlPlaces
  <2>6. /\ Place = "state" => run.step < PublishAt
        /\ run.step + 1 = PublishAt => Place \in {"state", "fresh"}
    BY <1>2, <2>1, <2>2, <2>3, ExternalControlPlaces
  <2>7. Place # "newer"
    BY <1>2, <2>1, <2>2, <2>3, ExternalControlPlaces
  <2>8. run.step > Len(Route) => run.step > PaceAt
    <3>1. CASE Len(Route) = 4 BY <2>1, <3>1
    <3>2. CASE Len(Route) = 5 BY <2>1, <3>2
    <3> QED BY <2>2, <3>1, <3>2
  <2> QED BY <2>1, <2>4, <2>5, <2>6, <2>7, <2>8
<1>3. CASE program \in {"gripper", "sine"}
  <2>1. PublishAt = 3 /\ PaceAt = 4
    BY <1>3 DEF PublishAt, PaceAt
  <2>2. /\ Len(Route) \in {4, 5, 6}
        /\ run.step = 5 => Place \in {"feedback", "none"}
        /\ run.step = 6 => Place \in {"target", "none"}
    BY <1>3, GripperPlaces
  <2>3. run.step \in {1, 2, 3, 4, 5, 6} \/ run.step > 6
    OBVIOUS
  <2>4. Place = "publish" <=> run.step = PublishAt
    BY <1>3, <2>1, <2>2, <2>3, GripperPlaces
  <2>5. Place \in {"pace", "keep"} <=> run.step = PaceAt
    BY <1>3, <2>1, <2>2, <2>3, GripperPlaces
  <2>6. /\ Place = "state" => run.step < PublishAt
        /\ run.step + 1 = PublishAt => Place \in {"state", "fresh"}
    BY <1>3, <2>1, <2>2, <2>3, GripperPlaces
  <2>7. Place # "newer"
    BY <1>3, <2>1, <2>2, <2>3, GripperPlaces
  <2>8. run.step > Len(Route) => run.step > PaceAt
    <3>1. CASE Len(Route) = 4 BY <2>1, <3>1
    <3>2. CASE Len(Route) = 5 BY <2>1, <3>2
    <3>3. CASE Len(Route) = 6 BY <2>1, <3>3
    <3> QED BY <2>2, <3>1, <3>2, <3>3
  <2> QED BY <2>1, <2>4, <2>5, <2>6, <2>7, <2>8
<1>4. CASE program = "hand"
  <2>1. PublishAt = 3 /\ PaceAt = 5
    BY <1>4 DEF PublishAt, PaceAt
  <2>2. Len(Route) \in {5, 6} /\ (run.step = 6 => Place \in {"target", "none"})
    BY <1>4, HandPlaces
  <2>3. run.step \in {1, 2, 3, 4, 5, 6} \/ run.step > 6
    OBVIOUS
  <2>4. Place = "publish" <=> run.step = PublishAt
    BY <1>4, <2>1, <2>2, <2>3, HandPlaces
  <2>5. Place \in {"pace", "keep"} <=> run.step = PaceAt
    BY <1>4, <2>1, <2>2, <2>3, HandPlaces
  <2>6. /\ Place = "state" => run.step < PublishAt
        /\ run.step + 1 = PublishAt => Place \in {"state", "fresh"}
    BY <1>4, <2>1, <2>2, <2>3, HandPlaces
  <2>7. Place # "newer"
    BY <1>4, <2>1, <2>2, <2>3, HandPlaces
  <2>8. run.step > Len(Route) => run.step > PaceAt
    <3>1. CASE Len(Route) = 5 BY <2>1, <3>1
    <3>2. CASE Len(Route) = 6 BY <2>1, <3>2
    <3> QED BY <2>2, <3>1, <3>2
  <2> QED BY <2>1, <2>4, <2>5, <2>6, <2>7, <2>8
<1> QED BY <1>1, <1>2, <1>3, <1>4 DEF Metered, Programs, Policies, EndEffectors

LEMMA OncePlaces ==
  ASSUME program \in {"wbc", "teleop"}, run.pc = "frame", run.step \in Nat \ {0}
  PROVE  /\ Place = "publish" <=> run.step = 6
         /\ Place = "newer" <=> run.step = 2
         /\ Place # "state"
<1>1. CASE program = "wbc"
  BY <1>1 DEF Place, Route, Frame, WbcFrame
<1>2. CASE program = "teleop"
  BY <1>2 DEF Place, Route, Frame, TeleopFrame
<1> QED BY <1>1, <1>2

NoneYet == run.pc \notin {"pace", "frame"} => run.repeats = 0

OncePerState ==
  program \in {"wbc", "teleop"} =>
    run.repeats <= 1 /\ (run.pc = "frame" /\ run.step \in 3 .. 6 => run.repeats = 0)

\* A frame begins when it is due.
DueFirst == program \in Metered /\ run.pc = "frame" /\ run.step <= PaceAt => clock.due = 0

\* Between its publish and its pacing a frame has not yet taken its period.
Unpaced == run.pc = "frame" /\ run.step \in PublishAt + 1 .. PaceAt
Allowed == IF Unpaced THEN 2 * Period ELSE Period

\* An overrun of a period is not made up for.
Credit == IF clock.late < Period THEN clock.late ELSE 0

\* The commands sent on a state take a period each, but for one that was late.
KeepsUp ==
  program \in Metered /\ run.pc \in {"pace", "frame"} =>
    clock.age = Window \/ Period * run.repeats + Credit < clock.age + clock.due + Allowed

\* So they fit into the window, and before a command one more does.
FitsWindow ==
  program \in Metered => /\ Period * run.repeats + 2 <= Window + 2 * Period
                         /\ run.pc = "frame" /\ run.step = PublishAt =>
                              Period * run.repeats + 2 <= Window + Period

RepeatInv == SendInv /\ NoneYet /\ OncePerState /\ DueFirst /\ KeepsUp /\ FitsWindow

LEMMA NoRepeats ==
  ASSUME SendInv', run'.repeats = 0, run'.pc # "frame"
  PROVE  RepeatInv'
<1>1. NoneYet' /\ OncePerState' /\ DueFirst'
  BY DEF NoneYet, OncePerState, DueFirst
<1>2. Period * run'.repeats = 0
  BY TimesNext, WindowAssumption
<1>3. FitsWindow'
  BY <1>2, WindowAssumption DEF FitsWindow
<1>4. KeepsUp'
  <2>1. clock'.age \in Nat /\ clock'.due \in Nat /\ clock'.late \in Nat
    BY DEF SendInv, Typed, ClockTyped
  <2>2. Credit' \in Nat /\ Credit' < Period /\ Allowed' >= Period
    BY <2>1, WindowAssumption DEF Credit, Allowed
  <2>3. Allowed' \in Nat
    BY WindowAssumption DEF Allowed
  <2>4. Period * run'.repeats + Credit' < clock'.age + clock'.due + Allowed'
    BY <1>2, <2>1, <2>2, <2>3, WindowAssumption
  <2> QED BY <2>4 DEF KeepsUp
<1> QED BY <1>1, <1>3, <1>4 DEF RepeatInv

LEMMA RepeatInvInit == ProgramInit => RepeatInv
<1> SUFFICES ASSUME ProgramInit PROVE RepeatInv
  OBVIOUS
<1>1. SendInv /\ run.repeats = 0 /\ run.pc = "preflight"
  BY SendInvInit DEF ProgramInit
<1>2. NoneYet /\ OncePerState /\ DueFirst /\ KeepsUp
  BY <1>1 DEF NoneYet, OncePerState, DueFirst, KeepsUp
<1>3. FitsWindow
  <2>1. Period * run.repeats = 0
    BY <1>1, TimesNext, WindowAssumption
  <2> QED BY <2>1, WindowAssumption DEF FitsWindow
<1> QED BY <1>1, <1>2, <1>3 DEF RepeatInv

\* What a step of a frame does to the count and to the timers.
CountsOn ==
  /\ run.pc = "frame" /\ run'.pc = "frame" /\ Place # "none"
  /\ run'.step = run.step + 1 \/ (run'.step = run.step /\ Place = "target")
  /\ Place \notin {"publish", "state", "newer"} => run'.repeats = run.repeats
  /\ Place = "publish" => run'.repeats \in {run.repeats, run.repeats + 1}
  /\ Place = "newer" => run'.repeats = 0
  /\ Place = "state" => \/ run'.repeats = 0 /\ clock'.age = 0
                        \/ run'.repeats = run.repeats /\ clock'.age = clock.age /\ clock.age < Window
  /\ Place = "fresh" => clock.age < Window
  /\ Place # "state" => clock'.age = clock.age
  /\ Place \notin {"pace", "keep"} => clock'.due = clock.due /\ clock'.late = clock.late
  /\ Place = "pace" => clock'.due = Period /\ clock'.late = clock.late
  /\ Place = "keep" => clock'.due = Kept /\ clock'.late = 0

CountsAnew == /\ run.pc = "frame" /\ run.step > Len(Route) /\ run'.pc = "pace"
              /\ run'.repeats = run.repeats /\ clock' = clock
CountBegins == /\ run.pc = "pace" /\ clock.due = 0 /\ run'.pc = "frame" /\ run'.step = run.step
               /\ run'.repeats = run.repeats /\ clock' = clock

LEMMA OnwardCounts ==
  ASSUME Typed, run' = Onward(run), clock' = clock, Place \notin {"none", "publish", "state", "newer", "pace", "keep"},
         Place = "fresh" => clock.age < Window
  PROVE  CountsOn
<1>1. run.pc = "frame"
  BY PlaceInFrame
<1>2. run'.pc = run.pc /\ run'.step = run.step + 1 /\ run'.repeats = run.repeats
  BY Onwards DEF Typed, RunTyped, RunFields
<1> QED BY <1>1, <1>2 DEF CountsOn

LEMMA FrameCounts ==
  ASSUME Typed, FrameStep \/ GivesUp \/ Raises
  PROVE  BreaksOff \/ CountsOn \/ CountsAnew \/ CountBegins
<1> USE DEF Typed, RunTyped, RunFields
<1>1. ASSUME CheckStatus \/ CheckStop \/ TargetsWritten PROVE BreaksOff \/ CountsOn
  BY <1>1, FailBreaks, LeaveBreaks, OnwardCounts DEF CheckStatus, CheckStop, TargetsWritten
<1>2. ASSUME CheckWindow PROVE BreaksOff \/ CountsOn
  <2>1. CASE clock.age >= Window
    BY <1>2, <2>1, FailBreaks DEF CheckWindow
  <2>2. CASE ~(clock.age >= Window)
    <3>1. clock.age < Window
      BY <2>2, ClockFields, WindowAssumption
    <3> QED BY <1>2, <2>2, <3>1, OnwardCounts DEF CheckWindow
  <2> QED BY <2>1, <2>2
<1>3. ASSUME ReadState PROVE BreaksOff \/ CountsOn
  <2>1. Place = "state" /\ run.pc = "frame"
    BY <1>3, PlaceInFrame DEF ReadState
  <2>2. PICK arrival \in Arrivals, calm \in BOOLEAN :
          /\ run' = IF Stale(arrival) THEN Fail(run)
                    ELSE [Onward(run) EXCEPT !.calm = calm,
                                            !.repeats = IF Advances(arrival) THEN 0 ELSE @]
          /\ clock' = [clock EXCEPT !.age = IF Advances(arrival) THEN 0 ELSE @,
                                    !.unrest = IF calm THEN @ ELSE 0]
    BY <1>3 DEF ReadState
  <2>3. CASE Stale(arrival)
    BY <2>2, <2>3, FailBreaks
  <2>4. CASE ~Stale(arrival)
    <3>1. run'.pc = "frame" /\ run'.step = run.step + 1
          /\ run'.repeats = (IF Advances(arrival) THEN 0 ELSE run.repeats)
      BY <2>1, <2>2, <2>4 DEF Onward
    <3>2. /\ clock'.age = (IF Advances(arrival) THEN 0 ELSE clock.age)
          /\ clock'.due = clock.due /\ clock'.late = clock.late
      BY <2>2 DEF ClockTyped
    <3>3. Advances(arrival) \/ clock.age < Window
      BY <2>4, ClockFields, WindowAssumption DEF Stale
    <3> QED BY <2>1, <3>1, <3>2, <3>3 DEF CountsOn
  <2> QED BY <2>3, <2>4
<1>4. ASSUME ReadNewer PROVE BreaksOff \/ CountsOn
  <2>1. Place = "newer" /\ run.pc = "frame" /\ clock' = clock
    BY <1>4, PlaceInFrame DEF ReadNewer
  <2>2. CASE run' = Leave(run)
    BY <2>2, LeaveBreaks
  <2>3. ASSUME NEW arrival \in Arrivals \cap NewerStates,
               run' = [Onward(run) EXCEPT !.repeats = IF arrival = "newer" THEN 0 ELSE @]
        PROVE  CountsOn
    <3>1. run'.pc = "frame" /\ run'.step = run.step + 1 /\ run'.repeats = 0
      BY <2>1, <2>3 DEF Onward, NewerStates
    <3> QED BY <2>1, <3>1 DEF CountsOn
  <2> QED BY <1>4, <2>2, <2>3 DEF ReadNewer
<1>5. ASSUME Infer PROVE CountsOn
  BY <1>5, PlaceInFrame DEF Infer, CountsOn, Onward
<1>6. ASSUME PublishFrame PROVE BreaksOff \/ CountsOn
  <2>1. CASE run' = [Onward(run) EXCEPT !.repeats = IF @ <= MostRepeats THEN @ + 1 ELSE @]
    <3>1. /\ run'.pc = run.pc /\ run'.step = run.step + 1 /\ run'.repeats \in {run.repeats, run.repeats + 1}
      BY <2>1 DEF Onward
    <3> QED BY <1>6, <3>1, PlaceInFrame DEF PublishFrame, CountsOn
  <2> QED BY <1>6, <2>1, FailBreaks DEF PublishFrame
<1>7. ASSUME Pace \/ Keep PROVE CountsOn
  <2>1. /\ run.pc = "frame" /\ Place \in {"pace", "keep"} /\ run'.pc = run.pc
        /\ run'.step = run.step + 1 /\ run'.repeats = run.repeats
    BY <1>7, PlaceInFrame DEF Pace, Keep, Onward
  <2>2. CASE Pace
    <3>1. clock'.due = Period /\ clock'.age = clock.age /\ clock'.late = clock.late
      BY <2>2 DEF Pace, ClockTyped
    <3> QED BY <2>1, <2>2, <3>1 DEF Pace, CountsOn
  <2>3. CASE Keep
    <3>1. clock'.due = Kept /\ clock'.late = 0 /\ clock'.age = clock.age
      BY <2>3 DEF Keep, ClockTyped
    <3> QED BY <2>1, <2>3, <3>1 DEF Keep, CountsOn
  <2> QED BY <1>7, <2>2, <2>3
<1>8. ASSUME SettleDwell PROVE CountsOn
  <2>1. /\ run.pc = "frame" /\ Place = "settle" /\ run'.pc = run.pc
        /\ run'.step = run.step + 1 /\ run'.repeats = run.repeats
    BY <1>8, PlaceInFrame DEF SettleDwell, Onward
  <2>2. clock'.due = clock.due /\ clock'.late = clock.late /\ clock'.age = clock.age
    BY <1>8 DEF SettleDwell, ClockTyped
  <2> QED BY <2>1, <2>2 DEF CountsOn
<1>9. ASSUME ReadFeedback PROVE BreaksOff \/ CountsOn
  <2>1. ASSUME NEW seen, run' = [Onward(run) EXCEPT !.read = seen, !.unwritten = SidesOf(program)]
        PROVE  CountsOn
    BY <1>9, <2>1, PlaceInFrame DEF ReadFeedback, CountsOn, Onward
  <2> QED BY <1>9, <2>1, FailBreaks DEF ReadFeedback
<1>10. ASSUME WriteTarget PROVE CountsOn
  BY <1>10, PlaceInFrame DEF WriteTarget, CountsOn
<1>11. ASSUME FrameEnds PROVE BreaksOff \/ CountsAnew
  <2>1. PICK stage \in Stages : run' = CASE stage = "end" -> Leave(run)
                                         [] stage = "raise" -> Fail(run)
                                         [] OTHER -> NewFrame(run, stage)
    BY <1>11 DEF FrameEnds
  <2>2. CASE run' = NewFrame(run, stage)
    <3>1. run'.pc = "pace" /\ run'.repeats = run.repeats
      BY <2>2, NewFrames, NewFrameKeeps
    <3> QED BY <1>11, <3>1 DEF FrameEnds, CountsAnew
  <2> QED BY <2>1, <2>2, FailBreaks, LeaveBreaks
<1>12. ASSUME FrameBegins PROVE BreaksOff \/ CountBegins
  <2>1. CASE run' = Leave(run)
    BY <2>1, LeaveBreaks
  <2>2. CASE clock.due = 0 /\ run' = [run EXCEPT !.pc = "frame"]
    BY <1>12, <2>2 DEF FrameBegins, CountBegins
  <2> QED BY <1>12, <2>1, <2>2 DEF FrameBegins
<1>13. ASSUME GivesUp \/ Raises PROVE BreaksOff
  BY <1>13, FailBreaks DEF GivesUp, Raises
<1> QED BY <1>1, <1>2, <1>3, <1>4, <1>5, <1>6, <1>7, <1>8, <1>9, <1>10, <1>11, <1>12, <1>13 DEF FrameStep

\* Time passes: a frame takes what is left of its period, and then is late.
LEMMA TickRepeats ==
  ASSUME RepeatInv, SendInv', Tick PROVE RepeatInv'
<1>1. run' = run /\ program' = program
  BY DEF Tick
<1>2. NoneYet' /\ OncePerState' /\ FitsWindow'
  BY <1>1 DEF RepeatInv, NoneYet, OncePerState, FitsWindow, PublishAt
<1>3. clock.age \in 0 .. Window /\ clock.due \in 0 .. Period /\ clock.late \in 0 .. Period
  BY ClockFields DEF RepeatInv, SendInv
<1>4. clock'.due = IF clock.due > 0 THEN clock.due - 1 ELSE 0
  BY DEF Tick
<1>5. DueFirst'
  BY <1>1, <1>3, <1>4 DEF RepeatInv, DueFirst, PaceAt
<1>6. KeepsUp'
  <2> SUFFICES ASSUME program \in Metered, run.pc \in {"pace", "frame"}, clock'.age # Window
               PROVE  Period * run.repeats + Credit' < clock'.age + clock'.due + Allowed'
    BY <1>1 DEF KeepsUp
  <2>1. clock'.age = Grown(clock.age, Window)
    BY DEF Tick, Metered
  <2>2. clock.age < Window /\ clock'.age = clock.age + 1
    BY <1>3, <2>1, WindowAssumption DEF Grown
  <2>3. Period * run.repeats + Credit < clock.age + clock.due + Allowed
    BY <1>3, <2>2, WindowAssumption DEF RepeatInv, KeepsUp
  <2>4. Allowed' = Allowed /\ Allowed \in Nat
    BY <1>1, WindowAssumption DEF Allowed, Unpaced, PublishAt, PaceAt
  <2>5. Period * run.repeats \in Nat
    BY TimesNext, WindowAssumption DEF RepeatInv, SendInv, Typed, RunTyped, LocalsTyped
  <2>6. CASE clock.due > 0
    <3>1. clock'.late = clock.late
      BY <1>3, <2>6 DEF Tick
    <3>2. Credit' = Credit /\ Credit \in Nat
      BY <1>3, <3>1, WindowAssumption DEF Credit
    <3> QED BY <1>3, <1>4, <2>2, <2>3, <2>4, <2>5, <2>6, <3>2
  <2>7. CASE clock.due = 0
    <3>1. clock'.late = clock.late \/ (clock.late < Period /\ clock'.late = clock.late + 1)
      BY DEF Tick
    <3>2. Credit' <= Credit + 1 /\ Credit \in Nat /\ Credit' \in Nat
      BY <1>3, <3>1, WindowAssumption DEF Credit
    <3> QED BY <1>3, <1>4, <2>2, <2>3, <2>4, <2>5, <2>7, <3>2
  <2> QED BY <1>3, <2>6, <2>7, WindowAssumption
<1> QED BY <1>2, <1>5, <1>6 DEF RepeatInv

LEMMA OnceStep ==
  ASSUME RepeatInv, SendInv', program' = program, CountsOn, program \in {"wbc", "teleop"}
  PROVE  RepeatInv'
<1>1. run.pc = "frame" /\ run'.pc = "frame" /\ run.step \in Nat \ {0} /\ run.repeats \in Nat
  BY DEF CountsOn, RepeatInv, SendInv, Typed, RunTyped, LocalsTyped
<1>2. run.repeats <= 1 /\ (run.step \in 3 .. 6 => run.repeats = 0)
  BY <1>1 DEF RepeatInv, OncePerState
<1>3. run'.repeats <= 1 /\ (run'.step \in 3 .. 6 => run'.repeats = 0)
  <2>1. CASE Place = "newer"
    BY <2>1 DEF CountsOn
  <2>2. CASE Place = "publish"
    <3>1. run.step = 6 /\ run.repeats = 0
      BY <1>1, <1>2, <2>2, OncePlaces
    <3> QED BY <2>2, <3>1 DEF CountsOn
  <2>3. CASE Place \notin {"newer", "publish"}
    <3>1. run'.repeats = run.repeats /\ run.step \notin {2, 6}
      BY <1>1, <2>3, OncePlaces DEF CountsOn
    <3>2. run'.step \in {run.step, run.step + 1}
      BY DEF CountsOn
    <3> QED BY <1>1, <1>2, <3>1, <3>2
  <2> QED BY <2>1, <2>2, <2>3
<1>4. program' \notin Metered
  BY DEF Metered
<1>5. NoneYet' /\ OncePerState' /\ DueFirst' /\ KeepsUp' /\ FitsWindow'
  BY <1>1, <1>3, <1>4 DEF NoneYet, OncePerState, DueFirst, KeepsUp, FitsWindow
<1> QED BY <1>5 DEF RepeatInv

\* A step of a paced frame: the check of the window comes before each publish, and its
\* pacing after it.
LEMMA MeteredStep ==
  ASSUME RepeatInv, SendInv', program' = program, CountsOn, program \in Metered
  PROVE  RepeatInv'
<1>1. run.pc = "frame" /\ run'.pc = "frame" /\ run.step \in Nat \ {0} /\ run.repeats \in Nat /\ run'.repeats \in Nat
  BY DEF CountsOn, RepeatInv, SendInv, Typed, RunTyped, LocalsTyped
<1>2. /\ clock.age \in 0 .. Window /\ clock.due \in 0 .. Period /\ clock.late \in 0 .. Period
  BY ClockFields DEF RepeatInv, SendInv
<1> DEFINE n == Period * run.repeats
           m == Period * run'.repeats
<1>3. /\ n \in Nat /\ m \in Nat
      /\ run'.repeats = run.repeats => m = n
      /\ run'.repeats = run.repeats + 1 => m = n + Period
      /\ run'.repeats = 0 => m = 0
  BY <1>1, TimesNext, WindowAssumption
<1> HIDE DEF n, m
<1>4. /\ Place = "publish" <=> run.step = PublishAt
      /\ Place \in {"pace", "keep"} <=> run.step = PaceAt
      /\ Place = "state" => run.step < PublishAt
      /\ run.step + 1 = PublishAt => Place \in {"state", "fresh"}
      /\ Place # "newer" /\ PublishAt \in Nat /\ PaceAt \in Nat /\ PublishAt < PaceAt
  BY <1>1, MeteredPlaces
<1>5. PublishAt' = PublishAt /\ PaceAt' = PaceAt
  BY DEF PublishAt, PaceAt
<1>6. run.step <= PaceAt => clock.due = 0
  BY <1>1 DEF RepeatInv, DueFirst
<1>7. clock.age = Window \/ n + Credit < clock.age + clock.due + Allowed
  BY <1>1 DEF RepeatInv, KeepsUp, n
<1>8. n + 2 <= Window + 2 * Period /\ (run.step = PublishAt => n + 2 <= Window + Period)
  BY <1>1 DEF RepeatInv, FitsWindow, n
<1>9. Credit \in Nat /\ Credit < Period /\ Credit' \in Nat
  BY <1>2, WindowAssumption DEF Credit, SendInv, Typed, ClockTyped
<1>10. /\ Allowed = IF run.step \in PublishAt + 1 .. PaceAt THEN 2 * Period ELSE Period
       /\ Allowed' = IF run'.step \in PublishAt + 1 .. PaceAt THEN 2 * Period ELSE Period
  BY <1>1, <1>5 DEF Allowed, Unpaced
<1>11. ASSUME /\ run'.step <= PaceAt => clock'.due = 0
              /\ clock'.age = Window \/ m + Credit' < clock'.age + clock'.due + Allowed'
              /\ m + 2 <= Window + 2 * Period
              /\ run'.step = PublishAt => m + 2 <= Window + Period
       PROVE  RepeatInv'
  <2>1. NoneYet' /\ OncePerState'
    BY <1>1 DEF NoneYet, OncePerState, Metered
  <2>2. DueFirst'
    BY <1>1, <1>5, <1>11 DEF DueFirst
  <2>3. KeepsUp'
    BY <1>11 DEF KeepsUp, m
  <2>4. FitsWindow'
    BY <1>5, <1>11 DEF FitsWindow, m
  <2> QED BY <2>1, <2>2, <2>3, <2>4 DEF RepeatInv
<1>12. CASE Place = "publish"
  <2>1. run.step = PublishAt /\ run'.step = PublishAt + 1 /\ m <= n + Period
    BY <1>1, <1>2, <1>3, <1>4, <1>12, WindowAssumption DEF CountsOn
  <2>2. clock'.age = clock.age /\ clock'.due = clock.due /\ clock'.late = clock.late
    BY <1>12 DEF CountsOn
  <2>3. Credit' = Credit
    BY <2>2 DEF Credit
  <2>4. Allowed = Period /\ Allowed' = 2 * Period
    BY <1>4, <1>10, <2>1
  <2> QED BY <1>2, <1>3, <1>4, <1>6, <1>7, <1>8, <1>9, <1>11, <2>1, <2>2, <2>3, <2>4, WindowAssumption
<1>13. CASE Place \in {"pace", "keep"}
  <2>1. run.step = PaceAt /\ run'.step = PaceAt + 1 /\ m = n /\ clock.due = 0
    BY <1>1, <1>3, <1>4, <1>6, <1>13 DEF CountsOn
  <2>2. Allowed = 2 * Period /\ Allowed' = Period
    BY <1>4, <1>10, <2>1
  <2>3. clock'.age = clock.age /\ clock'.due \in Nat /\ Credit' + Period <= Credit + clock'.due
    <3>1. CASE Place = "pace"
      <4>1. clock'.due = Period /\ clock'.late = clock.late /\ clock'.age = clock.age
        BY <3>1 DEF CountsOn
      <4> QED BY <1>9, <4>1, WindowAssumption DEF Credit
    <3>2. CASE Place = "keep"
      <4>1. clock'.due = Kept /\ clock'.late = 0 /\ clock'.age = clock.age
        BY <3>2 DEF CountsOn
      <4>2. Credit' = 0
        BY <4>1 DEF Credit
      <4>3. Kept \in Nat /\ Kept + Credit = Period
        BY <1>2, WindowAssumption DEF Kept, Credit
      <4> QED BY <1>9, <4>1, <4>2, <4>3, WindowAssumption
    <3> QED BY <1>13, <3>1, <3>2
  <2> QED BY <1>2, <1>3, <1>4, <1>7, <1>8, <1>9, <1>11, <2>1, <2>2, <2>3, WindowAssumption
<1>14. CASE Place = "state"
  <2>1. run.step < PublishAt /\ run'.step = run.step + 1 /\ clock.due = 0 /\ clock'.due = 0 /\ clock'.late = clock.late
    BY <1>1, <1>4, <1>6, <1>14 DEF CountsOn
  <2>2. Allowed = Period /\ Allowed' = Period /\ Credit' = Credit
    BY <1>1, <1>4, <1>10, <2>1 DEF Credit
  <2>3. CASE run'.repeats = 0 /\ clock'.age = 0
    BY <1>1, <1>3, <1>4, <1>9, <1>11, <2>1, <2>2, <2>3, WindowAssumption
  <2>4. CASE run'.repeats = run.repeats /\ clock'.age = clock.age /\ clock.age < Window
    <3>1. m = n /\ n + 2 <= Window + Period
      BY <1>2, <1>3, <1>7, <1>9, <2>1, <2>2, <2>4, WindowAssumption
    <3> QED BY <1>1, <1>2, <1>3, <1>4, <1>7, <1>8, <1>9, <1>11, <2>1, <2>2, <2>4, <3>1, WindowAssumption
  <2> QED BY <1>14, <2>3, <2>4 DEF CountsOn
<1>15. CASE Place \notin {"publish", "pace", "keep", "state"}
  <2>1. /\ m = n /\ clock'.age = clock.age /\ clock'.due = clock.due /\ clock'.late = clock.late
        /\ run'.step \in {run.step, run.step + 1} /\ run.step # PublishAt /\ run.step # PaceAt
    BY <1>3, <1>4, <1>15 DEF CountsOn
  <2>2. Allowed' = Allowed /\ Credit' = Credit
    BY <1>1, <1>4, <1>10, <2>1 DEF Credit
  <2>3. ASSUME run'.step = PublishAt PROVE n + 2 <= Window + Period
    <3>1. run.step + 1 = PublishAt
      BY <2>1, <2>3
    <3>2. Place = "fresh"
      BY <1>4, <1>15, <3>1
    <3>3. clock.age < Window
      BY <3>2 DEF CountsOn
    <3>4. clock.due = 0 /\ Allowed = Period
      BY <1>1, <1>4, <1>6, <1>10, <3>1
    <3> QED BY <1>2, <1>3, <1>7, <1>9, <3>3, <3>4, WindowAssumption
  <2>4. run'.step <= PaceAt => clock'.due = 0
    BY <1>1, <1>4, <1>6, <2>1
  <2> QED BY <1>7, <1>8, <1>11, <2>1, <2>2, <2>3, <2>4
<1> QED BY <1>12, <1>13, <1>14, <1>15

LEMMA FrameRepeats ==
  ASSUME RepeatInv, SendInv', program' = program, FrameStep \/ GivesUp \/ Raises PROVE RepeatInv'
<1>1. program \in Programs /\ run.step \in Nat \ {0}
  BY DEF RepeatInv, SendInv, Typed, RunTyped
<1>2. PublishAt' = PublishAt /\ PaceAt' = PaceAt
  BY DEF PublishAt, PaceAt
<1>3. CASE BreaksOff
  BY <1>3, NoRepeats DEF BreaksOff, NoLocals
<1>4. CASE CountsOn
  BY <1>1, <1>4, OnceStep, MeteredStep DEF Metered
<1>5. CASE CountsAnew
  <2>1. /\ run'.pc = "pace" /\ run.pc = "frame" /\ run'.repeats = run.repeats /\ clock' = clock
        /\ run.step > Len(Route)
    BY <1>5 DEF CountsAnew
  <2>2. NoneYet' /\ OncePerState' /\ DueFirst' /\ FitsWindow'
    BY <2>1 DEF RepeatInv, NoneYet, OncePerState, DueFirst, FitsWindow
  <2>3. KeepsUp'
    <3>1. CASE program \in Metered
      <4>1. run.step > PaceAt /\ PaceAt \in Nat /\ PublishAt \in Nat
        BY <1>1, <2>1, <3>1, MeteredPlaces
      <4>2. ~Unpaced /\ ~Unpaced'
        BY <1>1, <2>1, <4>1 DEF Unpaced
      <4>3. Allowed' = Allowed /\ Credit' = Credit
        BY <2>1, <4>2 DEF Allowed, Credit
      <4> QED BY <2>1, <3>1, <4>3 DEF RepeatInv, KeepsUp
    <3>2. CASE program \notin Metered
      BY <3>2 DEF KeepsUp
    <3> QED BY <3>1, <3>2
  <2> QED BY <2>2, <2>3 DEF RepeatInv
<1>6. CASE CountBegins
  <2>1. /\ run.pc = "pace" /\ clock.due = 0 /\ run'.pc = "frame" /\ run'.step = 1
        /\ run'.repeats = run.repeats /\ clock' = clock
    BY <1>6 DEF CountBegins, RepeatInv, SendInv, StepsFromOne
  <2>2. PublishAt \in Nat /\ PublishAt > 1
    BY DEF PublishAt
  <2>3. NoneYet' /\ OncePerState' /\ DueFirst' /\ FitsWindow'
    BY <1>2, <2>1, <2>2 DEF RepeatInv, NoneYet, OncePerState, DueFirst, FitsWindow
  <2>4. ~Unpaced /\ ~Unpaced'
    BY <1>2, <2>1, <2>2 DEF Unpaced
  <2>5. Allowed' = Allowed /\ Credit' = Credit
    BY <2>1, <2>4 DEF Allowed, Credit
  <2>6. KeepsUp'
    BY <2>1, <2>5 DEF RepeatInv, KeepsUp
  <2> QED BY <2>3, <2>6 DEF RepeatInv
<1> QED BY <1>3, <1>4, <1>5, <1>6, FrameCounts DEF RepeatInv, SendInv

LEMMA RepeatInvStep ==
  ASSUME RepeatInv, [ProgramNext]_programVars PROVE RepeatInv'
<1>1. SendInv' /\ program' = program
  BY SendInvStep, ProgramStays DEF RepeatInv
<1>2. Typed
  BY DEF RepeatInv, SendInv
<1>3. CASE Preflight
  <2>1. run.repeats = 0 /\ run'.pc # "frame" /\ run'.repeats = 0
    BY <1>2, <1>3, PreflightKeeps DEF RepeatInv, NoneYet
  <2> QED BY <1>1, <2>1, NoRepeats
<1>4. CASE PreflightRaises \/ Interrupt
  <2>1. run'.pc \in {"cleanup", "close"} /\ NoLocals(run')
    BY <1>2, <1>4, FailBreaks, InterruptForgets DEF PreflightRaises, BreaksOff
  <2> QED BY <1>1, <2>1, NoRepeats DEF NoLocals
<1>5. CASE FrameStep \/ GivesUp \/ Raises
  BY <1>1, <1>5, FrameRepeats
<1>6. CASE Elsewhere
  <2>1. run.pc \notin {"pace", "frame"}
    BY <1>6 DEF Elsewhere, StopBeforeEnter, Enter, Entered, ReadAfterEntry, TakeBaseline, CleanUp, Exit, Confirm, Close,
       Done
  <2>2. run.repeats = 0 /\ run'.pc # "frame" /\ run'.repeats = 0
    BY <1>2, <1>6, <2>1, ElsewhereKeeps DEF RepeatInv, NoneYet
  <2> QED BY <1>1, <2>2, NoRepeats
<1>7. CASE Tick
  BY <1>1, <1>7, TickRepeats
<1>8. CASE Around /\ ~Tick
  <2>1. run' = run /\ clock' = clock
    BY <1>8 DEF Around, SessionChanges, Accepts, StopSignal, FallsSilent, programVars
  <2>2. Allowed' = Allowed /\ Credit' = Credit /\ PublishAt' = PublishAt /\ PaceAt' = PaceAt
    BY <1>1, <2>1 DEF Allowed, Unpaced, Credit, PublishAt, PaceAt
  <2> QED BY <1>1, <2>1, <2>2 DEF RepeatInv, NoneYet, OncePerState, DueFirst, KeepsUp, FitsWindow
<1> QED BY <1>2, <1>3, <1>4, <1>5, <1>6, <1>7, <1>8, StepsAre

LEMMA RepeatInvMeansBounded == RepeatInv => RepeatsAreBounded
<1> SUFFICES ASSUME RepeatInv PROVE RepeatsAreBounded
  OBVIOUS
<1>1. program \in Programs /\ run.repeats \in Nat
  BY DEF RepeatInv, SendInv, Typed, RunTyped, LocalsTyped
<1>2. CASE program \in {"wbc", "teleop"}
  BY <1>2 DEF RepeatInv, OncePerState, RepeatsAreBounded
<1>3. CASE program \in Metered
  <2>1. Period * run.repeats + 2 <= Window + 2 * Period
    BY <1>3 DEF RepeatInv, FitsWindow
  <2>2. (Window - 2) \div Period \in Nat /\ Window - 2 \in Nat
    BY WindowAssumption
  <2>3. CASE run.repeats <= 2
    BY <1>1, <1>3, <2>2, <2>3 DEF RepeatsAreBounded, MostRepeats, Metered
  <2>4. CASE run.repeats > 2
    <3> DEFINE q == run.repeats - 2
    <3>1. q \in Nat /\ run.repeats = (q + 1) + 1
      BY <1>1, <2>4
    <3> HIDE DEF q
    <3>2. Period * run.repeats = Period * q + Period + Period
      BY <3>1, TimesNext, WindowAssumption
    <3>3. Period * q \in Nat /\ Period * q <= Window - 2
      BY <2>1, <2>2, <3>1, <3>2, TimesNext, WindowAssumption
    <3>4. q <= (Window - 2) \div Period
      BY <2>2, <3>1, <3>3, Divides, WindowAssumption
    <3> QED BY <1>1, <1>3, <2>2, <3>1, <3>4 DEF RepeatsAreBounded, MostRepeats, Metered
  <2> QED BY <1>1, <2>3, <2>4
<1> QED BY <1>1, <1>2, <1>3 DEF Metered

\* No body state is used for more commands than the window holds, whatever is late:
\* publish_frame and run_cycles look at the window before they publish, and next_publish
\* moves on by a period at least; wbc and teleop send one command on each state.
THEOREM StatesAreNotWorn == ProgramSpec => []RepeatsAreBounded
BY RepeatInvInit, RepeatInvStep, RepeatInvMeansBounded, PTL DEF ProgramSpec

=============================================================================
