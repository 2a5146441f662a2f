------------------------------- MODULE MCClientIO -------------------------------
(* Four parts of a client that share no state, checked one at a time: a         *)
(* behaviour is one of BodyFeedback, EndEffector, Recorder or BraincoCapture,   *)
(* and the other three are where they have nothing left to do.                  *)
EXTENDS BodyFeedback, EndEffector, Recorder, BraincoCapture

VARIABLE subject

MCMixes == {{"arrays", "native"}, {"snapshot"}, {"publish", "await"}}

\* Both makes and both modes (polling is the same class in both makes), and a client
\* whose sequences run out.
MCShapes == {[make |-> "hand", mode |-> "pull", limit |-> 2],
             [make |-> "hand", mode |-> "callback", limit |-> 1],
             [make |-> "gripper", mode |-> "callback", limit |-> 2]}

MCInit ==
  /\ subject \in {"feedback", "end effector", "recorder", "capture"}
  /\ PullInit /\ EndInit
  /\ subject # "feedback" => uses = {"snapshot"}
  /\ subject # "end effector" =>
       client.make = "hand" /\ client.mode = "pull" /\ client.limit = 2
  /\ recorder = IF subject = "recorder" THEN NewRecorder
                ELSE [NewRecorder EXCEPT !.closing = TRUE, !.error = TRUE,
                                        !.writer = "done", !.joined = TRUE]
  /\ IF subject = "capture" THEN CaptureInit
     ELSE capture = [NewCapture("live") EXCEPT !.place = "done"]

MCNext ==
  \/ /\ subject = "feedback" /\ PullNext
     /\ UNCHANGED <<subject, endVars, recorder, capture>>
  \/ /\ subject = "end effector" /\ EndNext
     /\ UNCHANGED <<subject, pullVars, recorder, capture>>
  \/ /\ subject = "recorder" /\ RecorderNext
     /\ UNCHANGED <<subject, pullVars, endVars, capture>>
  \/ /\ subject = "capture" /\ CaptureNext
     /\ UNCHANGED <<subject, pullVars, endVars, recorder>>

MCSpec == /\ MCInit /\ [][MCNext]_<<subject, pullVars, endVars, recorder, capture>>
          /\ PullFairness /\ EndFairness /\ RecorderFairness /\ CaptureFairness

-----------------------------------------------------------------------------

\* What a program's evidence files say: RecordIsAccounted and CaptureIsHonest.
EvidenceIsHonest == RecordIsAccounted /\ CaptureIsHonest

\* The four parts come to rest: PullCallsEnd, EndCallsEnd, RecorderEnds, CaptureEnds.
ClientCallsEnd ==
  <>[](PullRests /\ EndRests /\ recorder.joined /\ capture.place = "done")
=============================================================================
