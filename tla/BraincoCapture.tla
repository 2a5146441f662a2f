---------------------------- MODULE BraincoCapture ----------------------------
(***************************************************************************)
(* python/locomotion_aorta/brainco_capture.py.  capture_live: callbacks    *)
(* fill a bounded queue, the caller writes what they received and says at  *)
(* the end whether the trace is complete.  export_mcap: the caller reads a *)
(* recording and writes what is on the topics asked for.                   *)
(*                                                                         *)
(* Messages are numbered in the order they come, or are stored.  The node, *)
(* its callbacks, the recording and the disk are external: setting up,     *)
(* reading, writing and closing the node may fail, and a callback may      *)
(* still come after it.                                                    *)
(***************************************************************************)
EXTENDS Naturals, Sequences

CONSTANTS
  QueueSize,     \* capacity: messages the queue holds
  MaxArrivals,   \* bound: messages that reach the callbacks, or are in the recording
  Wanted         \* topic_map: the topics an export asks for

ASSUME CaptureAssumption == QueueSize \in Nat \ {0} /\ MaxArrivals \in Nat /\ Wanted # {}

VARIABLE capture    \* the queue, the file and the place of the caller

-----------------------------------------------------------------------------
Modes == {"live", "export"}

\* arrived and taken are history: messages seen while accepting (or wanted), and those
\* queued (or wanted).  counts: the topics that have a row.
NewCapture(mode) ==
  [pending |-> <<>>, accepting |-> mode = "live", dropped |-> 0, failure |-> FALSE,
   place |-> IF mode = "live" THEN "loop" ELSE "read", item |-> 0, file |-> <<>>,
   complete |-> FALSE, counts |-> {}, received |-> 0, arrived |-> 0, taken |-> <<>>,
   mode |-> mode]

FaultyAccepting == TRUE
Accepting == capture.accepting

\* receive, all of it under the lock; a payload may be too long.
Receive ==
  /\ capture.mode = "live" /\ capture.received < MaxArrivals
  /\ \E long \in BOOLEAN :
       LET c == [capture EXCEPT !.received = @ + 1]
           a == [c EXCEPT !.arrived = @ + 1] IN
       capture' = IF ~Accepting THEN c
                  ELSE IF long \/ Len(c.pending) = QueueSize THEN [a EXCEPT !.dropped = @ + 1]
                  ELSE [a EXCEPT !.pending = Append(@, c.received),
                                 !.taken = Append(@, c.received)]

\* The loop and, when nothing failed, the drain after it take a message and write it.
Get ==
  /\ capture.place \in {"loop", "drain"} /\ capture.pending # <<>>
  /\ capture' = [capture EXCEPT !.item = Head(capture.pending), !.pending = Tail(@),
                                !.place = IF @ = "loop" THEN "sample" ELSE "drainSample"]

\* decode: a wrong side, number of slots or size raises.  What is not finite becomes
\* null in feedback and commands of the body, hands and grippers, and raises in the rest.
Readings == {"valid", "nonfinite", "malformed"}
Decodes(kind, reading) == reading = "valid" \/ (reading = "nonfinite" /\ kind = "feedback")

\* TraceWriter.sample: a row, when the message can be decoded and the disk takes it.
Sample ==
  /\ capture.place \in {"sample", "drainSample"}
  /\ \E kind \in {"feedback", "other"}, reading \in Readings, disk \in BOOLEAN :
       capture' = IF Decodes(kind, reading) /\ disk
                  THEN [capture EXCEPT !.file = Append(@, capture.item),
                                       !.place = IF @ = "sample" THEN "loop" ELSE "drain"]
                  ELSE [capture EXCEPT !.failure = TRUE,
                                       !.place = IF @ = "sample" THEN "stop" ELSE "finish"]

\* The deadline, or an interrupt, a bad marker, a failing subscription.
LeaveLoop ==
  /\ capture.place = "loop"
  /\ \E failure \in BOOLEAN :
       capture' = [capture EXCEPT !.failure = failure, !.place = "stop"]

\* The first line of the finally block.
Stop == /\ capture.place = "stop"
        /\ capture' = [capture EXCEPT !.accepting = FALSE, !.place = "close"]

AfterClose(failed) == IF failed THEN "finish" ELSE "drain"

CloseNode ==
  /\ capture.place = "close"
  /\ \E failure \in {capture.failure, TRUE} :
       capture' = [capture EXCEPT !.failure = failure, !.place = AfterClose(failure)]

Drained == /\ capture.place = "drain" /\ capture.pending = <<>>
           /\ capture' = [capture EXCEPT !.place = "finish"]

\* TraceWriter.finish: the end row, unless writing or flushing it raises, and then rows
\* the stream still buffers may be missing too.
Finish ==
  /\ capture.place = "finish"
  /\ \/ capture' = [capture EXCEPT !.complete = ~capture.failure, !.place = "done"]
     \/ \E n \in 0 .. Len(capture.file) :
          capture' = [capture EXCEPT !.failure = TRUE, !.file = SubSeq(@, 1, n), !.place = "done"]

-----------------------------------------------------------------------------
(* export_mcap *)

\* The next record of the recording: on a topic not asked for, of another schema than
\* it was asked for with, or one to write.
ReadRecord ==
  /\ capture.place = "read" /\ capture.received < MaxArrivals
  /\ LET c == [capture EXCEPT !.received = @ + 1]
         a == [c EXCEPT !.arrived = @ + 1, !.taken = Append(@, c.received)] IN
     \/ capture' = c
     \/ capture' = [a EXCEPT !.failure = TRUE, !.place = "finish"]
     \/ \E topic \in Wanted, kind \in {"feedback", "other"}, reading \in Readings, disk \in BOOLEAN :
          capture' = IF Decodes(kind, reading) /\ disk
                     THEN [a EXCEPT !.file = Append(@, a.received), !.counts = @ \cup {topic}]
                     ELSE [a EXCEPT !.failure = TRUE, !.place = "finish"]

FaultyAllFound(c) == c.counts # {}
\* requested MCAP topics contain messages.
AllFound(c) == c.counts = Wanted

\* The end of the container, or a checksum, a magic or a chunk that is wrong.
EndOfRecording ==
  /\ capture.place = "read"
  /\ \E sound \in BOOLEAN :
       capture' = [capture EXCEPT !.failure = ~(sound /\ AllFound(capture)), !.place = "finish"]

-----------------------------------------------------------------------------

CaptureInit == \E mode \in Modes : capture = NewCapture(mode)

Capturing == \/ Get \/ Sample \/ Stop \/ CloseNode \/ Drained \/ Finish
             \/ ReadRecord \/ EndOfRecording
CaptureNext == Receive \/ LeaveLoop \/ Capturing

\* The caller runs, and the time of the capture comes to its end.
CaptureFairness == WF_capture(Capturing \/ LeaveLoop)

CaptureSpec == CaptureInit /\ [][CaptureNext]_capture /\ CaptureFairness

-----------------------------------------------------------------------------
(* Properties *)

\* A trace that says it is complete holds every message that was queued, in order, and
\* all the others that came are in its count of drops; one that says it is not is a
\* beginning of them ("bounded callback queue and explicit drops",
\* brainco_capture.py:192).  An export that says it is complete holds every message on
\* the topics asked for, in the order stored, and each of these topics has one.
CaptureIsHonest ==
  capture.place = "done" =>
    /\ capture.arrived = Len(capture.taken) + capture.dropped
    /\ capture.complete => capture.file = capture.taken
    /\ capture.complete /\ capture.mode = "export" => capture.counts = Wanted
    /\ capture.file = SubSeq(capture.taken, 1, Len(capture.file))

\* A capture ends.
CaptureEnds == <>[](capture.place = "done")
=============================================================================
