------------------------------- MODULE Recorder -------------------------------
(***************************************************************************)
(* class Recorder of examples/wbc_tracking_mode/wbc_tracking_mode.py: the  *)
(* control loop submits rows to a bounded queue, a thread writes them, and *)
(* a last summary tells how many were submitted, written and dropped.      *)
(*                                                                         *)
(* Rows are numbered in the order they come and the summary is 0; the text *)
(* of a line is left out.  The disk is external: a write (or what makes a  *)
(* row a line), the flush and the close may fail.                          *)
(***************************************************************************)
EXTENDS Naturals, Sequences

CONSTANTS
  Capacity,      \* rows the queue holds
  MaxRows        \* bound: rows submitted

ASSUME RecorderAssumption == Capacity \in Nat \ {0} /\ MaxRows \in Nat

VARIABLE recorder   \* the Recorder, its file and the place of its writer

-----------------------------------------------------------------------------
\* accepted is history: the rows that write() took.
NewRecorder ==
  [rows |-> <<>>, closing |-> FALSE, summary |-> FALSE, error |-> FALSE,
   submitted |-> 0, written |-> 0, dropped |-> 0, accepted |-> <<>>,
   file |-> <<>>, report |-> <<>>, row |-> 0, writer |-> "wait", joined |-> FALSE]

\* write: rows the queue cannot take are counted, never waited for.
Write ==
  /\ ~recorder.closing /\ recorder.submitted < MaxRows
  /\ recorder' = LET r == [recorder EXCEPT !.submitted = @ + 1] IN
       IF r.error \/ Len(r.rows) >= Capacity
       THEN [r EXCEPT !.dropped = @ + 1]
       ELSE [r EXCEPT !.rows = Append(@, r.submitted), !.accepted = Append(@, r.submitted)]

\* The summary has a place of its own.
WriteSummary ==
  /\ ~recorder.closing /\ recorder.submitted < MaxRows /\ ~recorder.summary
  /\ recorder' = [recorder EXCEPT !.submitted = @ + 1, !.summary = TRUE]

\* _failed: what is not written any more counts as dropped.
Failed(r, current) ==
  [r EXCEPT !.error = TRUE, !.dropped = @ + Len(r.rows) + current, !.rows = <<>>]

At(place) == recorder.writer = place

TakeRow ==
  /\ At("wait") /\ recorder.rows # <<>>
  /\ recorder' = [recorder EXCEPT !.row = Head(recorder.rows), !.rows = Tail(@), !.writer = "put"]

PutRow ==
  /\ At("put")
  /\ \/ recorder' = [recorder EXCEPT !.file = Append(@, recorder.row), !.writer = "count"]
     \/ recorder' = [Failed(recorder, 1) EXCEPT !.writer = "wait"]

\* A row that was written is counted under the lock; so is the summary.
Count ==
  /\ recorder.writer \in {"count", "countSummary"}
  /\ recorder' = [recorder EXCEPT !.written = @ + 1,
                                  !.writer = IF @ = "count" THEN "wait" ELSE "flush"]

\* Faults the checks must notice are named Faulty...; nothing uses them.
FaultyNoMoreRows == recorder.closing
NoMoreRows == recorder.rows = <<>> /\ recorder.closing

\* The counts are taken, including the summary they are to be part of.
Report ==
  /\ At("wait") /\ NoMoreRows
  /\ recorder' = IF recorder.error THEN [recorder EXCEPT !.writer = "end"]
                 ELSE [recorder EXCEPT !.writer = "putSummary",
                         !.report = [submitted |-> recorder.submitted, dropped |-> recorder.dropped,
                                     written |-> recorder.written + 1]]

PutSummary ==
  /\ At("putSummary")
  /\ \/ recorder' = [recorder EXCEPT !.file = Append(@, 0), !.writer = "countSummary"]
     \/ recorder' = [Failed(recorder, 0) EXCEPT !.writer = "end"]

\* flush and file.close; a failure is an error even now.
EndWriter ==
  /\ recorder.writer \in {"flush", "end"}
  /\ \E r \in {recorder, Failed(recorder, 0)} :
       recorder' = [r EXCEPT !.writer = IF @ = "flush" THEN "end" ELSE "done"]

CloseRecorder == /\ ~recorder.closing
         /\ recorder' = [recorder EXCEPT !.closing = TRUE]
JoinWriter == /\ recorder.closing /\ At("done") /\ ~recorder.joined
        /\ recorder' = [recorder EXCEPT !.joined = TRUE]

-----------------------------------------------------------------------------

RecorderInit == recorder = NewRecorder

Writing == TakeRow \/ PutRow \/ Count \/ Report \/ PutSummary \/ EndWriter
RecorderNext == Write \/ WriteSummary \/ CloseRecorder \/ JoinWriter \/ Writing

\* The writer runs, and the program closes its recorder in a finally block.
RecorderFairness == WF_recorder(Writing \/ CloseRecorder \/ JoinWriter)

RecorderSpec == RecorderInit /\ [][RecorderNext]_recorder /\ RecorderFairness

-----------------------------------------------------------------------------
(* Properties *)

Bit(b) == IF b THEN 1 ELSE 0

\* The queue stays within its capacity, and counts are counts.
RecorderTypeOK == /\ Len(recorder.rows) <= Capacity
                  /\ recorder.submitted <= MaxRows
                  /\ recorder.joined => recorder.closing

\* A record that closed without error holds every row that was accepted, in order, then
\* one summary, and the counts in it are those of the file (README.md:34-37 of
\* wbc_tracking_mode); after an error every row submitted is counted, written or dropped.
RecordIsAccounted ==
  At("done") =>
    LET rows == recorder.submitted - Bit(recorder.summary) IN
    IF recorder.error
    THEN recorder.written + recorder.dropped
           = rows + Bit(recorder.file # <<>> /\ recorder.file[Len(recorder.file)] = 0)
    ELSE /\ recorder.file = recorder.accepted \o <<0>>
         /\ recorder.report = [submitted |-> recorder.submitted, dropped |-> recorder.dropped,
                               written |-> Len(recorder.file)]
         /\ rows = Len(recorder.accepted) + recorder.dropped

\* close() comes to its end, whatever the disk does.
RecorderEnds == <>[](recorder.joined)
=============================================================================
