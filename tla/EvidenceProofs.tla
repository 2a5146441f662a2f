----------------------------- MODULE EvidenceProofs -----------------------------
(***************************************************************************)
(* Theorems about what the evidence files of a program say, for every      *)
(* capacity and every length of a recording: the log of Recorder, the      *)
(* trace of BraincoCapture and, for the model that the runs check, both.   *)
(***************************************************************************)
EXTENDS MCClientIO, SequenceTheorems, TLAPS

USE RecorderAssumption, CaptureAssumption

-----------------------------------------------------------------------------
(* Queues: what was taken is what is written, and what still waits *)

LEMMA NothingWaits ==
  ASSUME NEW S, NEW s \in Seq(S)
  PROVE  s \o <<>> = s
  BY ConcatEmptySeq

LEMMA TakesOne ==
  ASSUME NEW S, NEW s \in Seq(S), NEW q \in Seq(S), q # <<>>
  PROVE  s \o q = Append(s, Head(q)) \o Tail(q)
<1>1. Head(q) \in S /\ Tail(q) \in Seq(S)
  BY HeadTailProperties
<1>2. q = <<Head(q)>> \o Tail(q) /\ <<Head(q)>> \in Seq(S)
  <2>1. SubSeq(q, 1, Len(q)) = <<q[1]>> \o SubSeq(q, 2, Len(q))
    <3>1. 1 \in 1 .. Len(q) /\ Len(q) \in 1 .. Len(q)
      BY EmptySeq
    <3> QED
      BY <3>1, SubSeqRecursiveFirst
  <2>2. SubSeq(q, 1, Len(q)) = q
    BY SubSeqFull
  <2>3. Tail(q) = SubSeq(q, 2, Len(q))
    BY TailIsSubSeq
  <2>4. Head(q) = q[1]
    OBVIOUS
  <2> QED
    BY <1>1, <2>1, <2>2, <2>3, <2>4
<1>3. s \o (<<Head(q)>> \o Tail(q)) = (s \o <<Head(q)>>) \o Tail(q)
  BY <1>1, <1>2, ConcatAssociative
<1>4. Append(s, Head(q)) = s \o <<Head(q)>>
  BY <1>1, AppendIsConcat
<1> QED
  BY <1>2, <1>3, <1>4

LEMMA LengthsAdd ==
  ASSUME NEW S, NEW s \in Seq(S), NEW q \in Seq(S)
  PROVE  Len(s \o q) = Len(s) + Len(q) /\ Len(s) \in Nat /\ Len(q) \in Nat
  BY ConcatProperties, LenProperties

-----------------------------------------------------------------------------
(* The log *)

Rows == Nat \ {0}       \* the summary is 0

Places == {"wait", "put", "count", "putSummary", "countSummary", "flush", "end", "done"}

Records == [rows : Seq(Rows), closing : BOOLEAN, summary : BOOLEAN, error : BOOLEAN,
            submitted : Nat, written : Nat, dropped : Nat, accepted : Seq(Rows),
            file : Seq(Nat), report : {<<>>} \cup [submitted : Nat, dropped : Nat, written : Nat],
            row : Nat, writer : Places, joined : BOOLEAN]

Counting == {"count", "countSummary"}
Ending == {"countSummary", "flush", "end", "done"}

\* What the file holds while rows are written, and which rows are still to come.
Filed(r) ==
  /\ r.writer \in {"wait", "count", "putSummary"} =>
       r.file \in Seq(Rows) /\ r.accepted = r.file \o r.rows
  /\ r.writer = "put" =>
       r.file \in Seq(Rows) /\ r.row \in Rows /\ r.accepted = Append(r.file, r.row) \o r.rows

Reported(r) ==
  /\ r.writer \in {"putSummary"} \cup Ending => r.closing /\ r.rows = <<>>
  /\ r.writer = "putSummary" =>
       r.report = [submitted |-> r.submitted, dropped |-> r.dropped, written |-> Len(r.file) + 1]
  /\ r.writer \in Ending =>
       /\ r.file = Append(r.accepted, 0)
       /\ r.report = [submitted |-> r.submitted, dropped |-> r.dropped, written |-> Len(r.file)]

\* As long as nothing has failed.
Sound(r) ==
  /\ r.submitted = Len(r.accepted) + r.dropped + Bit(r.summary)
  /\ r.written + Bit(r.writer \in Counting) = Len(r.file)
  /\ Filed(r) /\ Reported(r)

Summarized(r) == r.file # <<>> /\ r.file[Len(r.file)] = 0

\* Once something has.
Broken(r) ==
  /\ r.rows = <<>> /\ r.writer \in {"wait", "end", "done"}
  /\ r.written + r.dropped + Bit(r.summary) = r.submitted + Bit(Summarized(r))

RecorderInv(r) == /\ r \in Records
                  /\ ~r.error => Sound(r)
                  /\ r.error => Broken(r)

\* A sound record that fails becomes a broken one: current is the row in hand.
LEMMA Fails ==
  ASSUME NEW r \in Records, Sound(r), ~r.error, NEW current \in {0, 1}, NEW place \in {"wait", "end", "done"},
         \/ r.writer = "put" /\ current = 1
         \/ r.writer \in {"putSummary", "flush", "end"} /\ current = 0
  PROVE  RecorderInv([Failed(r, current) EXCEPT !.writer = place])
<1> DEFINE d == [Failed(r, current) EXCEPT !.writer = place]
<1>1. /\ r.rows \in Seq(Rows) /\ Len(r.rows) \in Nat /\ r.dropped \in Nat /\ <<>> \in Seq(Rows)
      /\ r.accepted \in Seq(Rows) /\ Len(r.accepted) \in Nat /\ r.file \in Seq(Nat)
  BY EmptySeq, LenProperties DEF Records
<1> DEFINE rows == Len(r.rows)
           accepted == Len(r.accepted)
           lines == Len(r.file)
<1>0. rows \in Nat /\ accepted \in Nat /\ lines \in Nat /\ r.dropped \in Nat
  BY <1>1, LenProperties
<1>2. r.dropped + Len(r.rows) + current \in Nat
  BY <1>1
<1>3. ASSUME NEW n \in Nat
      PROVE  LET e == [[r EXCEPT !.error = TRUE, !.dropped = n, !.rows = <<>>] EXCEPT !.writer = place] IN
             /\ e \in Records /\ e.error /\ e.dropped = n /\ e.rows = <<>> /\ e.writer = place
             /\ e.file = r.file /\ e.written = r.written /\ e.submitted = r.submitted
             /\ e.summary = r.summary
  BY <1>1 DEF Records, Places
<1>4. /\ d \in Records /\ d.error /\ d.dropped = r.dropped + Len(r.rows) + current
      /\ d.rows = <<>> /\ d.writer = place
      /\ d.file = r.file /\ d.written = r.written /\ d.submitted = r.submitted
      /\ d.summary = r.summary
  BY <1>2, <1>3 DEF Failed
<1>5. r.written + r.dropped + Len(r.rows) + current + Bit(r.summary) = r.submitted + Bit(Summarized(r))
  <2>1. /\ r.written \in Nat /\ r.submitted \in Nat /\ Bit(r.summary) \in Nat
        /\ r.written = Len(r.file)
        /\ r.submitted = Len(r.accepted) + r.dropped + Bit(r.summary)
    <3>1. r.writer \notin Counting
      BY DEF Counting
    <3>2. r.written \in Nat /\ r.submitted \in Nat
      BY DEF Records
    <3>3. Bit(r.summary) \in Nat
      BY DEF Bit
    <3>4. r.written + 0 = Len(r.file)
      BY <3>1 DEF Sound, Bit
    <3> QED
      BY <3>2, <3>3, <3>4, <1>1, LenProperties DEF Sound
  <2>2. ASSUME r.file \in Seq(Rows) PROVE Bit(Summarized(r)) = 0
    <3>1. r.file # <<>> => r.file[Len(r.file)] \in Rows
      BY <2>2, EmptySeq, ElementOfSeq
    <3>2. ~Summarized(r)
      BY <3>1 DEF Summarized, Rows
    <3> QED
      BY <3>2 DEF Bit
  <2>3. CASE r.writer = "put" /\ current = 1
    <3>1. /\ r.file \in Seq(Rows) /\ r.row \in Rows /\ r.accepted = Append(r.file, r.row) \o r.rows
      BY <2>3 DEF Sound, Filed
    <3>2. Len(r.accepted) = Len(r.file) + 1 + Len(r.rows) /\ Len(r.file) \in Nat
      BY <1>1, <3>1, LengthsAdd, AppendProperties, LenProperties
    <3>3. Bit(Summarized(r)) = 0
      BY <2>2, <3>1
    <3>4. r.written + r.dropped + Len(r.rows) + current + Bit(r.summary) = r.submitted + 0
      <4>1. /\ r.written = lines /\ r.submitted = accepted + r.dropped + Bit(r.summary)
            /\ accepted = lines + current + rows
        BY <1>0, <2>1, <2>3, <3>2
      <4> HIDE DEF rows, accepted, lines
      <4>2. r.written + r.dropped + rows + current + Bit(r.summary) = r.submitted + 0
        BY <1>0, <2>1, <4>1
      <4> QED
        BY <4>2 DEF rows
    <3> QED
      BY <3>3, <3>4, Zenon
  <2>4. CASE r.writer = "putSummary" /\ current = 0
    <3>1. r.file \in Seq(Rows) /\ r.accepted = r.file \o r.rows
      BY <2>4 DEF Sound, Filed
    <3>2. Len(r.accepted) = Len(r.file) + Len(r.rows) /\ Len(r.file) \in Nat
      BY <1>1, <3>1, LengthsAdd
    <3>3. Bit(Summarized(r)) = 0
      BY <2>2, <3>1
    <3>4. r.written + r.dropped + Len(r.rows) + current + Bit(r.summary) = r.submitted + 0
      <4>1. /\ r.written = lines /\ r.submitted = accepted + r.dropped + Bit(r.summary)
            /\ accepted = lines + current + rows
        BY <1>0, <2>1, <2>4, <3>2
      <4> HIDE DEF rows, accepted, lines
      <4>2. r.written + r.dropped + rows + current + Bit(r.summary) = r.submitted + 0
        BY <1>0, <2>1, <4>1
      <4> QED
        BY <4>2 DEF rows
    <3> QED
      BY <3>3, <3>4, Zenon
  <2>5. CASE r.writer \in {"flush", "end"} /\ current = 0
    <3>1. r.file = Append(r.accepted, 0) /\ r.rows = <<>> /\ r.accepted \in Seq(Nat)
      BY <1>1, <2>5 DEF Sound, Reported, Ending, Rows
    <3>2. /\ Len(r.file) = Len(r.accepted) + 1 /\ Len(r.accepted) \in Nat
          /\ r.file # <<>> /\ r.file[Len(r.accepted) + 1] = 0
      BY <3>1, AppendProperties, LenProperties
    <3>3. Summarized(r) /\ Len(r.rows) = 0
      BY <3>1, <3>2 DEF Summarized
    <3>4. Bit(Summarized(r)) = 1
      BY <3>3 DEF Bit
    <3>5. r.written + r.dropped + Len(r.rows) + current + Bit(r.summary) = r.submitted + 1
      <4>1. /\ r.written = lines /\ r.submitted = accepted + r.dropped + Bit(r.summary)
            /\ lines = accepted + 1 /\ rows = 0
        BY <2>1, <2>5, <3>2, <3>3
      <4> HIDE DEF rows, accepted, lines
      <4>2. r.written + r.dropped + rows + current + Bit(r.summary) = r.submitted + 1
        BY <1>0, <2>1, <2>5, <4>1
      <4> QED
        BY <4>2 DEF rows
    <3> QED
      BY <3>4, <3>5, Zenon
  <2> QED
    BY <2>3, <2>4, <2>5
<1>6. Summarized(d) = Summarized(r)
  BY <1>4 DEF Summarized
<1> HIDE DEF d
<1>7. Broken(d)
  <2>1. d.written + d.dropped + Bit(d.summary) = r.submitted + Bit(Summarized(r))
    <3>1. r.written \in Nat /\ Bit(r.summary) \in Nat
      BY DEF Records, Bit
    <3> DEFINE summary == Bit(r.summary)
               summarized == Bit(Summarized(r))
    <3>2. /\ d.written = r.written /\ d.dropped = r.dropped + rows + current
          /\ r.written + r.dropped + rows + current + summary = r.submitted + summarized
          /\ r.written \in Nat /\ summary \in Nat /\ r.dropped \in Nat /\ current \in Nat
      BY <1>0, <1>4, <1>5, <3>1
    <3>3. Bit(d.summary) = summary
      BY <1>4
    <3> HIDE DEF rows, summary, summarized
    <3>4. d.written + d.dropped + summary = r.submitted + summarized
      BY ONLY <1>0, <3>2
    <3> QED
      BY <3>3, <3>4 DEF summarized
  <2>2. Bit(Summarized(d)) = Bit(Summarized(r))
    BY <1>6 DEF Bit
  <2> QED
    BY <1>4, <2>1, <2>2 DEF Broken
<1> QED
  BY <1>4, <1>7 DEF RecorderInv, d

\* close and join change neither counts nor places.
LEMMA ClosesRecorder ==
  ASSUME RecorderInv(recorder), CloseRecorder \/ JoinWriter
  PROVE  RecorderInv(recorder')
<1>1. recorder \in Records
  BY DEF RecorderInv
<1>2. /\ recorder' \in Records
      /\ recorder'.rows = recorder.rows /\ recorder'.summary = recorder.summary
      /\ recorder'.error = recorder.error /\ recorder'.submitted = recorder.submitted
      /\ recorder'.written = recorder.written /\ recorder'.dropped = recorder.dropped
      /\ recorder'.accepted = recorder.accepted /\ recorder'.file = recorder.file
      /\ recorder'.report = recorder.report /\ recorder'.row = recorder.row
      /\ recorder'.writer = recorder.writer /\ (recorder.closing => recorder'.closing)
  BY <1>1 DEF Records, CloseRecorder, JoinWriter
<1>3. CASE recorder.error
  BY <1>2, <1>3 DEF RecorderInv, Broken, Summarized
<1>4. CASE ~recorder.error
  BY <1>2, <1>4 DEF RecorderInv, Sound, Filed, Reported
<1> QED
  BY <1>3, <1>4

\* write, when the row is dropped.
LEMMA Drops ==
  ASSUME NEW r \in Records, RecorderInv(r), ~r.closing
  PROVE  RecorderInv([r EXCEPT !.submitted = r.submitted + 1, !.dropped = r.dropped + 1])
<1> DEFINE m == r.submitted + 1
           n == r.dropped + 1
           d == [r EXCEPT !.submitted = m, !.dropped = n]
           summary == Bit(r.summary)
           summarized == Bit(Summarized(r))
<1>1. /\ r.submitted \in Nat /\ r.dropped \in Nat /\ r.written \in Nat
      /\ r.accepted \in Seq(Rows) /\ Len(r.accepted) \in Nat
      /\ summary \in Nat /\ summarized \in Nat
  BY LenProperties DEF Records, Bit
<1>0. m \in Nat /\ n \in Nat /\ m = r.submitted + 1 /\ n = r.dropped + 1
  BY <1>1
<1> HIDE DEF m, n, summary, summarized
<1>2. /\ d \in Records /\ d.dropped = n /\ d.submitted = m
      /\ d.rows = r.rows /\ d.summary = r.summary
      /\ d.error = r.error /\ d.written = r.written
      /\ d.accepted = r.accepted /\ d.file = r.file /\ d.row = r.row
      /\ d.writer = r.writer /\ d.closing = r.closing
  BY <1>0 DEF Records
<1> HIDE DEF d
<1>3. CASE r.error
  <2>1. r.written + r.dropped + summary = r.submitted + summarized
    BY <1>3 DEF RecorderInv, Broken, summary, summarized
  <2>2. r.written + n + summary = m + summarized
    <3>1. /\ r.submitted \in Nat /\ r.dropped \in Nat /\ r.written \in Nat
          /\ summary \in Nat /\ summarized \in Nat
      BY <1>1
    <3> QED
      BY ONLY <1>0, <2>1, <3>1
  <2>3. Summarized(d) = Summarized(r)
    BY <1>2 DEF Summarized
  <2>4. d.written + d.dropped + Bit(d.summary) = d.submitted + Bit(Summarized(d))
    BY <1>2, <2>2, <2>3 DEF summary, summarized
  <2>5. Broken(d)
    BY <1>2, <1>3, <2>4 DEF RecorderInv, Broken
  <2> QED
    BY <1>2, <1>3, <2>5 DEF RecorderInv, d, m, n
<1>4. CASE ~r.error
  <2>1. r.submitted = Len(r.accepted) + r.dropped + summary
    BY <1>4 DEF RecorderInv, Sound, summary
  <2>2. m = Len(r.accepted) + n + summary
    <3> DEFINE accepted == Len(r.accepted)
    <3>1. /\ r.submitted = accepted + r.dropped + summary /\ accepted \in Nat
          /\ summary \in Nat /\ r.dropped \in Nat /\ r.submitted \in Nat
      BY <1>1, <2>1
    <3> HIDE DEF accepted
    <3>2. m = accepted + n + summary
      BY ONLY <1>0, <3>1
    <3> QED
      BY <3>2 DEF accepted
  <2>3. Filed(d) /\ Reported(d)
    BY <1>2, <1>4 DEF RecorderInv, Sound, Filed, Reported
  <2>4. d.written + Bit(d.writer \in Counting) = Len(d.file)
    BY <1>2, <1>4 DEF RecorderInv, Sound
  <2>5. Sound(d)
    BY <1>2, <2>2, <2>3, <2>4 DEF Sound, summary
  <2> QED
    BY <1>2, <1>4, <2>5 DEF RecorderInv, d, m, n
<1> QED
  BY <1>3, <1>4

\* write, when the queue takes the row.
LEMMA Queues ==
  ASSUME NEW r \in Records, RecorderInv(r), ~r.closing, ~r.error
  PROVE  RecorderInv([r EXCEPT !.submitted = r.submitted + 1,
                               !.rows = Append(r.rows, r.submitted + 1),
                               !.accepted = Append(r.accepted, r.submitted + 1)])
<1>0. \A s, q \in Seq(Rows), e \in Rows : Append(s \o q, e) = s \o Append(q, e)
  <2> SUFFICES ASSUME NEW s \in Seq(Rows), NEW q \in Seq(Rows), NEW e \in Rows
               PROVE  Append(s \o q, e) = s \o Append(q, e)
    OBVIOUS
  <2>1. s \o q \in Seq(Rows) /\ <<e>> \in Seq(Rows)
    BY ConcatProperties
  <2>2. Append(s \o q, e) = (s \o q) \o <<e>> /\ Append(q, e) = q \o <<e>>
    BY <2>1, AppendIsConcat
  <2>3. (s \o q) \o <<e>> = s \o (q \o <<e>>)
    BY <2>1, ConcatAssociative
  <2> QED
    BY <2>2, <2>3
<1> DEFINE n == r.submitted + 1
           d == [r EXCEPT !.submitted = n, !.rows = Append(r.rows, n),
                          !.accepted = Append(r.accepted, n)]
           accepted == Len(r.accepted)
           summary == Bit(r.summary)
<1>1. /\ r.submitted \in Nat /\ r.dropped \in Nat
      /\ r.rows \in Seq(Rows) /\ r.accepted \in Seq(Rows) /\ accepted \in Nat
      /\ summary \in Nat
  BY LenProperties DEF Records, Bit
<1>2. n \in Rows /\ n \in Nat
  BY <1>1 DEF Rows
<1>3. r.submitted = accepted + r.dropped + summary
  BY DEF RecorderInv, Sound
<1> HIDE DEF accepted, summary
<1>4. n = (accepted + 1) + r.dropped + summary
  <2>1. accepted \in Nat /\ summary \in Nat /\ r.dropped \in Nat /\ r.submitted \in Nat
    BY <1>1
  <2> QED
    BY ONLY <1>3, <2>1
<1> HIDE DEF n
<1>5. /\ Append(r.rows, n) \in Seq(Rows) /\ Append(r.accepted, n) \in Seq(Rows)
      /\ Len(Append(r.accepted, n)) = accepted + 1
  BY <1>1, <1>2, AppendProperties DEF accepted
<1>6. /\ d \in Records /\ d.dropped = r.dropped /\ d.submitted = n
      /\ d.rows = Append(r.rows, n) /\ d.summary = r.summary
      /\ ~d.error /\ d.written = r.written
      /\ d.accepted = Append(r.accepted, n) /\ d.file = r.file /\ d.row = r.row
      /\ d.writer = r.writer /\ d.closing = r.closing
  BY <1>2, <1>5 DEF Records
<1> HIDE DEF d
<1>7. Sound(r) /\ r.writer \notin {"putSummary"} \cup Ending
  BY DEF RecorderInv, Sound, Reported
<1>8. Filed(d)
  <2>1. CASE r.writer \in {"wait", "count", "putSummary"}
    <3>1. r.file \in Seq(Rows) /\ r.accepted = r.file \o r.rows
      BY <1>7, <2>1 DEF Sound, Filed
    <3>2. Append(r.accepted, n) = r.file \o d.rows
      <4>1. Append(r.file \o r.rows, n) = r.file \o Append(r.rows, n)
        BY <1>0, <1>1, <1>2, <3>1
      <4> QED
        BY <1>6, <3>1, <4>1
    <3> QED
      BY <1>6, <2>1, <3>1, <3>2 DEF Filed
  <2>2. CASE r.writer = "put"
    <3>1. r.file \in Seq(Rows) /\ r.row \in Rows /\ r.accepted = Append(r.file, r.row) \o r.rows
      BY <1>7, <2>2 DEF Sound, Filed
    <3>2. Append(r.file, r.row) \in Seq(Rows)
      BY <3>1, AppendProperties
    <3>3. Append(r.accepted, n) = Append(r.file, r.row) \o d.rows
      <4>1. Append(Append(r.file, r.row) \o r.rows, n) = Append(r.file, r.row) \o Append(r.rows, n)
        BY <1>0, <1>1, <1>2, <3>2
      <4> QED
        BY <1>6, <3>1, <4>1
    <3> QED
      BY <1>6, <2>2, <3>1, <3>3 DEF Filed
  <2> QED
    BY <1>6, <2>1, <2>2 DEF Filed
<1>9. Reported(d)
  BY <1>6, <1>7 DEF Reported
<1>10. d.written + Bit(d.writer \in Counting) = Len(d.file)
  BY <1>6, <1>7 DEF Sound
<1>11. Sound(d)
  BY <1>4, <1>5, <1>6, <1>8, <1>9, <1>10 DEF Sound, summary
<1> QED
  BY <1>6, <1>11 DEF RecorderInv, d, n

LEMMA Writes ==
  ASSUME RecorderInv(recorder), Write
  PROVE  RecorderInv(recorder')
<1>1. recorder \in Records /\ ~recorder.closing /\ recorder.submitted \in Nat
  BY DEF RecorderInv, Write, Records
<1>2. CASE recorder' = [recorder EXCEPT !.submitted = recorder.submitted + 1,
                                        !.dropped = recorder.dropped + 1]
  BY <1>1, <1>2, Drops
<1>3. CASE /\ ~recorder.error
           /\ recorder' = [recorder EXCEPT !.submitted = recorder.submitted + 1,
                                !.rows = Append(recorder.rows, recorder.submitted + 1),
                                !.accepted = Append(recorder.accepted, recorder.submitted + 1)]
  BY <1>1, <1>3, Queues
<1> QED
  BY <1>1, <1>2, <1>3 DEF Write, Records

LEMMA WritesSummary ==
  ASSUME RecorderInv(recorder), WriteSummary
  PROVE  RecorderInv(recorder')
<1> SUFFICES ASSUME NEW r \in Records, RecorderInv(r), ~r.closing, ~r.summary
             PROVE  RecorderInv([r EXCEPT !.submitted = r.submitted + 1, !.summary = TRUE])
  BY DEF WriteSummary, RecorderInv, Records
<1> DEFINE m == r.submitted + 1
           d == [r EXCEPT !.submitted = m, !.summary = TRUE]
           summarized == Bit(Summarized(r))
           accepted == Len(r.accepted)
<1>1. /\ r.submitted \in Nat /\ r.dropped \in Nat /\ r.written \in Nat
      /\ accepted \in Nat /\ summarized \in Nat /\ m \in Nat
      /\ Bit(r.summary) = 0 /\ Bit(TRUE) = 1
  BY LenProperties DEF Records, Bit
<1>2. m = r.submitted + 1
  OBVIOUS
<1> HIDE DEF m, summarized, accepted
<1>3. /\ d \in Records /\ d.dropped = r.dropped /\ d.submitted = m
      /\ d.rows = r.rows /\ d.summary = TRUE
      /\ d.error = r.error /\ d.written = r.written
      /\ d.accepted = r.accepted /\ d.file = r.file /\ d.row = r.row
      /\ d.writer = r.writer /\ d.closing = r.closing
  BY <1>1 DEF Records
<1> HIDE DEF d
<1>4. CASE r.error
  <2>1. r.written + r.dropped + 0 = r.submitted + summarized
    BY <1>1, <1>4 DEF RecorderInv, Broken, summarized
  <2>2. r.written + r.dropped + 1 = m + summarized
    BY ONLY <1>1, <1>2, <2>1
  <2>3. Summarized(d) = Summarized(r)
    BY <1>3 DEF Summarized
  <2>4. d.written + d.dropped + Bit(d.summary) = d.submitted + Bit(Summarized(d))
    BY <1>1, <1>3, <2>2, <2>3 DEF summarized
  <2> QED
    BY <1>3, <1>4, <2>4 DEF RecorderInv, Broken, d, m
<1>5. CASE ~r.error
  <2>1. r.submitted = accepted + r.dropped + 0
    BY <1>1, <1>5 DEF RecorderInv, Sound, accepted
  <2>2. m = accepted + r.dropped + 1
    BY ONLY <1>1, <1>2, <2>1
  <2>3. Filed(d) /\ Reported(d)
    BY <1>3, <1>5 DEF RecorderInv, Sound, Filed, Reported
  <2>4. d.written + Bit(d.writer \in Counting) = Len(d.file)
    BY <1>3, <1>5 DEF RecorderInv, Sound
  <2>5. d.submitted = Len(d.accepted) + d.dropped + Bit(d.summary)
    BY <1>1, <1>3, <2>2 DEF accepted
  <2> QED
    BY <1>3, <1>5, <2>3, <2>4, <2>5 DEF RecorderInv, Sound, d, m
<1> QED
  BY <1>4, <1>5

LEMMA TakesRow ==
  ASSUME RecorderInv(recorder), TakeRow
  PROVE  RecorderInv(recorder')
<1> DEFINE r == recorder
           d == [r EXCEPT !.row = Head(r.rows), !.rows = Tail(r.rows), !.writer = "put"]
<1>1. /\ r \in Records /\ ~r.error /\ Sound(r) /\ r.writer = "wait" /\ r.rows # <<>>
      /\ recorder' = d
  BY DEF RecorderInv, Broken, TakeRow, At
<1>2. /\ r.file \in Seq(Rows) /\ r.accepted = r.file \o r.rows /\ r.rows \in Seq(Rows)
  BY <1>1 DEF Sound, Filed, Records
<1>3. Head(r.rows) \in Rows /\ Tail(r.rows) \in Seq(Rows)
  BY <1>1, <1>2, HeadTailProperties
<1>4. r.accepted = Append(r.file, Head(r.rows)) \o Tail(r.rows)
  <2>1. r.file \o r.rows = Append(r.file, Head(r.rows)) \o Tail(r.rows)
    BY <1>1, <1>2, TakesOne
  <2> QED
    BY <1>2, <2>1
<1>5. Head(r.rows) \in Nat
  BY <1>3 DEF Rows
<1>6. /\ d \in Records /\ d.dropped = r.dropped /\ d.submitted = r.submitted
      /\ d.rows = Tail(r.rows) /\ d.summary = r.summary
      /\ d.error = r.error /\ d.written = r.written
      /\ d.accepted = r.accepted /\ d.file = r.file /\ d.row = Head(r.rows)
      /\ d.writer = "put" /\ d.closing = r.closing
  BY <1>1, <1>3, <1>5 DEF Records, Places
<1> HIDE DEF d
<1>7. Filed(d)
  BY <1>2, <1>3, <1>4, <1>6 DEF Filed
<1>8. Reported(d)
  BY <1>6 DEF Reported, Ending
<1>9. d.written + Bit(d.writer \in Counting) = Len(d.file)
  <2>1. r.writer \notin Counting /\ d.writer \notin Counting
    BY <1>1, <1>6 DEF Counting
  <2> QED
    BY <1>1, <1>6, <2>1 DEF Sound, Bit
<1>10. Sound(d)
  BY <1>1, <1>6, <1>7, <1>8, <1>9 DEF Sound
<1> QED
  BY <1>1, <1>6, <1>10 DEF RecorderInv

\* A row is in the file before it is counted.
LEMMA PutsRow ==
  ASSUME RecorderInv(recorder), PutRow
  PROVE  RecorderInv(recorder')
<1> DEFINE r == recorder
<1>1. /\ r \in Records /\ ~r.error /\ Sound(r) /\ r.writer = "put"
  BY DEF RecorderInv, Broken, PutRow, At
<1>2. CASE recorder' = [Failed(r, 1) EXCEPT !.writer = "wait"]
  BY <1>1, <1>2, Fails
<1>3. CASE recorder' = [r EXCEPT !.file = Append(r.file, r.row), !.writer = "count"]
  <2> DEFINE d == [r EXCEPT !.file = Append(r.file, r.row), !.writer = "count"]
  <2>1. /\ r.file \in Seq(Rows) /\ r.row \in Rows /\ r.accepted = Append(r.file, r.row) \o r.rows
    BY <1>1 DEF Sound, Filed
  <2>2. /\ Append(r.file, r.row) \in Seq(Rows) /\ Len(Append(r.file, r.row)) = Len(r.file) + 1
    BY <2>1, AppendProperties
  <2>3. Append(r.file, r.row) \in Seq(Nat)
    BY <2>2, SeqMonotonic DEF Rows
  <2>4. /\ d \in Records /\ d.dropped = r.dropped /\ d.submitted = r.submitted
        /\ d.rows = r.rows /\ d.summary = r.summary
        /\ d.error = r.error /\ d.written = r.written
        /\ d.accepted = r.accepted /\ d.file = Append(r.file, r.row)
        /\ d.writer = "count" /\ d.closing = r.closing
    BY <1>1, <2>3 DEF Records, Places
  <2> HIDE DEF d
  <2>5. Filed(d) /\ Reported(d)
    BY <2>1, <2>2, <2>4 DEF Filed, Reported, Ending
  <2>6. d.written + Bit(d.writer \in Counting) = Len(d.file)
    <3>1. r.writer \notin Counting /\ d.writer \in Counting
      BY <1>1, <2>4 DEF Counting
    <3>2. r.written + 0 = Len(r.file) /\ Bit(d.writer \in Counting) = 1 /\ r.written \in Nat
      BY <1>1, <3>1 DEF Sound, Bit, Records
    <3> QED
      BY <2>2, <2>4, <3>2
  <2>7. Sound(d)
    BY <1>1, <2>4, <2>5, <2>6 DEF Sound
  <2> QED
    BY <1>1, <1>3, <2>4, <2>7 DEF RecorderInv, d
<1> QED
  BY <1>2, <1>3 DEF PutRow

\* What is written is counted, and then the writer looks again or ends its file.
LEMMA Counts ==
  ASSUME RecorderInv(recorder), Count
  PROVE  RecorderInv(recorder')
<1> DEFINE r == recorder
           n == r.written + 1
           place == IF r.writer = "count" THEN "wait" ELSE "flush"
           d == [r EXCEPT !.written = n, !.writer = place]
<1>1. /\ r \in Records /\ ~r.error /\ Sound(r) /\ r.writer \in Counting
      /\ recorder' = d /\ n \in Nat /\ r.written \in Nat /\ Len(r.file) \in Nat
  BY LenProperties DEF RecorderInv, Broken, Count, Counting, Records
<1>2. n = Len(r.file)
  <2>1. Bit(r.writer \in Counting) = 1
    BY <1>1 DEF Bit
  <2> QED
    BY <1>1, <2>1 DEF Sound
<1>3. place \in Places /\ place \notin Counting
  BY DEF Places, Counting
<1> HIDE DEF n
<1>4. /\ d \in Records /\ d.dropped = r.dropped /\ d.submitted = r.submitted
      /\ d.rows = r.rows /\ d.summary = r.summary /\ d.report = r.report
      /\ d.error = r.error /\ d.written = n
      /\ d.accepted = r.accepted /\ d.file = r.file
      /\ d.writer = place /\ d.closing = r.closing
  BY <1>1, <1>3 DEF Records
<1> HIDE DEF d
<1>5. Filed(d)
  BY <1>1, <1>4 DEF Sound, Filed, Counting
<1>6. Reported(d)
  BY <1>1, <1>4 DEF Sound, Reported, Counting, Ending
<1>7. d.written + Bit(d.writer \in Counting) = Len(d.file)
  <2>1. Bit(d.writer \in Counting) = 0
    BY <1>3, <1>4 DEF Bit
  <2> QED
    BY <1>1, <1>2, <1>4, <2>1
<1>8. Sound(d)
  BY <1>1, <1>4, <1>5, <1>6, <1>7 DEF Sound
<1> QED
  BY <1>1, <1>4, <1>8 DEF RecorderInv

\* No more rows: the counts of the summary are taken, with the summary among them.
LEMMA Reports ==
  ASSUME RecorderInv(recorder), Report
  PROVE  RecorderInv(recorder')
<1> DEFINE r == recorder
<1>1. r \in Records /\ r.writer = "wait" /\ r.rows = <<>> /\ r.closing
  BY DEF RecorderInv, Report, At, NoMoreRows
<1>2. CASE r.error
  <2> DEFINE d == [r EXCEPT !.writer = "end"]
  <2>1. recorder' = d
    BY <1>2 DEF Report
  <2>2. /\ d \in Records /\ d.dropped = r.dropped /\ d.submitted = r.submitted
        /\ d.rows = r.rows /\ d.summary = r.summary /\ d.error = r.error
        /\ d.written = r.written /\ d.file = r.file /\ d.writer = "end"
    BY <1>1 DEF Records, Places
  <2> HIDE DEF d
  <2>3. Broken(d)
    BY <1>2, <2>2 DEF RecorderInv, Broken, Summarized
  <2> QED
    BY <1>2, <2>1, <2>2, <2>3 DEF RecorderInv
<1>3. CASE ~r.error
  <2> DEFINE n == r.written + 1
             told == [submitted |-> r.submitted, dropped |-> r.dropped, written |-> n]
             d == [r EXCEPT !.writer = "putSummary", !.report = told]
  <2>1. recorder' = d
    BY <1>3 DEF Report
  <2>2. n \in Nat /\ r.written \in Nat /\ r.submitted \in Nat /\ r.dropped \in Nat
    BY <1>1 DEF Records
  <2>3. told \in [submitted : Nat, dropped : Nat, written : Nat]
    BY <2>2
  <2>4. n = Len(r.file) + 1
    <3>1. Bit(r.writer \in Counting) = 0
      BY <1>1 DEF Counting, Bit
    <3>2. r.written + 0 = Len(r.file)
      BY <1>3, <3>1 DEF RecorderInv, Sound
    <3> QED
      BY <2>2, <3>2
  <2> HIDE DEF n
  <2>5. told.submitted = r.submitted /\ told.dropped = r.dropped /\ told.written = n
    OBVIOUS
  <2>6. /\ d \in Records /\ d.dropped = r.dropped /\ d.submitted = r.submitted
        /\ d.rows = r.rows /\ d.summary = r.summary /\ d.error = r.error
        /\ d.written = r.written /\ d.file = r.file /\ d.accepted = r.accepted
        /\ d.writer = "putSummary" /\ d.closing = r.closing
        /\ d.report = [submitted |-> r.submitted, dropped |-> r.dropped, written |-> n]
    BY <1>1, <2>3 DEF Records, Places
  <2> HIDE DEF d
  <2>7. Filed(d)
    BY <1>1, <1>3, <2>6 DEF RecorderInv, Sound, Filed
  <2>8. Reported(d)
    BY <1>1, <2>4, <2>6 DEF Reported, Ending
  <2>9. d.written + Bit(d.writer \in Counting) = Len(d.file)
    BY <1>1, <1>3, <2>6 DEF RecorderInv, Sound, Counting, Bit
  <2>10. Sound(d)
    BY <1>3, <2>6, <2>7, <2>8, <2>9 DEF RecorderInv, Sound
  <2> QED
    BY <1>3, <2>1, <2>6, <2>10 DEF RecorderInv
<1> QED
  BY <1>2, <1>3

\* The summary is in the file before it is counted.
LEMMA PutsSummary ==
  ASSUME RecorderInv(recorder), PutSummary
  PROVE  RecorderInv(recorder')
<1> DEFINE r == recorder
           file == Append(r.file, 0)
           d == [r EXCEPT !.file = file, !.writer = "countSummary"]
<1>1. /\ r \in Records /\ ~r.error /\ Sound(r) /\ r.writer = "putSummary"
  BY DEF RecorderInv, Broken, PutSummary, At
<1>2. CASE recorder' = [Failed(r, 0) EXCEPT !.writer = "end"]
  BY <1>1, <1>2, Fails
<1>3. CASE recorder' = d
  <2>1. /\ r.file \in Seq(Rows) /\ r.accepted = r.file \o r.rows /\ r.rows = <<>>
    BY <1>1 DEF Sound, Filed, Reported
  <2>2. r.accepted = r.file
    BY <2>1, NothingWaits
  <2>3. /\ r.file \in Seq(Nat) /\ 0 \in Nat
    BY <1>1 DEF Records
  <2>4. file \in Seq(Nat) /\ Len(file) = Len(r.file) + 1 /\ Len(r.file) \in Nat
    BY <2>3, AppendProperties, LenProperties
  <2> HIDE DEF file
  <2>5. /\ d \in Records /\ d.dropped = r.dropped /\ d.submitted = r.submitted
        /\ d.rows = r.rows /\ d.summary = r.summary /\ d.report = r.report
        /\ d.error = r.error /\ d.written = r.written
        /\ d.accepted = r.accepted /\ d.file = file
        /\ d.writer = "countSummary" /\ d.closing = r.closing
    BY <1>1, <2>4 DEF Records, Places
  <2> HIDE DEF d
  <2>6. d.file = Append(d.accepted, 0)
    BY <2>2, <2>5 DEF file
  <2>7. d.report = [submitted |-> d.submitted, dropped |-> d.dropped, written |-> Len(d.file)]
    BY <1>1, <2>4, <2>5 DEF Sound, Reported
  <2>8. Filed(d) /\ Reported(d)
    BY <1>1, <2>5, <2>6, <2>7 DEF Sound, Filed, Reported, Ending
  <2>9. d.written + Bit(d.writer \in Counting) = Len(d.file)
    <3>1. Bit(r.writer \in Counting) = 0 /\ Bit(d.writer \in Counting) = 1
      BY <1>1, <2>5 DEF Counting, Bit
    <3>2. r.written + 0 = Len(r.file) /\ r.written \in Nat
      BY <1>1, <3>1 DEF Sound, Records
    <3> QED
      BY <2>4, <2>5, <3>1, <3>2
  <2>10. Sound(d)
    BY <1>1, <2>5, <2>8, <2>9 DEF Sound
  <2> QED
    BY <1>1, <1>3, <2>5, <2>10 DEF RecorderInv
<1> QED
  BY <1>2, <1>3 DEF PutSummary

\* Flushing and closing: a failure is an error even now.
LEMMA EndsWriter ==
  ASSUME RecorderInv(recorder), EndWriter
  PROVE  RecorderInv(recorder')
<1> DEFINE r == recorder
           place == IF r.writer = "flush" THEN "end" ELSE "done"
           d == [r EXCEPT !.writer = place]
           f == [Failed(r, 0) EXCEPT !.writer = place]
<1>1. r \in Records /\ r.writer \in {"flush", "end"} /\ place \in {"end", "done"}
  BY DEF RecorderInv, EndWriter
<1>2. Failed(r, 0).writer = r.writer
  BY <1>1 DEF Failed, Records
<1>3. recorder' = d \/ recorder' = f
  <2>1. PICK s \in {r, Failed(r, 0)} :
          recorder' = [s EXCEPT !.writer = IF s.writer = "flush" THEN "end" ELSE "done"]
    BY DEF EndWriter
  <2> QED
    BY <1>2, <2>1
<1>4. ASSUME recorder' = d PROVE RecorderInv(recorder')
  <2>1. /\ d \in Records /\ d.dropped = r.dropped /\ d.submitted = r.submitted
        /\ d.rows = r.rows /\ d.summary = r.summary /\ d.report = r.report
        /\ d.error = r.error /\ d.written = r.written
        /\ d.accepted = r.accepted /\ d.file = r.file
        /\ d.writer = place /\ d.closing = r.closing
    BY <1>1 DEF Records, Places
  <2> HIDE DEF d
  <2>2. CASE r.error
    <3>1. Broken(d)
      BY <1>1, <2>1, <2>2 DEF RecorderInv, Broken, Summarized
    <3> QED
      BY <1>4, <2>1, <2>2, <3>1 DEF RecorderInv
  <2>3. CASE ~r.error
    <3>1. Filed(d) /\ Reported(d)
      BY <1>1, <2>1, <2>3 DEF RecorderInv, Sound, Filed, Reported, Ending
    <3>2. Bit(d.writer \in Counting) = Bit(r.writer \in Counting)
      BY <1>1, <2>1 DEF Bit, Counting
    <3>3. Sound(d)
      BY <2>1, <2>3, <3>1, <3>2 DEF RecorderInv, Sound
    <3> QED
      BY <1>4, <2>1, <2>3, <3>3 DEF RecorderInv
  <2> QED
    BY <2>2, <2>3
<1>5. ASSUME recorder' = f PROVE RecorderInv(recorder')
  <2>1. CASE ~r.error
    BY <1>1, <1>5, <2>1, Fails DEF RecorderInv
  <2>2. CASE r.error
    <3>1. /\ f \in Records /\ f.dropped = r.dropped /\ f.submitted = r.submitted
          /\ f.rows = <<>> /\ f.summary = r.summary /\ f.error
          /\ f.written = r.written /\ f.file = r.file /\ f.writer = place
      <4>1. r.rows = <<>> /\ Len(r.rows) = 0 /\ r.dropped \in Nat
        BY <2>2 DEF RecorderInv, Broken, Records
      <4>2. r.dropped + Len(r.rows) + 0 = r.dropped
        BY <4>1
      <4>3. f = [r EXCEPT !.error = TRUE, !.rows = <<>>, !.writer = place]
        BY <1>1, <4>1, <4>2 DEF Failed, Records
      <4> DEFINE e == [r EXCEPT !.error = TRUE, !.rows = <<>>, !.writer = place]
      <4>4. /\ e \in Records /\ e.dropped = r.dropped /\ e.submitted = r.submitted
            /\ e.rows = <<>> /\ e.summary = r.summary /\ e.error
            /\ e.written = r.written /\ e.file = r.file /\ e.writer = place
        BY <1>1, EmptySeq DEF Records, Places
      <4>5. f = e
        BY <4>3
      <4> HIDE DEF e, f
      <4> QED
        BY <4>4, <4>5
    <3> HIDE DEF f
    <3>2. Broken(f)
      BY <1>1, <2>2, <3>1 DEF RecorderInv, Broken, Summarized
    <3> QED
      BY <1>5, <3>1, <3>2 DEF RecorderInv
  <2> QED
    BY <2>1, <2>2
<1> QED
  BY <1>3, <1>4, <1>5

LEMMA RecorderSteps ==
  ASSUME RecorderInv(recorder), RecorderNext
  PROVE  RecorderInv(recorder')
<1> QED
  BY Writes, WritesSummary, ClosesRecorder, TakesRow, PutsRow, Counts, Reports, PutsSummary,
     EndsWriter DEF RecorderNext, Writing

LEMMA RecorderStarts == RecorderInv(NewRecorder)
<1>1. NewRecorder \in Records
  BY EmptySeq DEF NewRecorder, Records, Places
<1>2. Sound(NewRecorder)
  BY EmptySeq, ConcatEmptySeq DEF NewRecorder, Sound, Filed, Reported, Ending, Counting, Bit
<1> QED
  BY <1>1, <1>2 DEF RecorderInv, NewRecorder

LEMMA RecorderAccounts ==
  ASSUME RecorderInv(recorder)
  PROVE  RecordIsAccounted
<1> DEFINE r == recorder
           accepted == Len(r.accepted)
           summary == Bit(r.summary)
           summarized == Bit(Summarized(r))
<1> SUFFICES ASSUME r.writer = "done"
             PROVE  LET rows == r.submitted - Bit(r.summary) IN
                    IF r.error
                    THEN r.written + r.dropped = rows + Bit(Summarized(r))
                    ELSE /\ r.file = r.accepted \o <<0>>
                         /\ r.report = [submitted |-> r.submitted, dropped |-> r.dropped,
                                        written |-> Len(r.file)]
                         /\ rows = Len(r.accepted) + r.dropped
  BY DEF RecordIsAccounted, At, Summarized
<1>1. /\ r \in Records /\ r.submitted \in Nat /\ r.dropped \in Nat /\ r.written \in Nat
      /\ summary \in Nat /\ summarized \in Nat /\ accepted \in Nat
      /\ r.accepted \in Seq(Nat)
  BY LenProperties, SeqMonotonic DEF RecorderInv, Records, Bit, Rows
<1>2. CASE r.error
  <2>1. r.written + r.dropped + summary = r.submitted + summarized
    BY <1>2 DEF RecorderInv, Broken
  <2> HIDE DEF summary, summarized
  <2>2. r.written + r.dropped = r.submitted - summary + summarized
    <3>1. r.written \in Nat /\ r.dropped \in Nat /\ r.submitted \in Nat
          /\ summary \in Nat /\ summarized \in Nat
      BY <1>1
    <3> QED
      BY ONLY <2>1, <3>1
  <2> QED
    BY <1>2, <2>2 DEF summary, summarized
<1>3. CASE ~r.error
  <2>1. r.submitted = accepted + r.dropped + summary
    BY <1>3 DEF RecorderInv, Sound
  <2>2. /\ r.file = Append(r.accepted, 0)
        /\ r.report = [submitted |-> r.submitted, dropped |-> r.dropped, written |-> Len(r.file)]
    BY <1>3 DEF RecorderInv, Sound, Reported, Ending
  <2>3. r.file = r.accepted \o <<0>>
    BY <1>1, <2>2, AppendIsConcat
  <2> HIDE DEF summary, accepted
  <2>4. r.submitted - summary = accepted + r.dropped
    BY <1>1, <2>1
  <2> QED
    BY <1>3, <2>2, <2>3, <2>4 DEF summary, accepted
<1> QED
  BY <1>2, <1>3

\* The record accounts for every row: after a close without error it holds every row that
\* write() accepted, in order, and one summary that tells the counts of the file; after an
\* error every row submitted was written or counted as dropped (Recorder._run and _failed).
THEOREM RecordAccounts == RecorderSpec => []RecordIsAccounted
<1>1. RecorderInit => RecorderInv(recorder)
  BY RecorderStarts DEF RecorderInit
<1>2. RecorderInv(recorder) /\ [RecorderNext]_recorder => RecorderInv(recorder)'
  BY RecorderSteps
<1>3. RecorderInv(recorder) => RecordIsAccounted
  BY RecorderAccounts
<1> QED
  BY <1>1, <1>2, <1>3, PTL DEF RecorderSpec

\* The queue of rows stays within its capacity, whatever the writer does, and a recorder
\* is joined only after it was closed (Recorder.write and close).
THEOREM RecorderTypesHold == RecorderSpec => []RecorderTypeOK
<1> DEFINE r == recorder
           Inv == RecorderInv(recorder) /\ RecorderTypeOK
<1>1. RecorderInit => Inv
  BY RecorderStarts, RecorderAssumption DEF RecorderInit, NewRecorder, RecorderTypeOK
<1>2. Inv /\ [RecorderNext]_recorder => Inv'
  <2> SUFFICES ASSUME Inv, [RecorderNext]_recorder PROVE Inv'
    OBVIOUS
  <2>1. RecorderInv(recorder)' /\ r \in Records
    BY RecorderSteps DEF RecorderInv
  <2>2. Len(r.rows) \in Nat /\ r.rows \in Seq(Rows) /\ r.submitted \in Nat
    BY <2>1, LenProperties DEF Records
  <2>3. CASE Write
    <3>1. r.submitted + 1 \in Rows /\ r.submitted < MaxRows
      BY <2>2, <2>3 DEF Rows, Write
    <3>2. Len(Append(r.rows, r.submitted + 1)) = Len(r.rows) + 1
      BY <2>2, <3>1, AppendProperties
    <3> DEFINE n == r.submitted + 1
               more == Append(r.rows, n)
    <3>3. /\ recorder'.joined = r.joined /\ recorder'.closing = r.closing
          /\ recorder'.submitted = n
          /\ recorder'.rows = r.rows \/ (recorder'.rows = more /\ Len(r.rows) < Capacity)
      BY <2>1, <2>2, <2>3, RecorderAssumption DEF Write, Records
    <3>4. n <= MaxRows
      BY <2>2, <3>1, RecorderAssumption
    <3>5. Len(r.rows) < Capacity => Len(more) <= Capacity
      BY <2>2, <3>2, RecorderAssumption
    <3> HIDE DEF n, more
    <3> QED
      BY <2>1, <3>3, <3>4, <3>5 DEF RecorderTypeOK
  <2>4. CASE WriteSummary
    <3>1. r.submitted + 1 <= MaxRows
      BY <2>2, <2>4, RecorderAssumption DEF WriteSummary
    <3> QED
      BY <2>1, <2>4, <3>1 DEF WriteSummary, RecorderTypeOK, Records
  <2>5. CASE CloseRecorder \/ JoinWriter
    BY <2>1, <2>5 DEF CloseRecorder, JoinWriter, RecorderTypeOK, Records
  <2>6. CASE Writing
    <3>1. /\ recorder'.joined = r.joined /\ recorder'.closing = r.closing
          /\ recorder'.submitted = r.submitted
          /\ \/ recorder'.rows = r.rows
             \/ recorder'.rows = <<>>
             \/ r.rows # <<>> /\ recorder'.rows = Tail(r.rows)
      <4>1. CASE TakeRow
        BY <2>1, <4>1 DEF TakeRow, Records
      <4>2. CASE PutRow
        BY <2>1, <4>2 DEF PutRow, Failed, Records
      <4>3. CASE Count \/ Report
        BY <2>1, <4>3 DEF Count, Report, Records
      <4>4. CASE PutSummary
        BY <2>1, <4>4 DEF PutSummary, Failed, Records
      <4>5. CASE EndWriter
        <5>1. PICK s \in {r, Failed(r, 0)} :
                recorder' = [s EXCEPT !.writer = IF s.writer = "flush" THEN "end" ELSE "done"]
          BY <4>5 DEF EndWriter
        <5>2. CASE s = r
          BY <2>1, <5>1, <5>2 DEF Records
        <5>3. CASE s = Failed(r, 0)
          BY <2>1, <5>1, <5>3 DEF Records, Failed
        <5> QED
          BY <5>1, <5>2, <5>3
      <4> QED
        BY <2>6, <4>1, <4>2, <4>3, <4>4, <4>5 DEF Writing
    <3>2. r.rows # <<>> => Len(Tail(r.rows)) = Len(r.rows) - 1
      BY <2>2, HeadTailProperties
    <3>3. Len(recorder'.rows) <= Len(r.rows)
      <4>1. CASE recorder'.rows = r.rows
        BY <2>2, <4>1
      <4>2. CASE recorder'.rows = <<>>
        BY <2>2, <4>2
      <4>3. CASE r.rows # <<>> /\ recorder'.rows = Tail(r.rows)
        BY <2>2, <3>2, <4>3
      <4> QED
        BY <3>1, <4>1, <4>2, <4>3
    <3> QED
      BY <2>1, <2>2, <3>1, <3>3, RecorderAssumption DEF RecorderTypeOK, RecorderInv, Records
  <2>7. CASE UNCHANGED recorder
    BY <2>1, <2>7 DEF RecorderTypeOK
  <2> QED
    BY <2>3, <2>4, <2>5, <2>6, <2>7 DEF RecorderNext
<1> QED
  BY <1>1, <1>2, PTL DEF RecorderSpec

-----------------------------------------------------------------------------
(* The trace *)

LivePlaces == {"loop", "sample", "stop", "close", "drain", "drainSample", "finish", "done"}
ExportPlaces == {"read", "finish", "done"}

Captures == [pending : Seq(Nat), accepting : BOOLEAN, dropped : Nat, failure : BOOLEAN,
             place : LivePlaces \cup ExportPlaces, item : Nat, file : Seq(Nat),
             complete : BOOLEAN, counts : SUBSET Wanted, received : Nat, arrived : Nat,
             taken : Seq(Nat), mode : Modes]

\* As long as nothing has failed, what is not written waits, or is in hand.
Held(c) ==
  /\ c.place \in {"loop", "stop", "close", "drain"} => c.taken = c.file \o c.pending
  /\ c.place \in {"sample", "drainSample"} => c.taken = Append(c.file, c.item) \o c.pending
  /\ c.place \in {"read", "finish", "done"} => c.taken = c.file
  /\ c.place \in {"finish", "done"} /\ c.mode = "export" => c.counts = Wanted

\* What is written was taken first.
Begins(c) == \E rest \in Seq(Nat) : c.taken = c.file \o rest

Staged(c) ==
  /\ c.place \in IF c.mode = "live" THEN LivePlaces ELSE ExportPlaces
  /\ c.accepting => c.place \in {"loop", "sample", "stop"}
  /\ c.place \in {"loop", "sample", "drain", "drainSample", "read"} => ~c.failure
  /\ c.complete => c.place = "done" /\ ~c.failure

CaptureInv(c) == /\ c \in Captures
                 /\ c.arrived = Len(c.taken) + c.dropped
                 /\ Staged(c)
                 /\ ~c.failure => Held(c)
                 /\ c.failure => Begins(c)

LEMMA ComesNext ==
  \A s, q \in Seq(Nat), n \in Nat :
    <<n>> \o q \in Seq(Nat) /\ Append(s, n) \o q = s \o (<<n>> \o q)
<1> SUFFICES ASSUME NEW s \in Seq(Nat), NEW q \in Seq(Nat), NEW n \in Nat
             PROVE  <<n>> \o q \in Seq(Nat) /\ Append(s, n) \o q = s \o (<<n>> \o q)
  OBVIOUS
<1>1. <<n>> \in Seq(Nat) /\ <<n>> \o q \in Seq(Nat)
  BY ConcatProperties
<1>2. Append(s, n) = s \o <<n>>
  BY AppendIsConcat
<1>3. (s \o <<n>>) \o q = s \o (<<n>> \o q)
  BY <1>1, ConcatAssociative
<1> QED
  BY <1>1, <1>2, <1>3

LEMMA HeldBegins ==
  ASSUME NEW c \in Captures, Held(c), Staged(c)
  PROVE  Begins(c)
<1>1. /\ c.file \in Seq(Nat) /\ c.pending \in Seq(Nat) /\ c.item \in Nat /\ <<>> \in Seq(Nat)
      /\ <<c.item>> \in Seq(Nat)
  BY EmptySeq DEF Captures
<1>2. CASE c.place \in {"loop", "stop", "close", "drain"}
  BY <1>1, <1>2 DEF Held, Begins
<1>3. CASE c.place \in {"sample", "drainSample"}
  <2> DEFINE s == c.file
             n == c.item
             q == c.pending
  <2>1. s \in Seq(Nat) /\ n \in Nat /\ q \in Seq(Nat) /\ c.taken = Append(s, n) \o q
    BY <1>1, <1>3 DEF Held
  <2> HIDE DEF s, n, q
  <2>2. <<n>> \o q \in Seq(Nat) /\ c.taken = s \o (<<n>> \o q)
    BY <2>1, ComesNext
  <2>3. \E rest \in Seq(Nat) : c.taken = s \o rest
    BY <2>2
  <2> QED
    BY <2>3 DEF Begins, s
<1>4. CASE c.place \in {"read", "finish", "done"}
  BY <1>1, <1>4, NothingWaits DEF Held, Begins
<1> QED
  BY <1>2, <1>3, <1>4 DEF Captures, LivePlaces, ExportPlaces

LEMMA BeginsIsPrefix ==
  ASSUME NEW c \in Captures, Begins(c)
  PROVE  c.file = SubSeq(c.taken, 1, Len(c.file))
<1>1. PICK rest \in Seq(Nat) : c.taken = c.file \o rest
  BY DEF Begins
<1>2. c.file \in Seq(Nat)
  BY DEF Captures
<1> DEFINE s == c.file
           whole == c.taken
<1> HIDE DEF s, whole
<1>3. s \in Seq(Nat) /\ rest \in Seq(Nat) /\ whole = s \o rest
  BY <1>1, <1>2 DEF s, whole
<1>4. s = SubSeq(whole, 1, Len(s))
  BY ONLY <1>3
<1> QED
  BY <1>4 DEF s, whole

\* What is cut short is a beginning too.
LEMMA ShorterBegins ==
  \A s \in Seq(Nat), rest \in Seq(Nat) : \A n \in 0 .. Len(s) :
    \E more \in Seq(Nat) : s \o rest = SubSeq(s, 1, n) \o more
<1> SUFFICES ASSUME NEW s \in Seq(Nat), NEW rest \in Seq(Nat), NEW n \in 0 .. Len(s)
             PROVE  \E more \in Seq(Nat) : s \o rest = SubSeq(s, 1, n) \o more
  OBVIOUS
<1> DEFINE left == SubSeq(s, 1, n)
           cut == SubSeq(s, n + 1, Len(s))
<1>1. Len(s) \in Nat
  BY LenProperties
<1>2. left \in Seq(Nat)
  BY <1>1, SubSeqProperties
<1>3. cut \in Seq(Nat)
  BY <1>1, SubSeqProperties
<1>4. left \o cut = s
  <2>1. left \o cut = SubSeq(s, 1, Len(s))
    <3>1. 1 \in 1 .. Len(s) + 1 /\ n \in 1 - 1 .. Len(s) /\ Len(s) \in n .. Len(s)
      BY <1>1
    <3> QED
      BY <3>1, ConcatAdjacentSubSeq
  <2> QED
    BY <2>1, SubSeqFull
<1> HIDE DEF left, cut
<1>5. cut \o rest \in Seq(Nat)
  BY <1>3, ConcatProperties
<1>6. (left \o cut) \o rest = left \o (cut \o rest)
  BY <1>2, <1>3, ConcatAssociative
<1> QED
  BY <1>4, <1>5, <1>6 DEF left

\* One more is taken, and is the last.
LEMMA OneMoreTaken ==
  \A s, q \in Seq(Nat), n \in Nat : Append(s \o q, n) = s \o Append(q, n)
<1> SUFFICES ASSUME NEW s \in Seq(Nat), NEW q \in Seq(Nat), NEW n \in Nat
             PROVE  Append(s \o q, n) = s \o Append(q, n)
  OBVIOUS
<1>1. s \o q \in Seq(Nat) /\ <<n>> \in Seq(Nat)
  BY ConcatProperties
<1>2. Append(s \o q, n) = (s \o q) \o <<n>> /\ Append(q, n) = q \o <<n>>
  BY <1>1, AppendIsConcat
<1>3. (s \o q) \o <<n>> = s \o (q \o <<n>>)
  BY <1>1, ConcatAssociative
<1> QED
  BY <1>2, <1>3

LEMMA CaptureStarts ==
  ASSUME NEW mode \in Modes
  PROVE  CaptureInv(NewCapture(mode))
<1>1. NewCapture(mode) \in Captures
  BY EmptySeq DEF NewCapture, Captures, Modes, LivePlaces, ExportPlaces
<1>2. Held(NewCapture(mode))
  BY EmptySeq, ConcatEmptySeq DEF NewCapture, Held, Modes
<1>3. Staged(NewCapture(mode))
  BY DEF NewCapture, Staged, LivePlaces, ExportPlaces, Modes
<1>4. NewCapture(mode).arrived = Len(NewCapture(mode).taken) + NewCapture(mode).dropped
  BY DEF NewCapture
<1>5. ~NewCapture(mode).failure
  BY DEF NewCapture
<1> QED
  BY <1>1, <1>2, <1>3, <1>4, <1>5 DEF CaptureInv

\* receive: a message is queued, dropped or no longer wanted.
LEMMA TakesMessage ==
  ASSUME CaptureInv(capture), Receive
  PROVE  CaptureInv(capture')
<1> DEFINE c == capture
           n == c.received + 1
           arrived == c.arrived + 1
           dropped == c.dropped + 1
           taken == Len(c.taken)
<1>1. /\ c \in Captures /\ c.mode = "live" /\ Staged(c)
      /\ n \in Nat /\ arrived \in Nat /\ dropped \in Nat /\ taken \in Nat
      /\ c.arrived \in Nat /\ c.dropped \in Nat
      /\ c.pending \in Seq(Nat) /\ c.taken \in Seq(Nat) /\ c.file \in Seq(Nat)
  BY LenProperties DEF CaptureInv, Receive, Captures
<1>2. c.arrived = taken + c.dropped /\ arrived = c.arrived + 1 /\ dropped = c.dropped + 1
  BY DEF CaptureInv
<1> DEFINE late == [c EXCEPT !.received = n]
           lost == [c EXCEPT !.received = n, !.arrived = arrived, !.dropped = dropped]
           kept == [c EXCEPT !.received = n, !.arrived = arrived,
                             !.pending = Append(c.pending, n), !.taken = Append(c.taken, n)]
<1>3. \/ capture' = late
      \/ capture' = lost
      \/ c.accepting /\ capture' = kept
  BY <1>1 DEF Receive, Accepting, Captures
<1> HIDE DEF n, arrived, dropped, taken
<1>4. ASSUME capture' = late PROVE CaptureInv(capture')
  <2>1. /\ late \in Captures /\ late.pending = c.pending /\ late.accepting = c.accepting
        /\ late.dropped = c.dropped /\ late.failure = c.failure /\ late.place = c.place
        /\ late.item = c.item /\ late.file = c.file /\ late.complete = c.complete
        /\ late.counts = c.counts /\ late.arrived = c.arrived /\ late.taken = c.taken
        /\ late.mode = c.mode
    BY <1>1 DEF Captures
  <2> HIDE DEF late
  <2> QED
    BY <1>4, <2>1 DEF CaptureInv, Staged, Held, Begins
<1>5. ASSUME capture' = lost PROVE CaptureInv(capture')
  <2>1. /\ lost \in Captures /\ lost.pending = c.pending /\ lost.accepting = c.accepting
        /\ lost.dropped = dropped /\ lost.failure = c.failure /\ lost.place = c.place
        /\ lost.item = c.item /\ lost.file = c.file /\ lost.complete = c.complete
        /\ lost.counts = c.counts /\ lost.arrived = arrived /\ lost.taken = c.taken
        /\ lost.mode = c.mode
    BY <1>1 DEF Captures
  <2> HIDE DEF lost
  <2>2. arrived = taken + dropped
    BY ONLY <1>1, <1>2
  <2>3. lost.arrived = Len(lost.taken) + lost.dropped
    BY <2>1, <2>2 DEF taken
  <2> QED
    BY <1>5, <2>1, <2>3 DEF CaptureInv, Staged, Held, Begins
<1>6. ASSUME c.accepting, capture' = kept PROVE CaptureInv(capture')
  <2>1. /\ Append(c.pending, n) \in Seq(Nat) /\ Append(c.taken, n) \in Seq(Nat)
        /\ Len(Append(c.taken, n)) = taken + 1
    BY <1>1, AppendProperties DEF taken
  <2>2. /\ kept \in Captures /\ kept.pending = Append(c.pending, n)
        /\ kept.accepting = c.accepting
        /\ kept.dropped = c.dropped /\ kept.failure = c.failure /\ kept.place = c.place
        /\ kept.item = c.item /\ kept.file = c.file /\ kept.complete = c.complete
        /\ kept.counts = c.counts /\ kept.arrived = arrived
        /\ kept.taken = Append(c.taken, n) /\ kept.mode = c.mode
    BY <1>1, <2>1 DEF Captures
  <2> HIDE DEF kept
  <2>3. arrived = (taken + 1) + c.dropped
    <3>1. taken \in Nat /\ c.dropped \in Nat
      BY <1>1
    <3> QED
      BY ONLY <1>2, <3>1
  <2>4. c.place \in {"loop", "sample", "stop"} /\ kept.arrived = Len(kept.taken) + kept.dropped
    BY <1>1, <1>6, <2>1, <2>2, <2>3 DEF Staged
  <2>5. ASSUME NEW q \in Seq(Nat), NEW s \in Seq(Nat), c.taken = s \o q
        PROVE  Append(c.taken, n) = s \o Append(q, n) /\ Append(q, n) \in Seq(Nat)
    <3>1. Append(s \o q, n) = s \o Append(q, n)
      BY <1>1, OneMoreTaken
    <3>2. Append(q, n) \in Seq(Nat)
      BY <1>1, AppendProperties
    <3> QED
      BY <2>5, <3>1, <3>2
  <2>6. ~c.failure => Held(kept)
    <3>1. CASE ~c.failure /\ c.place \in {"loop", "stop"}
      BY <1>1, <2>2, <2>5, <3>1 DEF CaptureInv, Held
    <3>2. CASE ~c.failure /\ c.place = "sample"
      <4>1. Append(c.file, c.item) \in Seq(Nat)
        BY <1>1, AppendProperties DEF Captures
      <4>2. c.taken = Append(c.file, c.item) \o c.pending
        BY <3>2 DEF CaptureInv, Held
      <4>3. Append(c.taken, n) = Append(c.file, c.item) \o Append(c.pending, n)
        BY <1>1, <2>5, <4>1, <4>2
      <4> QED
        BY <2>2, <3>2, <4>3 DEF Held
    <3> QED
      BY <2>4, <3>1, <3>2
  <2>7. c.failure => Begins(kept)
    <3> SUFFICES ASSUME c.failure PROVE Begins(kept)
      OBVIOUS
    <3>1. PICK rest \in Seq(Nat) : c.taken = c.file \o rest
      BY DEF CaptureInv, Begins
    <3>2. Append(c.taken, n) = c.file \o Append(rest, n) /\ Append(rest, n) \in Seq(Nat)
      BY <1>1, <2>5, <3>1
    <3> QED
      BY <2>2, <3>2 DEF Begins
  <2>8. Staged(kept)
    BY <1>1, <2>2 DEF Staged
  <2> QED
    BY <1>6, <2>2, <2>4, <2>6, <2>7, <2>8 DEF CaptureInv
<1> QED
  BY <1>3, <1>4, <1>5, <1>6

\* Head and tail of the queue.
LEMMA GetsMessage ==
  ASSUME CaptureInv(capture), Get
  PROVE  CaptureInv(capture')
<1> DEFINE c == capture
           place == IF c.place = "loop" THEN "sample" ELSE "drainSample"
           d == [c EXCEPT !.item = Head(c.pending), !.pending = Tail(c.pending), !.place = place]
<1>1. /\ c \in Captures /\ Staged(c) /\ ~c.failure /\ Held(c)
      /\ c.place \in {"loop", "drain"} /\ c.pending # <<>> /\ capture' = d
      /\ c.pending \in Seq(Nat) /\ c.file \in Seq(Nat) /\ c.taken = c.file \o c.pending
  BY DEF CaptureInv, Get, Staged, Held, Captures
<1>2. Head(c.pending) \in Nat /\ Tail(c.pending) \in Seq(Nat)
  BY <1>1, HeadTailProperties
<1>3. c.taken = Append(c.file, Head(c.pending)) \o Tail(c.pending)
  <2>1. c.file \o c.pending = Append(c.file, Head(c.pending)) \o Tail(c.pending)
    BY <1>1, TakesOne
  <2> QED
    BY <1>1, <2>1
<1>4. /\ d \in Captures /\ d.pending = Tail(c.pending) /\ d.accepting = c.accepting
      /\ d.dropped = c.dropped /\ d.failure = c.failure /\ d.place = place
      /\ d.item = Head(c.pending) /\ d.file = c.file /\ d.complete = c.complete
      /\ d.counts = c.counts /\ d.arrived = c.arrived /\ d.taken = c.taken
      /\ d.mode = c.mode
  BY <1>1, <1>2 DEF Captures, LivePlaces
<1> HIDE DEF d
<1>5. Held(d)
  BY <1>1, <1>3, <1>4 DEF Held
<1>6. Staged(d)
  BY <1>1, <1>4 DEF Staged, LivePlaces, ExportPlaces
<1> QED
  BY <1>1, <1>4, <1>5, <1>6 DEF CaptureInv

\* A row is written, or the capture has failed.
LEMMA WritesSample ==
  ASSUME CaptureInv(capture), Sample
  PROVE  CaptureInv(capture')
<1> DEFINE c == capture
           next == IF c.place = "sample" THEN "loop" ELSE "drain"
           stop == IF c.place = "sample" THEN "stop" ELSE "finish"
           good == [c EXCEPT !.file = Append(c.file, c.item), !.place = next]
           bad == [c EXCEPT !.failure = TRUE, !.place = stop]
<1>1. /\ c \in Captures /\ Staged(c) /\ ~c.failure /\ Held(c)
      /\ c.place \in {"sample", "drainSample"}
      /\ c.taken = Append(c.file, c.item) \o c.pending
  BY DEF CaptureInv, Sample, Staged, Held
<1>2. capture' = good \/ capture' = bad
  BY <1>1 DEF Sample, Captures
<1>3. ASSUME capture' = good PROVE CaptureInv(capture')
  <2>1. Append(c.file, c.item) \in Seq(Nat)
    BY <1>1, AppendProperties DEF Captures
  <2>2. /\ good \in Captures /\ good.pending = c.pending /\ good.accepting = c.accepting
        /\ good.dropped = c.dropped /\ good.failure = c.failure /\ good.place = next
        /\ good.file = Append(c.file, c.item) /\ good.complete = c.complete
        /\ good.counts = c.counts /\ good.arrived = c.arrived /\ good.taken = c.taken
        /\ good.mode = c.mode
    BY <1>1, <2>1 DEF Captures, LivePlaces
  <2> HIDE DEF good
  <2>3. Held(good)
    BY <1>1, <2>2 DEF Held
  <2>4. Staged(good)
    BY <1>1, <2>2 DEF Staged, LivePlaces, ExportPlaces
  <2> QED
    BY <1>1, <1>3, <2>2, <2>3, <2>4 DEF CaptureInv
<1>4. ASSUME capture' = bad PROVE CaptureInv(capture')
  <2>1. /\ bad \in Captures /\ bad.accepting = c.accepting
        /\ bad.dropped = c.dropped /\ bad.failure = TRUE /\ bad.place = stop
        /\ bad.file = c.file /\ bad.complete = c.complete
        /\ bad.arrived = c.arrived /\ bad.taken = c.taken /\ bad.mode = c.mode
    BY <1>1 DEF Captures, LivePlaces
  <2> HIDE DEF bad
  <2>2. Begins(bad)
    BY <1>1, <2>1, HeldBegins DEF Begins
  <2>3. Staged(bad)
    BY <1>1, <2>1 DEF Staged, LivePlaces, ExportPlaces
  <2> QED
    BY <1>4, <2>1, <2>2, <2>3 DEF CaptureInv
<1> QED
  BY <1>2, <1>3, <1>4

\* Steps that take no message and write no row.
LEMMA MovesOn ==
  ASSUME CaptureInv(capture), LeaveLoop \/ Stop \/ CloseNode \/ Drained \/ Finish
  PROVE  CaptureInv(capture')
<1> DEFINE c == capture
<1>1. c \in Captures /\ Staged(c) /\ Begins(c) /\ c.arrived = Len(c.taken) + c.dropped
  BY HeldBegins DEF CaptureInv
<1>2. ASSUME NEW accepting \in BOOLEAN, NEW failure \in BOOLEAN, NEW complete \in BOOLEAN,
             NEW place \in LivePlaces,
             capture' = [c EXCEPT !.accepting = accepting, !.failure = failure,
                                  !.complete = complete, !.place = place],
             Staged(capture'), ~failure => Held(capture')
      PROVE  CaptureInv(capture')
  <2> DEFINE d == [c EXCEPT !.accepting = accepting, !.failure = failure,
                            !.complete = complete, !.place = place]
  <2>1. /\ d \in Captures /\ d.dropped = c.dropped /\ d.failure = failure /\ d.file = c.file
        /\ d.arrived = c.arrived /\ d.taken = c.taken
    BY <1>1 DEF Captures
  <2> HIDE DEF d
  <2>2. capture' = d
    BY <1>2 DEF d
  <2>3. Begins(d)
    BY <1>1, <2>1 DEF Begins
  <2> QED
    BY <1>1, <1>2, <2>1, <2>2, <2>3 DEF CaptureInv
<1>3. CASE LeaveLoop
  <2>1. PICK failure \in BOOLEAN : capture' = [c EXCEPT !.failure = failure, !.place = "stop"]
    BY <1>3 DEF LeaveLoop
  <2>2. /\ c.place = "loop" /\ Held(c) /\ c.mode = "live"
    BY <1>1, <1>3 DEF LeaveLoop, CaptureInv, Staged, ExportPlaces, Captures
  <2>3. capture' = [c EXCEPT !.accepting = c.accepting, !.failure = failure,
                             !.complete = c.complete, !.place = "stop"]
    BY <1>1, <2>1 DEF Captures
  <2>4. Held(capture') /\ Staged(capture')
    BY <1>1, <2>2, <2>3 DEF Held, Staged, Captures, LivePlaces, ExportPlaces, Modes
  <2> QED
    BY <1>1, <1>2, <2>3, <2>4 DEF Captures, LivePlaces
<1>4. CASE Stop
  <2>1. capture' = [c EXCEPT !.accepting = FALSE, !.failure = c.failure,
                             !.complete = c.complete, !.place = "close"]
    BY <1>1, <1>4 DEF Stop, Captures
  <2>2. c.place = "stop" /\ c.mode = "live"
    BY <1>1, <1>4 DEF Stop, Staged, ExportPlaces, Captures
  <2>3. Staged(capture') /\ (~c.failure => Held(capture'))
    BY <1>1, <2>1, <2>2 DEF CaptureInv, Held, Staged, Captures, LivePlaces, ExportPlaces, Modes
  <2> QED
    BY <1>1, <1>2, <2>1, <2>3 DEF Captures, LivePlaces
<1>5. CASE CloseNode
  <2>1. PICK failure \in {c.failure, TRUE} :
          capture' = [c EXCEPT !.failure = failure, !.place = AfterClose(failure)]
    BY <1>5 DEF CloseNode
  <2>2. capture' = [c EXCEPT !.accepting = c.accepting, !.failure = failure,
                             !.complete = c.complete, !.place = AfterClose(failure)]
    BY <1>1, <2>1 DEF Captures
  <2>3. c.place = "close" /\ c.mode = "live" /\ AfterClose(failure) \in LivePlaces
    BY <1>1, <1>5 DEF CloseNode, Staged, ExportPlaces, Captures, AfterClose, LivePlaces
  <2>4. failure \in BOOLEAN /\ (c.failure => failure)
    BY <1>1 DEF Captures
  <2>5. Staged(capture') /\ (~failure => Held(capture'))
    BY <1>1, <2>2, <2>3, <2>4 DEF CaptureInv, Held, Staged, Captures, LivePlaces, ExportPlaces,
                                  Modes, AfterClose
  <2> QED
    BY <1>1, <1>2, <2>2, <2>3, <2>4, <2>5 DEF Captures
<1>6. CASE Drained
  <2>1. capture' = [c EXCEPT !.accepting = c.accepting, !.failure = c.failure,
                             !.complete = c.complete, !.place = "finish"]
    BY <1>1, <1>6 DEF Drained, Captures
  <2>2. /\ c.place = "drain" /\ c.mode = "live" /\ c.pending = <<>> /\ Held(c)
        /\ c.file \in Seq(Nat)
    BY <1>1, <1>6 DEF Drained, CaptureInv, Staged, ExportPlaces, Captures
  <2>3. c.taken = c.file
    BY <2>2, NothingWaits DEF Held
  <2>4. Staged(capture') /\ Held(capture')
    BY <1>1, <2>1, <2>2, <2>3 DEF Held, Staged, Captures, LivePlaces, ExportPlaces, Modes
  <2> QED
    BY <1>1, <1>2, <2>1, <2>4 DEF Captures, LivePlaces
<1>7. CASE Finish
  <2>1. c.place = "finish"
    BY <1>7 DEF Finish
  <2>2. CASE capture' = [c EXCEPT !.complete = ~c.failure, !.place = "done"]
    <3>1. capture' = [c EXCEPT !.accepting = c.accepting, !.failure = c.failure,
                               !.complete = ~c.failure, !.place = "done"]
      BY <1>1, <2>2 DEF Captures
    <3>2. Staged(capture') /\ (~c.failure => Held(capture'))
      BY <1>1, <2>1, <3>1 DEF CaptureInv, Held, Staged, Captures, LivePlaces, ExportPlaces, Modes
    <3>3. c.failure \in BOOLEAN /\ (~c.failure) \in BOOLEAN /\ c.accepting \in BOOLEAN
      BY <1>1 DEF Captures
    <3> QED
      BY <1>2, <3>1, <3>2, <3>3 DEF LivePlaces
  <2>3. ASSUME NEW n \in 0 .. Len(c.file),
               capture' = [c EXCEPT !.failure = TRUE, !.file = SubSeq(c.file, 1, n), !.place = "done"]
        PROVE  CaptureInv(capture')
    <3> DEFINE left == SubSeq(c.file, 1, n)
               d == [c EXCEPT !.failure = TRUE, !.file = left, !.place = "done"]
    <3>1. c.file \in Seq(Nat)
      BY <1>1 DEF Captures
    <3>2. left \in Seq(Nat)
      BY <3>1, SubSeqProperties
    <3>3. \E rest \in Seq(Nat) : c.taken = left \o rest
      <4>1. PICK rest \in Seq(Nat) : c.taken = c.file \o rest
        BY <1>1 DEF Begins
      <4>2. \E more \in Seq(Nat) : c.file \o rest = left \o more
        <5> DEFINE s == c.file
        <5>1. s \in Seq(Nat) /\ n \in 0 .. Len(s)
          BY <2>3, <3>1
        <5> HIDE DEF s
        <5>2. \E more \in Seq(Nat) : s \o rest = SubSeq(s, 1, n) \o more
          BY <5>1, ShorterBegins
        <5> QED
          BY <5>2 DEF s
      <4> QED
        BY <4>1, <4>2, Zenon
    <3> HIDE DEF left
    <3>4. /\ d \in Captures /\ d.dropped = c.dropped /\ d.failure /\ d.file = left
          /\ d.arrived = c.arrived /\ d.taken = c.taken /\ d.place = "done"
          /\ d.mode = c.mode /\ d.accepting = c.accepting /\ d.complete = c.complete
      BY <1>1, <3>2 DEF Captures, LivePlaces
    <3> HIDE DEF d
    <3>5. Begins(d)
      BY <3>3, <3>4 DEF Begins
    <3>6. Staged(d)
      BY <1>1, <2>1, <3>4 DEF Staged, LivePlaces, ExportPlaces
    <3> QED
      BY <1>1, <2>3, <3>4, <3>5, <3>6 DEF CaptureInv, d, left
  <2> QED
    BY <1>7, <2>2, <2>3 DEF Finish
<1> QED
  BY <1>3, <1>4, <1>5, <1>6, <1>7

\* The records of an export.
LEMMA ReadsRecording ==
  ASSUME CaptureInv(capture), ReadRecord \/ EndOfRecording
  PROVE  CaptureInv(capture')
<1> DEFINE c == capture
           n == c.received + 1
           arrived == c.arrived + 1
           taken == Len(c.taken)
           skipped == [c EXCEPT !.received = n]
           bad == [c EXCEPT !.received = n, !.arrived = arrived, !.taken = Append(c.taken, n),
                            !.failure = TRUE, !.place = "finish"]
           Good(counts) == [c EXCEPT !.received = n, !.arrived = arrived,
                                     !.taken = Append(c.taken, n), !.file = Append(c.file, n),
                                     !.counts = counts]
           FileEnds(failure) == [c EXCEPT !.failure = failure, !.place = "finish"]
<1>1. /\ c \in Captures /\ Staged(c) /\ ~c.failure /\ Held(c) /\ c.place = "read"
      /\ c.mode = "export" /\ c.taken = c.file /\ ~c.accepting /\ ~c.complete
      /\ c.file \in Seq(Nat) /\ c.taken \in Seq(Nat)
      /\ n \in Nat /\ arrived \in Nat /\ taken \in Nat /\ c.dropped \in Nat /\ c.arrived \in Nat
  <2>1. c \in Captures /\ Staged(c) /\ c.place = "read"
    BY DEF CaptureInv, ReadRecord, EndOfRecording
  <2>2. ~c.failure /\ c.mode = "export" /\ ~c.accepting /\ ~c.complete
    BY <2>1 DEF Staged, Captures, Modes, LivePlaces
  <2>3. Held(c) /\ c.taken = c.file
    BY <2>1, <2>2 DEF CaptureInv, Held
  <2>4. /\ c.file \in Seq(Nat) /\ c.taken \in Seq(Nat) /\ c.received \in Nat
        /\ c.dropped \in Nat /\ c.arrived \in Nat
    BY <2>1 DEF Captures
  <2>5. n \in Nat /\ arrived \in Nat /\ taken \in Nat
    BY <2>4, LenProperties
  <2> QED
    BY <2>1, <2>2, <2>3, <2>4, <2>5
<1>2. c.arrived = taken + c.dropped /\ arrived = c.arrived + 1
  BY DEF CaptureInv
<1>3. \/ capture' = skipped
      \/ capture' = bad
      \/ \E found \in Wanted : capture' = Good(c.counts \cup {found})
      \/ \E failure \in BOOLEAN : (~failure => c.counts = Wanted) /\ capture' = FileEnds(failure)
  <2>1. CASE ReadRecord
    BY <1>1, <2>1 DEF ReadRecord, Captures
  <2>2. CASE EndOfRecording
    BY <1>1, <2>2 DEF EndOfRecording, AllFound
  <2> QED
    BY <2>1, <2>2
<1> HIDE DEF n, arrived, taken
<1>4. /\ Append(c.taken, n) \in Seq(Nat) /\ Append(c.file, n) \in Seq(Nat)
      /\ Len(Append(c.taken, n)) = taken + 1
  BY <1>1, AppendProperties DEF taken
<1>5. arrived = (taken + 1) + c.dropped
  <2>1. taken \in Nat /\ c.dropped \in Nat
    BY <1>1
  <2> QED
    BY ONLY <1>2, <2>1
<1>6. ASSUME capture' = skipped PROVE CaptureInv(capture')
  <2>1. /\ skipped \in Captures /\ skipped.pending = c.pending
        /\ skipped.accepting = c.accepting
        /\ skipped.dropped = c.dropped /\ skipped.failure = c.failure /\ skipped.place = c.place
        /\ skipped.item = c.item /\ skipped.file = c.file /\ skipped.complete = c.complete
        /\ skipped.counts = c.counts /\ skipped.arrived = c.arrived /\ skipped.taken = c.taken
        /\ skipped.mode = c.mode
    BY <1>1 DEF Captures
  <2> HIDE DEF skipped
  <2> QED
    BY <1>6, <2>1 DEF CaptureInv, Staged, Held, Begins
<1>7. ASSUME capture' = bad PROVE CaptureInv(capture')
  <2>1. /\ bad \in Captures /\ bad.accepting = c.accepting
        /\ bad.dropped = c.dropped /\ bad.failure = TRUE /\ bad.place = "finish"
        /\ bad.file = c.file /\ bad.complete = c.complete
        /\ bad.arrived = arrived /\ bad.taken = Append(c.taken, n) /\ bad.mode = c.mode
    BY <1>1, <1>4 DEF Captures, ExportPlaces
  <2> HIDE DEF bad
  <2>2. Append(c.taken, n) = c.file \o <<n>> /\ <<n>> \in Seq(Nat)
    <3> DEFINE s == c.file
    <3>1. s \in Seq(Nat) /\ c.taken = s /\ c.file = s
      BY <1>1
    <3> HIDE DEF s
    <3>2. Append(s, n) = s \o <<n>> /\ <<n>> \in Seq(Nat)
      BY <1>1, <3>1, AppendIsConcat
    <3> QED
      BY <3>1, <3>2
  <2>3. Begins(bad)
    BY <2>1, <2>2 DEF Begins
  <2>4. Staged(bad)
    BY <1>1, <2>1 DEF Staged, LivePlaces, ExportPlaces
  <2> QED
    BY <1>4, <1>5, <1>7, <2>1, <2>3, <2>4 DEF CaptureInv
<1>8. ASSUME NEW found \in Wanted, capture' = Good(c.counts \cup {found})
      PROVE  CaptureInv(capture')
  <2> DEFINE good == Good(c.counts \cup {found})
  <2>1. /\ good \in Captures /\ good.accepting = c.accepting
        /\ good.dropped = c.dropped /\ good.failure = c.failure /\ good.place = c.place
        /\ good.file = Append(c.file, n) /\ good.complete = c.complete
        /\ good.arrived = arrived /\ good.taken = Append(c.taken, n) /\ good.mode = c.mode
    BY <1>1, <1>4 DEF Captures, ExportPlaces
  <2> HIDE DEF good
  <2>2. Held(good) /\ Staged(good)
    BY <1>1, <2>1 DEF Held, Staged
  <2>3. good.arrived = Len(good.taken) + good.dropped
    BY <1>4, <1>5, <2>1
  <2> QED
    BY <1>1, <1>8, <2>1, <2>2, <2>3 DEF CaptureInv, good
<1>9. ASSUME NEW failure \in BOOLEAN, ~failure => c.counts = Wanted, capture' = FileEnds(failure)
      PROVE  CaptureInv(capture')
  <2> DEFINE d == FileEnds(failure)
  <2>1. /\ d \in Captures /\ d.accepting = c.accepting
        /\ d.dropped = c.dropped /\ d.failure = failure /\ d.place = "finish"
        /\ d.file = c.file /\ d.complete = c.complete /\ d.counts = c.counts
        /\ d.arrived = c.arrived /\ d.taken = c.taken /\ d.mode = c.mode
    BY <1>1 DEF Captures, ExportPlaces
  <2> HIDE DEF d
  <2>2. Begins(d)
    BY <1>1, <2>1, HeldBegins DEF Begins
  <2>3. ~failure => Held(d)
    BY <1>1, <1>9, <2>1 DEF Held
  <2>4. Staged(d)
    BY <1>1, <2>1 DEF Staged, ExportPlaces
  <2>5. d.arrived = Len(d.taken) + d.dropped
    BY <2>1 DEF CaptureInv
  <2> QED
    BY <1>9, <2>1, <2>2, <2>3, <2>4, <2>5 DEF CaptureInv, d
<1> QED
  BY <1>3, <1>6, <1>7, <1>8, <1>9

LEMMA CaptureSteps ==
  ASSUME CaptureInv(capture), CaptureNext
  PROVE  CaptureInv(capture')
  BY TakesMessage, GetsMessage, WritesSample, MovesOn, ReadsRecording DEF CaptureNext, Capturing

LEMMA CaptureIsTold ==
  ASSUME CaptureInv(capture)
  PROVE  CaptureIsHonest
<1>1. capture \in Captures
  BY DEF CaptureInv
<1>2. Begins(capture)
  BY <1>1, HeldBegins DEF CaptureInv
<1>3. capture.file = SubSeq(capture.taken, 1, Len(capture.file))
  BY <1>1, <1>2, BeginsIsPrefix
<1> QED
  BY <1>3 DEF CaptureInv, Staged, Held, CaptureIsHonest

\* A trace is honest about what it holds: when it says it is complete it has every message
\* the queue took, in order, the rest is in its count of drops, and what a capture that
\* failed has written is a beginning of what it took (capture_live and export_mcap).
THEOREM TraceIsHonest == CaptureSpec => []CaptureIsHonest
<1>1. CaptureInit => CaptureInv(capture)
  BY CaptureStarts DEF CaptureInit
<1>2. CaptureInv(capture) /\ [CaptureNext]_capture => CaptureInv(capture)'
  BY CaptureSteps
<1>3. CaptureInv(capture) => CaptureIsHonest
  BY CaptureIsTold
<1> QED
  BY <1>1, <1>2, <1>3, PTL DEF CaptureSpec

-----------------------------------------------------------------------------
(* Both, as the runs check them *)

\* The part that is not looked at is where it has nothing left to do.
OneOrTheOther ==
  /\ RecorderInv(recorder)
  /\ \/ subject = "capture" /\ CaptureInv(capture)
     \/ subject # "capture" /\ capture = [NewCapture("live") EXCEPT !.place = "done"]

\* What a program's evidence files say is true: RecordIsAccounted of its log and
\* CaptureIsHonest of its trace, for every capacity and every length of a recording.
THEOREM EvidenceIsTrue == MCSpec => []EvidenceIsHonest
<1> DEFINE all == <<subject, pullVars, endVars, recorder, capture>>
<1>1. MCInit => OneOrTheOther
  <2> SUFFICES ASSUME MCInit PROVE OneOrTheOther
    OBVIOUS
  <2>1. RecorderInv(recorder)
    <3> DEFINE d == [NewRecorder EXCEPT !.closing = TRUE, !.error = TRUE,
                                        !.writer = "done", !.joined = TRUE]
    <3>1. d \in Records
      BY EmptySeq DEF NewRecorder, Records, Places
    <3>2. /\ d.rows = <<>> /\ d.writer = "done" /\ d.written = 0 /\ d.dropped = 0
          /\ d.submitted = 0 /\ d.error /\ d.summary = FALSE /\ d.file = <<>>
      BY DEF NewRecorder
    <3> HIDE DEF d
    <3>3. Bit(d.summary) = 0 /\ Bit(Summarized(d)) = 0
      BY <3>2 DEF Bit, Summarized
    <3>4. RecorderInv(d)
      BY <3>1, <3>2, <3>3 DEF RecorderInv, Broken
    <3> QED
      BY <3>4, RecorderStarts DEF MCInit, d
  <2>2. \/ subject = "capture" /\ CaptureInv(capture)
        \/ subject # "capture" /\ capture = [NewCapture("live") EXCEPT !.place = "done"]
    BY CaptureStarts DEF MCInit, CaptureInit
  <2> QED
    BY <2>1, <2>2 DEF OneOrTheOther
<1>2. OneOrTheOther /\ [MCNext]_all => OneOrTheOther'
  <2> SUFFICES ASSUME OneOrTheOther, [MCNext]_all PROVE OneOrTheOther'
    OBVIOUS
  <2>1. CASE subject = "recorder" /\ RecorderNext /\ UNCHANGED <<subject, capture>>
    BY <2>1, RecorderSteps DEF OneOrTheOther
  <2>2. CASE subject = "capture" /\ CaptureNext /\ UNCHANGED <<subject, recorder>>
    BY <2>2, CaptureSteps DEF OneOrTheOther
  <2>3. CASE UNCHANGED <<subject, recorder, capture>>
    BY <2>3 DEF OneOrTheOther
  <2> QED
    BY <2>1, <2>2, <2>3 DEF MCNext
<1>3. OneOrTheOther => EvidenceIsHonest
  <2>1. RecorderInv(recorder) => RecordIsAccounted
    BY RecorderAccounts
  <2>2. CaptureInv(capture) => CaptureIsHonest
    BY CaptureIsTold
  <2>3. capture = [NewCapture("live") EXCEPT !.place = "done"] => CaptureIsHonest
    BY DEF NewCapture, CaptureIsHonest
  <2> QED
    BY <2>1, <2>2, <2>3 DEF OneOrTheOther, EvidenceIsHonest
<1> QED
  BY <1>1, <1>2, <1>3, PTL DEF MCSpec
=============================================================================
