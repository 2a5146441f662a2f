------------------------------ MODULE JoyStream ------------------------------
(***************************************************************************)
(* class JoyReader of python/locomotion_aorta/joy.py: one consumer drains  *)
(* a finite ring of joystick frames, counts the button edges between       *)
(* neighbouring frames and tells whether the count is complete.            *)
(*                                                                         *)
(* A read is as many steps as it receives frames: publishers go on while   *)
(* it drains.  Sequence numbers wrap at Modulus (2^64 in the code).  There *)
(* is one button, which a frame may also leave out (a shorter button       *)
(* list); axes and time stamps are left out.                               *)
(*                                                                         *)
(* The publishers and the network are external.  Each frame carries, for   *)
(* the properties only, what its publisher had done when it was sent.      *)
(***************************************************************************)
EXTENDS Naturals, Sequences, FiniteSets

CONSTANTS
  Sources,      \* publisher identities
  NoSource,     \* a frame without header or without publisher identity
  Depth,        \* frames the ring keeps
  Modulus,      \* sequence numbers are 0 .. Modulus - 1
  FirstNumbers, \* numbers a publisher may start with
  Fates,        \* what may happen to a frame, see Publish
  MaxFrames,    \* bound: frames published
  MaxTroubles   \* bound: restarts and frames that are not identified, leave the
                \* button out or have another fate than "kept"

ASSUME SourceAssumption == NoSource \notin Sources
ASSUME NumberAssumption ==
  /\ Depth \in Nat \ {0} /\ Modulus \in Nat \ {0, 1}
  /\ FirstNumbers \subseteq 0 .. Modulus - 1
\* The distance of two numbers tells their order (uint64 in the code).
ASSUME WidthAssumption == MaxFrames \in Nat /\ 2 * MaxFrames < Modulus
ASSUME FateAssumption == Fates \subseteq {"kept", "lost", "twice", "malformed", "late"}

VARIABLES
  publisher,  \* each publisher: its life, its next number and what it has done
  spent,      \* frames and troubles so far
  late,       \* frames the network still holds
  ring,       \* the pull subscription
  reader,     \* the JoyReader
  place,      \* "idle", "draining" or "closed"
  last,       \* history: the last frame accepted
  seen,       \* history: of each source, which frames were accepted, while orderly
  base,       \* history: what last was at the last snapshot, and the lives accepted since
  orderly     \* history: one life each, nothing late, every frame identified

vars == <<publisher, spent, late, ring, reader, place, last, seen, base, orderly>>

NoNumber == Modulus     \* no number seen of this source

-----------------------------------------------------------------------------
(* Publishers and network *)

Born(life, number) ==
  [life |-> life, number |-> number, sent |-> 0, button |-> "up", presses |-> 0, releases |-> 0]

Toggled(p) == IF p.button = "up"
              THEN [p EXCEPT !.button = "down", !.presses = @ + 1]
              ELSE [p EXCEPT !.button = "up", !.releases = @ + 1]

\* The oldest frames leave a full ring.
Put(queue, added) ==
  LET all == queue \o added
      excess == Len(all) - Depth
  IN IF excess > 0 THEN SubSeq(all, excess + 1, Len(all)) ELSE all

Frame(s, p, named, shown, good) ==
  [source |-> IF named THEN s ELSE NoSource, number |-> p.number,
   button |-> IF shown THEN p.button ELSE "absent", good |-> good,
   from |-> s, life |-> p.life, index |-> p.sent, presses |-> p.presses,
   releases |-> p.releases]

\* Bounds; and nothing is sent to a reader that is closed.
Affordable(b) == /\ b.frames <= MaxFrames /\ b.troubles <= MaxTroubles
                 /\ place # "closed"

Publish(s) ==
  \E p \in {publisher[s], Toggled(publisher[s])}, fate \in Fates,
     named \in BOOLEAN, shown \in BOOLEAN :
    LET m == Frame(s, [p EXCEPT !.sent = @ + 1], named, shown, fate # "malformed")
        plain == named /\ shown /\ fate = "kept"
    IN
    /\ spent' = [frames |-> spent.frames + 1,
                 troubles |-> spent.troubles + IF plain THEN 0 ELSE 1]
    /\ Affordable(spent')
    /\ publisher' = [publisher EXCEPT ![s] = [p EXCEPT !.sent = @ + 1,
                                                       !.number = (@ + 1) % Modulus]]
    /\ ring' = CASE fate \in {"kept", "malformed"} -> Put(ring, <<m>>)
                 [] fate = "twice" -> Put(ring, <<m, m>>)
                 [] OTHER -> ring
    /\ late' = IF fate = "late" THEN late \cup {m} ELSE late
    /\ orderly' = (orderly /\ named /\ fate # "late")
    /\ UNCHANGED <<reader, place, last, seen, base>>

Arrive == \E m \in late : /\ late' = late \ {m}
                          /\ ring' = Put(ring, <<m>>)
                          /\ UNCHANGED <<publisher, spent, reader, place, last, seen, base, orderly>>

Restart(s) ==
  /\ publisher[s].sent > 0
  /\ spent' = [spent EXCEPT !.troubles = @ + 1]
  /\ Affordable(spent')
  /\ \E n \in FirstNumbers :
       publisher' = [publisher EXCEPT ![s] = Born(@.life + 1, n)]
  /\ orderly' = FALSE
  /\ UNCHANGED <<late, ring, reader, place, last, seen, base>>

-----------------------------------------------------------------------------
(* The reader *)

\* _reset_pending: what a snapshot hands over.
Emptied(r) == [r EXCEPT !.pressed = 0, !.released = 0, !.missing = 0, !.samples = 0,
                        !.incomplete = FALSE]

Opened == [button |-> "none", source |-> NoSource, numbers |-> [s \in Sources |-> NoNumber],
           available |-> FALSE, complete |-> FALSE, missingTotal |-> 0, samplesTotal |-> 0,
           pressed |-> 0, released |-> 0, missing |-> 0, samples |-> 0, incomplete |-> FALSE]

Identified(m) == m.source # NoSource
SourceChanged(r, m) == r.samplesTotal # 0 /\ m.source # r.source
Compares(r, m) == Identified(m) /\ r.numbers[m.source] # NoNumber
Distance(r, m) == (m.number + Modulus - r.numbers[m.source]) % Modulus
Duplicate(r, m) == Compares(r, m) /\ Distance(r, m) = 0
WentBack(r, m) == Compares(r, m) /\ Distance(r, m) >= Modulus \div 2
\* Faults the checks must notice are named Faulty...; nothing uses them.
FaultyGap(r, m) == IF Identified(m) /\ r.numbers[m.source] # NoNumber /\ m.number > r.numbers[m.source]
                   THEN m.number - r.numbers[m.source] - 1 ELSE 0
Gap(r, m) == IF Compares(r, m) /\ ~Duplicate(r, m) /\ ~WentBack(r, m)
             THEN Distance(r, m) - 1 ELSE 0

\* The button the new frame is compared with.
FaultyPrevious(r, m) == IF WentBack(r, m) THEN "none" ELSE r.button
Previous(r, m) == IF SourceChanged(r, m) \/ WentBack(r, m) THEN "none" ELSE r.button

Ambiguous(r, m) ==
  \/ ~Identified(m) \/ Gap(r, m) > 0
  \/ Previous(r, m) = "none"                              \* changed, went back, or first
  \/ (Previous(r, m) = "absent") # (m.button = "absent")  \* button_count_changed

\* _accept.
Accepted(r, m) ==
  IF Duplicate(r, m) THEN [r EXCEPT !.incomplete = TRUE]
  ELSE [r EXCEPT
    !.incomplete = @ \/ Ambiguous(r, m),
    !.numbers = IF Identified(m) THEN [@ EXCEPT ![m.source] = m.number]
                ELSE [s \in Sources |-> NoNumber],
    !.missing = @ + Gap(r, m), !.missingTotal = @ + Gap(r, m),
    !.pressed = @ + (IF Previous(r, m) = "up" /\ m.button = "down" THEN 1 ELSE 0),
    !.released = @ + (IF Previous(r, m) = "down" /\ m.button = "up" THEN 1 ELSE 0),
    !.button = m.button, !.source = m.source, !.available = Identified(m),
    !.samples = @ + 1, !.samplesTotal = @ + 1]

StartRead == /\ place = "idle" /\ place' = "draining"
             /\ UNCHANGED <<publisher, spent, late, ring, reader, last, seen, base, orderly>>

Receive ==
  LET m == Head(ring) IN
  /\ place = "draining" /\ ring # <<>>
  /\ ring' = Tail(ring)
  /\ IF m.good
     THEN /\ reader' = Accepted(reader, m)
          /\ IF Duplicate(reader, m)
             THEN UNCHANGED <<last, seen, base>>
             ELSE /\ last' = {m}
                  /\ base' = [base EXCEPT !.lives = @ \cup {m.life}]
                  /\ seen' = IF orderly THEN [seen EXCEPT ![m.from] = @ \cup {m.index}]
                             ELSE [s \in Sources |-> {}]
     ELSE /\ reader' = [reader EXCEPT !.incomplete = TRUE]
          /\ UNCHANGED <<last, seen, base>>
  /\ UNCHANGED <<publisher, spent, late, place, orderly>>

Complete(r) == /\ ~r.incomplete
               /\ IF r.samples > 0 THEN r.available ELSE r.complete

FinishRead ==
  /\ place = "draining" /\ ring = <<>>
  /\ place' = "idle"
  /\ base' = [last |-> last, lives |-> {}]
  /\ reader' = Emptied([reader EXCEPT !.complete = Complete(reader)])
  /\ UNCHANGED <<publisher, spent, late, ring, last, seen, orderly>>

FaultyFailRead ==
  /\ place = "draining" /\ place' = "idle"
  /\ reader' = Emptied(reader)
  /\ UNCHANGED <<publisher, spent, late, ring, last, seen, base, orderly>>

\* try_recv raises: the read ends without a snapshot.
FailRead == /\ place = "draining" /\ place' = "idle"
            /\ UNCHANGED <<publisher, spent, late, ring, reader, last, seen, base, orderly>>

Close == /\ place = "idle" /\ place' = "closed"
         /\ UNCHANGED <<publisher, spent, late, ring, reader, last, seen, base, orderly>>

-----------------------------------------------------------------------------

Init == /\ publisher \in [Sources -> {Born(1, n) : n \in FirstNumbers}]
        /\ spent = [frames |-> 0, troubles |-> 0] /\ late = {} /\ ring = <<>>
        /\ reader = Opened /\ place = "idle"
        /\ last = {} /\ seen = [s \in Sources |-> {}] /\ orderly = TRUE
        /\ base = [last |-> {}, lives |-> {}]

Next == \/ \E s \in Sources : Publish(s) \/ Restart(s)
        \/ Arrive \/ StartRead \/ Receive \/ FinishRead \/ FailRead \/ Close

Spec == Init /\ [][Next]_vars

-----------------------------------------------------------------------------
(* Properties *)

\* event_history_complete is to be believed: between the last frame of the snapshot
\* before and the last frame of this one, the publisher did exactly what the counts
\* say, whatever was lost, sent twice, overtaken, malformed or evicted, and although
\* reads failed in between.  (README.md:108 of velocity_mode, "`event_history_complete`
\* is false for a known gap or ambiguous interval".)  A publisher that restarts and
\* happens to go on at the next number is beyond what the reader can see: the counts
\* are compared when all frames since are of one life.
CompleteIsTrue ==
  [][FinishRead /\ Complete(reader) /\ reader.samples > 0 =>
       /\ base.last # {}
       /\ \A a \in base.last, b \in last :
            /\ a.from = b.from
            /\ base.lives \subseteq {a.life} /\ b.button # "absent" =>
                 /\ reader.pressed = b.presses - a.presses
                 /\ reader.released = b.releases - a.releases]_vars

\* An edge is never counted across a change of source or a step back of the number:
\* the publisher did press or release between the two frames compared ("without
\* inventing edges", README.md:104 of velocity_mode).
EdgesAreReal ==
  [][\A a \in last, b \in last' :
       b.source # NoSource =>
         /\ reader'.pressed > reader.pressed =>
              a.from = b.from /\ (a.life = b.life => b.presses > a.presses)
         /\ reader'.released > reader.released =>
              a.from = b.from /\ (a.life = b.life => b.releases > a.releases)]_vars

\* The frames that were sent between accepted ones of their source and not accepted.
Missed == {f \in Sources \X (1 .. MaxFrames) :
             /\ f[2] \notin seen[f[1]]
             /\ \E i, j \in seen[f[1]] : i < f[2] /\ f[2] < j}

\* "count forward gaps in the payload AortaHeader's uint64 sequence" (README.md:105-106
\* of velocity_mode): in an orderly stream the cumulative gap count is the number of the
\* frames missed, across a wrap of the number, duplicates, evictions and alternating
\* sources.
MissingIsExact == orderly => reader.missingTotal = Cardinality(Missed)

\* README.md:112-113 of velocity_mode: "Duplicate or older sequences do not overwrite
\* axes, buttons, receipt time or the sequence baseline."
OlderKeepsBaseline ==
  [][\A a \in last, b \in last' :
       a.source = b.source /\ a.life = b.life => b.index >= a.index]_vars
=============================================================================
