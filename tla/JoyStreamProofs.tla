---------------------------- MODULE JoyStreamProofs ----------------------------
(***************************************************************************)
(* Theorems about JoyStream, for every set of publishers, every ring, and  *)
(* whatever happens to the frames: the edges the reader counts are real, a *)
(* snapshot that says its history is complete is to be believed, and the   *)
(* gaps counted in an orderly stream are the frames it missed.             *)
(***************************************************************************)
EXTENDS JoyStream, SequenceTheorems, FiniteSetTheorems, TLAPS

USE SourceAssumption, NumberAssumption, WidthAssumption, FateAssumption

-----------------------------------------------------------------------------
(* The invariant *)

Numbers == 0 .. Modulus - 1
Buttons == {"up", "down", "absent"}

Frames == [source : Sources \cup {NoSource}, number : Numbers, button : Buttons,
           good : BOOLEAN, from : Sources, life : Nat, index : Nat, presses : Nat,
           releases : Nat]

Publishers == [life : Nat, number : Numbers, sent : Nat, button : {"up", "down"},
               presses : Nat, releases : Nat]

NumberMaps == [Sources -> Numbers \cup {NoNumber}]

Readers == [button : Buttons \cup {"none"}, source : Sources \cup {NoSource},
            numbers : NumberMaps, available : BOOLEAN,
            complete : BOOLEAN, missingTotal : Nat, samplesTotal : Nat, pressed : Nat,
            released : Nat, missing : Nat, samples : Nat, incomplete : BOOLEAN]

TypeInv ==
  /\ publisher \in [Sources -> Publishers]
  /\ spent \in [frames : Nat, troubles : Nat]
  /\ late \subseteq Frames /\ ring \in Seq(Frames)
  /\ reader \in Readers
  /\ last \subseteq Frames
  /\ base \in [last : SUBSET Frames, lives : SUBSET Nat]

\* n and m are the numbers of the i-th and the j-th frame of one life.
Spaced(n, i, m, j) == \/ n + j = m + i
                      \/ n + j + Modulus = m + i
                      \/ n + j = m + i + Modulus

\* What a button has done that was pressed and released so often.
Stands(button, presses, releases) ==
  /\ button = "down" => presses = releases + 1
  /\ button = "up" => presses = releases
  /\ presses \in {releases, releases + 1}

\* g is a later frame of f's life, or f once more.
After(g, f) ==
  /\ f.presses <= g.presses /\ f.releases <= g.releases
  /\ g.presses + g.releases + f.index <= f.presses + f.releases + g.index
  /\ Spaced(g.number, g.index, f.number, f.index)

\* What p sends next comes after f.
Precedes(p, f) ==
  /\ f.index <= p.sent
  /\ f.presses <= p.presses /\ f.releases <= p.releases
  /\ p.presses + p.releases + f.index <= f.presses + f.releases + p.sent
  /\ Spaced(p.number, p.sent + 1, f.number, f.index)

Entries(q) == {q[i] : i \in 1 .. Len(q)}

\* The frames that are somewhere.
Known == Entries(ring) \cup late \cup last \cup base.last

PublishersInv ==
  /\ spent.frames <= MaxFrames
  /\ \A s \in Sources : /\ publisher[s].sent <= spent.frames
                        /\ Stands(publisher[s].button, publisher[s].presses, publisher[s].releases)

SentBy(f) ==
  /\ f.source \in {f.from, NoSource}
  /\ 1 <= f.index /\ f.index <= MaxFrames
  /\ Stands(f.button, f.presses, f.releases)
  /\ f.life <= publisher[f.from].life
  /\ f.life = publisher[f.from].life => Precedes(publisher[f.from], f)

FramesInv ==
  /\ \A f \in Known : SentBy(f)
  /\ \A f, g \in Known : f.from = g.from /\ f.life = g.life /\ f.index <= g.index => After(g, f)

\* What the reader compares the next frame with is the last one it accepted.
LastInv ==
  /\ last = {} => reader.samplesTotal = 0 /\ reader.button = "none"
  /\ \A a \in last :
       /\ last = {a} /\ reader.samplesTotal # 0
       /\ reader.button = a.button /\ reader.source = a.source
       /\ a.source # NoSource => reader.numbers[a.source] = a.number

\* While nothing is in doubt the counts are what the publisher did.
CountsInv ==
  ~reader.incomplete =>
    /\ reader.samples = 0 => /\ reader.pressed = 0 /\ reader.released = 0 /\ base.last = last
    /\ reader.samples > 0 =>
         /\ base.last # {}
         /\ \A a \in base.last, b \in last :
              /\ a.from = b.from /\ b.source # NoSource /\ b.life \in base.lives
              /\ (a.button = "absent") = (b.button = "absent")
              /\ base.lives \subseteq {a.life} /\ b.button # "absent" =>
                   /\ b.presses = a.presses + reader.pressed
                   /\ b.releases = a.releases + reader.released

JoyInv == TypeInv /\ PublishersInv /\ FramesInv /\ LastInv /\ CountsInv
-----------------------------------------------------------------------------
(* Numbers and sequences *)

LEMMA RoundOnce ==
  ASSUME NEW x \in Nat, x < 2 * Modulus
  PROVE  x % Modulus = IF x < Modulus THEN x ELSE x - Modulus
<1>1. Modulus \in Nat /\ Modulus > 0
  OBVIOUS
<1>2. x = Modulus * (x \div Modulus) + (x % Modulus) /\ x % Modulus \in 0 .. Modulus - 1
  BY <1>1
<1>3. x \div Modulus \in {0, 1}
  BY <1>1, <1>2
<1> QED
  BY <1>1, <1>2, <1>3

LEMMA ElementsOf ==
  ASSUME NEW S, NEW q \in Seq(S)
  PROVE  Entries(q) \subseteq S /\ q \in Seq(Entries(q)) /\ Len(q) \in Nat
<1>1. Len(q) \in Nat /\ q \in [1 .. Len(q) -> S]
  BY LenProperties
<1>2. q \in [1 .. Len(q) -> Entries(q)] /\ Entries(q) \subseteq S
  BY <1>1 DEF Entries
<1>3. q \in Seq(Entries(q))
  BY <1>1, <1>2, SeqDef
<1> QED
  BY <1>1, <1>2, <1>3

LEMMA PutKeeps ==
  ASSUME NEW S, NEW q \in Seq(S), NEW a \in Seq(S)
  PROVE  Put(q, a) \in Seq(S)
<1> DEFINE all == q \o a
           excess == Len(all) - Depth
<1>1. all \in Seq(S) /\ Len(all) \in Nat
  BY ConcatProperties, LenProperties
<1>2. CASE excess > 0
  <2>1. excess + 1 \in 1 .. Len(all) + 1 /\ Len(all) \in excess .. Len(all)
    BY <1>1, <1>2
  <2>2. SubSeq(all, excess + 1, Len(all)) \in Seq(S)
    BY <1>1, <2>1, SubSeqProperties
  <2> QED
    BY <1>2, <2>2 DEF Put
<1>3. CASE ~(excess > 0)
  BY <1>1, <1>3 DEF Put
<1> QED
  BY <1>2, <1>3

LEMMA WiderSeq ==
  ASSUME NEW S, NEW T, S \subseteq T, NEW q \in Seq(S)
  PROVE  q \in Seq(T)
<1>1. Len(q) \in Nat /\ q \in [1 .. Len(q) -> S]
  BY LenProperties
<1>2. q \in [1 .. Len(q) -> T]
  BY <1>1
<1> QED
  BY <1>1, <1>2, SeqDef

\* What is in the ring after one more frame was in it before, or is that frame.
LEMMA PutAdds ==
  ASSUME NEW q \in Seq(Frames), NEW m \in Frames,
         NEW r, r \in {q, Put(q, <<m>>), Put(q, <<m, m>>)}
  PROVE  /\ r \in Seq(Frames)
         /\ Entries(r) \subseteq Entries(q) \cup {m}
<1> DEFINE S == Entries(q) \cup {m}
<1>1. q \in Seq(S)
  BY ElementsOf, WiderSeq
<1>2. <<m>> \in Seq(S) /\ <<m, m>> \in Seq(S) /\ <<m>> \in Seq(Frames) /\ <<m, m>> \in Seq(Frames)
  <2>1. m \in S
    OBVIOUS
  <2> HIDE DEF S
  <2> QED
    BY <2>1
<1>3. r \in Seq(S) /\ r \in Seq(Frames)
  <2> HIDE DEF S
  <2>1. \A a \in {<<m>>, <<m, m>>} : Put(q, a) \in Seq(S) /\ Put(q, a) \in Seq(Frames)
    BY <1>1, <1>2, PutKeeps
  <2> QED
    BY <1>1, <2>1
<1> QED
  BY <1>3, ElementsOf

LEMMA TailTakes ==
  ASSUME NEW q \in Seq(Frames), q # <<>>
  PROVE  /\ Tail(q) \in Seq(Frames)
         /\ Entries(Tail(q)) \subseteq Entries(q)
         /\ Head(q) \in Entries(q)
<1> DEFINE S == Entries(q)
<1>1. q \in Seq(S)
  BY ElementsOf
<1>2. Tail(q) \in Seq(S) /\ Head(q) \in S /\ Tail(q) \in Seq(Frames)
  <2> HIDE DEF S
  <2> QED
    BY <1>1, HeadTailProperties
<1> QED
  BY <1>2, ElementsOf

-----------------------------------------------------------------------------
(* What the reader compares *)

LEMMA KnownFields ==
  ASSUME TypeInv, NEW f \in Known
  PROVE  /\ f \in Frames /\ f.number \in Numbers /\ f.index \in Nat /\ f.life \in Nat
         /\ f.presses \in Nat /\ f.releases \in Nat /\ f.from \in Sources
         /\ f.source \in Sources \cup {NoSource} /\ f.button \in Buttons
<1>1. Entries(ring) \subseteq Frames
  BY ElementsOf DEF TypeInv
<1>2. base.last \subseteq Frames /\ late \subseteq Frames /\ last \subseteq Frames
  BY DEF TypeInv
<1>3. f \in Frames
  BY <1>1, <1>2 DEF Known
<1> QED
  BY <1>3 DEF Frames

LEMMA ReaderFields ==
  ASSUME TypeInv
  PROVE  /\ reader \in Readers /\ reader.numbers \in NumberMaps
         /\ reader.pressed \in Nat /\ reader.released \in Nat /\ reader.samples \in Nat
         /\ reader.samplesTotal \in Nat /\ reader.missing \in Nat /\ reader.missingTotal \in Nat
         /\ reader.incomplete \in BOOLEAN
  BY DEF TypeInv, Readers

\* A number that is ahead by less than half is that of a later frame of the same life,
\* and the next number is that of the next frame.
LEMMA Ahead ==
  ASSUME NEW n \in Numbers, NEW m \in Numbers, NEW i \in Nat, NEW j \in Nat,
         1 <= i, i <= MaxFrames, 1 <= j, j <= MaxFrames, Spaced(n, i, m, j)
  PROVE  LET d == (n + Modulus - m) % Modulus IN
         /\ d # 0 /\ ~ (d >= Modulus \div 2) => i > j
         /\ d = 1 => i = j + 1 \/ i < j
<1> DEFINE x == n + Modulus - m
<1>1. x \in Nat /\ x < 2 * Modulus /\ Modulus \in Nat
  BY DEF Numbers
<1>2. x % Modulus = IF x < Modulus THEN x ELSE x - Modulus
  BY <1>1, RoundOnce
<1>3. 2 * (Modulus \div 2) <= Modulus /\ Modulus \div 2 \in Nat
  OBVIOUS
<1> QED
  BY <1>1, <1>2, <1>3 DEF Spaced, Numbers

LEMMA Neighbours ==
  ASSUME JoyInv, NEW m \in Known, NEW a \in last, Identified(m), ~SourceChanged(reader, m)
  PROVE  /\ Compares(reader, m) /\ a.source = m.source /\ a.from = m.from
         /\ Distance(reader, m) = (m.number + Modulus - a.number) % Modulus
<1>1. a.source = m.source /\ reader.numbers[a.source] = a.number /\ a.source # NoSource
  BY DEF JoyInv, LastInv, SourceChanged, Identified
<1>2. a \in Known
  BY DEF Known
<1>3. a.number \in Numbers /\ a.source \in {a.from, NoSource} /\ m.source \in {m.from, NoSource}
  BY <1>2, KnownFields DEF JoyInv, FramesInv, SentBy
<1>4. a.number # NoNumber
  BY <1>3 DEF Numbers, NoNumber
<1> QED
  BY <1>1, <1>3, <1>4 DEF Compares, Identified, Distance

\* The frame accepted next to one of the same life is a later one; without a gap it is
\* the next.
LEMMA ComesAfter ==
  ASSUME JoyInv, NEW m \in Known, NEW a \in last, Identified(m), ~SourceChanged(reader, m),
         ~Duplicate(reader, m), ~WentBack(reader, m), a.life = m.life
  PROVE  /\ a.index < m.index /\ After(m, a)
         /\ Gap(reader, m) = 0 => m.index = a.index + 1
<1> DEFINE d == Distance(reader, m)
<1>1. /\ Compares(reader, m) /\ a.from = m.from
      /\ d = (m.number + Modulus - a.number) % Modulus
  BY Neighbours
<1>2. a \in Known
  BY DEF Known
<1>3. /\ a.number \in Numbers /\ m.number \in Numbers /\ a.index \in Nat /\ m.index \in Nat
      /\ 1 <= a.index /\ a.index <= MaxFrames /\ 1 <= m.index /\ m.index <= MaxFrames
  BY <1>2, KnownFields DEF JoyInv, FramesInv, SentBy
<1>4. d # 0 /\ ~ (d >= Modulus \div 2)
  BY <1>1 DEF Duplicate, WentBack
<1>5. /\ a.index <= m.index => After(m, a)
      /\ m.index <= a.index => After(a, m)
  BY <1>1, <1>2 DEF JoyInv, FramesInv
<1>6. Spaced(m.number, m.index, a.number, a.index)
  <2>1. CASE a.index <= m.index
    BY <1>5, <2>1 DEF After
  <2>2. CASE m.index <= a.index
    BY <1>3, <1>5, <2>2 DEF After, Spaced, Numbers
  <2> QED
    BY <1>3, <2>1, <2>2
<1>7. /\ m.index > a.index
      /\ d = 1 => m.index = a.index + 1 \/ m.index < a.index
  BY <1>1, <1>3, <1>4, <1>6, Ahead
<1>8. Gap(reader, m) = 0 => d = 1
  <2>1. d \in Nat
    <3>1. m.number + Modulus - a.number \in Nat /\ Modulus \in Nat \ {0}
      BY <1>3 DEF Numbers
    <3> QED
      BY <1>1, <3>1
  <2>2. Gap(reader, m) = d - 1
    BY <1>1 DEF Gap
  <2> HIDE DEF d
  <2> QED
    BY <1>4, <2>1, <2>2
<1> QED
  BY <1>3, <1>5, <1>7, <1>8

-----------------------------------------------------------------------------
(* The publishers and the network *)

ReadersPart == reader' = reader /\ last' = last /\ base' = base

LEMMA ReaderRests ==
  ASSUME JoyInv, ReadersPart
  PROVE  LastInv' /\ CountsInv'
  BY DEF ReadersPart, JoyInv, LastInv, CountsInv

LEMMA FewerFrames ==
  ASSUME JoyInv, publisher' = publisher, spent' = spent, Known' \subseteq Known
  PROVE  PublishersInv' /\ FramesInv'
  BY DEF JoyInv, PublishersInv, FramesInv, SentBy

LEMMA NextNumber ==
  ASSUME NEW n \in Numbers, NEW i \in Nat, NEW m \in Numbers, NEW j \in Nat,
         1 <= j, j <= i + 1, i + 1 <= MaxFrames, Spaced(n, i + 1, m, j)
  PROVE  (n + 1) % Modulus \in Numbers /\ Spaced((n + 1) % Modulus, i + 2, m, j)
<1>1. PICK x \in Nat : x = n + 1
  BY DEF Numbers
<1>2. x < 2 * Modulus /\ Modulus \in Nat
  BY <1>1 DEF Numbers
<1> DEFINE k == x % Modulus
<1>3. k = IF x < Modulus THEN x ELSE x - Modulus
  BY <1>2, RoundOnce
<1>4. k = (n + 1) % Modulus
  BY <1>1
<1> HIDE DEF k
<1>5. k \in Numbers
  BY <1>1, <1>2, <1>3 DEF Numbers
<1>6. Spaced(k, i + 2, m, j)
  BY <1>1, <1>2, <1>3 DEF Spaced, Numbers
<1> QED
  BY <1>4, <1>5, <1>6

LEMMA Toggles ==
  ASSUME NEW o \in Publishers, Stands(o.button, o.presses, o.releases), NEW q \in {o, Toggled(o)}
  PROVE  /\ q \in Publishers /\ q.life = o.life /\ q.number = o.number /\ q.sent = o.sent
         /\ Stands(q.button, q.presses, q.releases)
         /\ o.presses <= q.presses /\ o.releases <= q.releases
         /\ q.presses + q.releases <= o.presses + o.releases + 1
<1>1. CASE q = o
  BY <1>1 DEF Publishers
<1>2. CASE q = Toggled(o) /\ o.button = "up"
  <2>1. q = [o EXCEPT !.button = "down", !.presses = o.presses + 1]
    BY <1>2 DEF Toggled
  <2>2. /\ o.presses \in Nat /\ o.releases \in Nat /\ o.presses + 1 \in Nat
    BY DEF Publishers
  <2>3. /\ q \in Publishers /\ q.life = o.life /\ q.number = o.number /\ q.sent = o.sent
        /\ q.button = "down" /\ q.presses = o.presses + 1 /\ q.releases = o.releases
    BY <2>1, <2>2 DEF Publishers
  <2> QED
    BY <1>2, <2>2, <2>3 DEF Stands
<1>3. CASE q = Toggled(o) /\ o.button = "down"
  <2>1. q = [o EXCEPT !.button = "up", !.releases = o.releases + 1]
    BY <1>3 DEF Toggled
  <2>2. /\ o.presses \in Nat /\ o.releases \in Nat /\ o.releases + 1 \in Nat
    BY DEF Publishers
  <2>3. /\ q \in Publishers /\ q.life = o.life /\ q.number = o.number /\ q.sent = o.sent
        /\ q.button = "up" /\ q.releases = o.releases + 1 /\ q.presses = o.presses
    BY <2>1, <2>2 DEF Publishers
  <2> QED
    BY <1>3, <2>2, <2>3 DEF Stands
<1> QED
  BY <1>1, <1>2, <1>3 DEF Publishers

\* What Publish(s) does when its publisher's button is as in q and it sends m.
Sends(s, q, fate, named, shown, m) ==
  LET plain == named /\ shown /\ fate = "kept" IN
  /\ spent' = [frames |-> spent.frames + 1,
               troubles |-> spent.troubles + IF plain THEN 0 ELSE 1]
  /\ Affordable(spent')
  /\ publisher' = [publisher EXCEPT ![s] = [q EXCEPT !.sent = @ + 1,
                                                     !.number = (@ + 1) % Modulus]]
  /\ ring' = CASE fate \in {"kept", "malformed"} -> Put(ring, <<m>>)
               [] fate = "twice" -> Put(ring, <<m, m>>)
               [] OTHER -> ring
  /\ late' = IF fate = "late" THEN late \cup {m} ELSE late
  /\ orderly' = (orderly /\ named /\ fate # "late")
  /\ UNCHANGED <<reader, place, last, seen, base>>

LEMMA PublishFits ==
  ASSUME JoyInv, NEW s \in Sources, Publish(s)
  PROVE  TypeInv' /\ PublishersInv' /\ FramesInv'
<1> DEFINE o == publisher[s]
<1>1. PICK q \in {publisher[s], Toggled(publisher[s])}, fate \in Fates, named \in BOOLEAN,
           shown \in BOOLEAN :
        Sends(s, q, fate, named, shown,
              Frame(s, [q EXCEPT !.sent = @ + 1], named, shown, fate # "malformed"))
  BY Zenon DEF Publish, Sends
<1> DEFINE m == Frame(s, [q EXCEPT !.sent = @ + 1], named, shown, fate # "malformed")
<1>2. UNCHANGED <<reader, last, base>>
  BY DEF Publish
<1>18. Sends(s, q, fate, named, shown, m)
  BY <1>1
<1>3. spent' \in [frames : Nat, troubles : Nat]
  <2>1. \E k \in {0, 1} : spent' = [frames |-> spent.frames + 1, troubles |-> spent.troubles + k]
    BY DEF Publish
  <2>2. spent.frames \in Nat /\ spent.troubles \in Nat
    BY DEF JoyInv, TypeInv
  <2> QED
    BY <2>1, <2>2
<1>4. /\ o \in Publishers /\ o.sent <= spent.frames /\ spent.frames \in Nat
      /\ Stands(o.button, o.presses, o.releases)
  BY DEF JoyInv, TypeInv, PublishersInv
<1>5. /\ q \in Publishers /\ q.life = o.life /\ q.number = o.number /\ q.sent = o.sent
      /\ Stands(q.button, q.presses, q.releases)
      /\ o.presses <= q.presses /\ o.releases <= q.releases
      /\ q.presses + q.releases <= o.presses + o.releases + 1
  <2>1. q \in {o, Toggled(o)}
    BY <1>1
  <2> HIDE DEF o
  <2> QED
    BY <1>4, <2>1, Toggles
<1>6. /\ m \in Frames /\ m.source \in {s, NoSource} /\ m.number = o.number /\ m.from = s
      /\ m.life = o.life /\ m.index = o.sent + 1 /\ m.presses = q.presses
      /\ m.releases = q.releases /\ Stands(m.button, m.presses, m.releases)
  <2>1. m = [source |-> IF named THEN s ELSE NoSource, number |-> q.number,
             button |-> IF shown THEN q.button ELSE "absent", good |-> fate # "malformed",
             from |-> s, life |-> q.life, index |-> q.sent + 1, presses |-> q.presses,
             releases |-> q.releases]
    <3>1. /\ [q EXCEPT !.sent = @ + 1].number = q.number /\ [q EXCEPT !.sent = @ + 1].button = q.button
          /\ [q EXCEPT !.sent = @ + 1].life = q.life /\ [q EXCEPT !.sent = @ + 1].sent = q.sent + 1
          /\ [q EXCEPT !.sent = @ + 1].presses = q.presses
          /\ [q EXCEPT !.sent = @ + 1].releases = q.releases
      BY <1>5 DEF Publishers
    <3> QED
      BY <3>1, Zenon DEF Frame
  <2> HIDE DEF m
  <2>2. (IF named THEN s ELSE NoSource) \in {s, NoSource}
    OBVIOUS
  <2>3. (IF shown THEN q.button ELSE "absent") \in {q.button, "absent"}
    OBVIOUS
  <2> DEFINE b == IF shown THEN q.button ELSE "absent"
             r == IF named THEN s ELSE NoSource
  <2> HIDE DEF b, r
  <2>4. /\ q.number \in Numbers /\ q.life \in Nat /\ q.sent \in Nat /\ q.presses \in Nat
        /\ q.releases \in Nat /\ q.button \in {"up", "down"}
    BY <1>5 DEF Publishers
  <2>5. m = [source |-> r, number |-> q.number, button |-> b, good |-> fate # "malformed",
             from |-> s, life |-> q.life, index |-> q.sent + 1, presses |-> q.presses,
             releases |-> q.releases]
    BY <2>1 DEF b, r
  <2>6. r \in {s, NoSource} /\ b \in {q.button, "absent"}
    BY <2>2, <2>3 DEF b, r
  <2>7. b \in Buttons
    BY <2>4, <2>6 DEF Buttons
  <2>8. m \in Frames
    BY <2>4, <2>5, <2>6, <2>7 DEF Frames
  <2>9. m.button = b /\ m.source = r
    BY <2>5
  <2>10. Stands(b, q.presses, q.releases)
    BY <1>5, <2>6 DEF Stands
  <2> QED
    BY <1>5, <2>5, <2>6, <2>8, <2>9, <2>10
<1> HIDE DEF m
<1>7. /\ publisher' \in [Sources -> Publishers]
      /\ \A u \in Sources : u # s => publisher'[u] = publisher[u]
      /\ publisher'[s].life = o.life /\ publisher'[s].sent = o.sent + 1
      /\ publisher'[s].presses = q.presses /\ publisher'[s].releases = q.releases
      /\ publisher'[s].button = q.button /\ publisher'[s].number = (o.number + 1) % Modulus
  <2> DEFINE p == [q EXCEPT !.sent = @ + 1, !.number = (@ + 1) % Modulus]
  <2>1. (q.number + 1) % Modulus \in Numbers
    <3>1. q.number + 1 \in Nat /\ Modulus \in Nat \ {0}
      BY <1>5 DEF Publishers, Numbers
    <3> QED
      BY <3>1 DEF Numbers
  <2> DEFINE n == (q.number + 1) % Modulus
  <2> HIDE DEF n
  <2>2. p = [q EXCEPT !.sent = q.sent + 1, !.number = n]
    BY DEF n
  <2>3. /\ p \in Publishers /\ p.life = q.life /\ p.sent = q.sent + 1 /\ p.presses = q.presses
        /\ p.releases = q.releases /\ p.button = q.button /\ p.number = n
    <3>1. n \in Numbers
      BY <2>1 DEF n
    <3> HIDE DEF p, o, m
    <3>2. q \in Publishers
      BY <1>5
    <3>3. q.sent + 1 \in Nat
      BY <3>2 DEF Publishers
    <3> QED
      BY <2>2, <3>1, <3>2, <3>3 DEF Publishers
  <2>4. publisher' = [publisher EXCEPT ![s] = p] /\ publisher \in [Sources -> Publishers]
    BY <1>18, Zenon DEF Sends, JoyInv, TypeInv
  <2> HIDE DEF p
  <2> QED
    BY <1>5, <2>3, <2>4 DEF n
<1>8. /\ ring' \in Seq(Frames)
      /\ Entries(ring') \subseteq Entries(ring) \cup {m}
  <2>1. ring \in Seq(Frames)
    BY DEF JoyInv, TypeInv
  <2>2. ring' \in {ring, Put(ring, <<m>>), Put(ring, <<m, m>>)}
    <3>1. ring' = CASE fate \in {"kept", "malformed"} -> Put(ring, <<m>>)
                    [] fate = "twice" -> Put(ring, <<m, m>>)
                    [] OTHER -> ring
      BY <1>18 DEF Sends
    <3>2. CASE fate \in {"kept", "malformed"}
      BY <3>1, <3>2
    <3>3. CASE fate = "twice"
      BY <3>1, <3>3
    <3>4. CASE fate \notin {"kept", "malformed", "twice"}
      BY <3>1, <3>4
    <3> QED
      BY <3>2, <3>3, <3>4
  <2>3. m \in Frames
    BY <1>6
  <2> QED
    BY <2>1, <2>2, <2>3, PutAdds
<1>9. late' \subseteq Frames /\ late' \subseteq late \cup {m}
  <2>1. late' \in {late, late \cup {m}}
    BY <1>18 DEF Sends
  <2> QED
    BY <1>6, <2>1 DEF JoyInv, TypeInv
<1>10. Known' \subseteq Known \cup {m}
  BY <1>2, <1>8, <1>9 DEF Known
<1>11. TypeInv'
  BY <1>2, <1>3, <1>7, <1>8, <1>9 DEF JoyInv, TypeInv
<1>12. spent'.frames = spent.frames + 1 /\ spent'.frames <= MaxFrames
  BY <1>18 DEF Sends, Affordable
<1>13. PublishersInv'
  <2>1. \A u \in Sources :
          /\ publisher[u].sent \in Nat /\ publisher[u].sent <= spent.frames
          /\ Stands(publisher[u].button, publisher[u].presses, publisher[u].releases)
    BY DEF JoyInv, TypeInv, Publishers, PublishersInv
  <2>2. spent.frames \in Nat
    BY <1>4
  <2>3. ASSUME NEW u \in Sources
        PROVE  /\ publisher'[u].sent <= spent'.frames
               /\ Stands(publisher'[u].button, publisher'[u].presses, publisher'[u].releases)
    <3>1. CASE u = s
      BY <1>4, <1>5, <1>7, <1>12, <2>1, <2>2, <3>1
    <3>2. CASE u # s
      BY <1>7, <1>12, <2>1, <2>2, <3>2
    <3> QED
      BY <3>1, <3>2
  <2> QED
    BY <1>12, <2>3 DEF PublishersInv
<1>14. /\ o.number \in Numbers /\ o.sent \in Nat /\ o.presses \in Nat /\ o.releases \in Nat
       /\ q.presses \in Nat /\ q.releases \in Nat /\ o.sent + 1 <= MaxFrames
  BY <1>4, <1>5, <1>12 DEF Publishers
<1>15. /\ SentBy(m)' /\ After(m, m)
  <2>1. Spaced(o.number, o.sent + 1, o.number, o.sent + 1)
    BY DEF Spaced
  <2>2. Spaced((o.number + 1) % Modulus, o.sent + 2, o.number, o.sent + 1)
    BY <1>14, <2>1, NextNumber
  <2>3. Precedes(publisher'[s], m)
    BY <1>6, <1>7, <1>14, <2>2 DEF Precedes
  <2>4. \A f \in {m} : f.life = publisher'[f.from].life => Precedes(publisher'[f.from], f)
    BY <1>6, <2>3
  <2>5. SentBy(m)'
    BY <1>6, <1>7, <1>14, <2>4 DEF SentBy, Publishers
  <2>6. After(m, m)
    BY <1>6, <1>14, <2>1 DEF After
  <2> QED
    BY <2>5, <2>6
<1>16. ASSUME NEW f \in Known
       PROVE  /\ SentBy(f)'
              /\ f.from = m.from /\ f.life = m.life => f.index < m.index /\ After(m, f)
  <2>1. /\ f.number \in Numbers /\ f.index \in Nat /\ f.presses \in Nat /\ f.releases \in Nat
        /\ f.from \in Sources /\ SentBy(f) /\ f.life \in Nat
    BY KnownFields DEF JoyInv, FramesInv
  <2>2. CASE f.from # s \/ f.life # o.life
    <3>1. publisher'[f.from].life = publisher[f.from].life
      BY <1>7, <2>1
    <3>2. f.life = publisher'[f.from].life => Precedes(publisher'[f.from], f)
      BY <1>7, <2>1, <2>2, <3>1 DEF SentBy
    <3> QED
      BY <1>6, <2>1, <2>2, <3>1, <3>2 DEF SentBy
  <2>3. CASE f.from = s /\ f.life = o.life
    <3>1. Precedes(o, f) /\ 1 <= f.index
      BY <2>1, <2>3 DEF SentBy
    <3>2. Spaced((o.number + 1) % Modulus, o.sent + 2, f.number, f.index)
      BY <1>14, <2>1, <3>1, NextNumber DEF Precedes
    <3>6. publisher'[s].sent + 1 = o.sent + 2
      BY <1>7, <1>14
    <3>7. f.index <= o.sent + 1 /\ q.presses + q.releases + f.index <= f.presses + f.releases + (o.sent + 1)
          /\ f.presses <= q.presses /\ f.releases <= q.releases
      BY <1>5, <1>14, <2>1, <3>1 DEF Precedes
    <3>3. Precedes(publisher'[s], f)
      BY <1>7, <3>2, <3>6, <3>7 DEF Precedes
    <3>4. SentBy(f)'
      BY <1>7, <2>1, <2>3, <3>3 DEF SentBy
    <3>5. f.index < m.index /\ After(m, f)
      BY <1>5, <1>6, <1>14, <2>1, <3>1 DEF Precedes, After
    <3> QED
      BY <3>4, <3>5
  <2> QED
    BY <2>2, <2>3
<1>17. FramesInv'
  <2>1. \A f \in Known' : SentBy(f)'
    BY <1>10, <1>15, <1>16
  <2>2. ASSUME NEW f \in Known \cup {m}, NEW g \in Known \cup {m},
               f.from = g.from, f.life = g.life, f.index <= g.index
        PROVE  After(g, f)
    <3>1. CASE f \in Known /\ g \in Known
      BY <2>2, <3>1 DEF JoyInv, FramesInv
    <3>2. CASE g = m
      BY <1>15, <1>16, <2>2, <3>2
    <3>3. CASE f = m /\ g \in Known
      <4>1. g.index < m.index /\ g.index \in Nat /\ m.index \in Nat
        BY <1>6, <1>14, <1>16, <2>2, <3>3, KnownFields DEF JoyInv
      <4> QED
        BY <2>2, <3>3, <4>1
    <3> QED
      BY <3>1, <3>2, <3>3
  <2> QED
    BY <1>10, <2>1, <2>2 DEF FramesInv
<1> QED
  BY <1>11, <1>13, <1>17

LEMMA ArriveFits ==
  ASSUME JoyInv, Arrive
  PROVE  JoyInv'
<1>1. PICK m \in late : late' = late \ {m} /\ ring' = Put(ring, <<m>>)
  BY DEF Arrive
<1>2. UNCHANGED <<publisher, spent, reader, last, base>>
  BY DEF Arrive
<1>3. m \in Frames /\ ring \in Seq(Frames) /\ late \subseteq Frames
  BY DEF JoyInv, TypeInv
<1>4. ring' \in Seq(Frames) /\ Entries(ring') \subseteq Entries(ring) \cup {m}
  BY <1>1, <1>3, PutAdds
<1>5. TypeInv'
  BY <1>1, <1>2, <1>3, <1>4 DEF JoyInv, TypeInv
<1>6. Known' \subseteq Known
  BY <1>1, <1>2, <1>4 DEF Known
<1> QED
  BY <1>2, <1>5, <1>6, FewerFrames, ReaderRests DEF ReadersPart, JoyInv

LEMMA RestartFits ==
  ASSUME JoyInv, NEW s \in Sources, Restart(s)
  PROVE  JoyInv'
<1>1. PICK n \in FirstNumbers :
        publisher' = [publisher EXCEPT ![s] = Born(publisher[s].life + 1, n)]
  BY DEF Restart
<1>2. UNCHANGED <<late, ring, reader, last, base>> /\ spent' = [spent EXCEPT !.troubles = @ + 1]
  BY DEF Restart
<1>3. publisher \in [Sources -> Publishers] /\ spent \in [frames : Nat, troubles : Nat]
  BY DEF JoyInv, TypeInv
<1> DEFINE p == Born(publisher[s].life + 1, n)
<1>4. /\ p \in Publishers /\ p.life = publisher[s].life + 1 /\ p.sent = 0
      /\ Stands(p.button, p.presses, p.releases)
  <2>1. publisher[s].life + 1 \in Nat /\ n \in Numbers
    BY <1>3 DEF Publishers, Numbers
  <2> QED
    BY <2>1 DEF Born, Publishers, Stands
<1> HIDE DEF p
<1>5. /\ publisher' \in [Sources -> Publishers] /\ publisher'[s] = p
      /\ \A u \in Sources : u # s => publisher'[u] = publisher[u]
  BY <1>1, <1>3, <1>4 DEF p
<1>6. spent' \in [frames : Nat, troubles : Nat] /\ spent'.frames = spent.frames
  BY <1>2, <1>3
<1>7. TypeInv'
  BY <1>2, <1>5, <1>6 DEF JoyInv, TypeInv
<1>8. PublishersInv'
  BY <1>3, <1>4, <1>5, <1>6 DEF JoyInv, PublishersInv
<1>9. Known' = Known
  BY <1>2 DEF Known
<1>10. ASSUME NEW f \in Known PROVE SentBy(f)'
  <2>1. SentBy(f) /\ f.from \in Sources /\ f.life \in Nat
    BY KnownFields DEF JoyInv, FramesInv
  <2>2. CASE f.from = s
    <3>1. f.life <= publisher[s].life /\ publisher[s].life \in Nat
      BY <1>3, <2>1, <2>2 DEF SentBy, Publishers
    <3>2. f.life < publisher'[f.from].life
      BY <1>4, <1>5, <2>1, <2>2, <3>1
    <3>3. f.life <= publisher'[f.from].life /\ f.life # publisher'[f.from].life
      BY <1>4, <1>5, <2>1, <2>2, <3>1, <3>2
    <3> QED
      BY <2>1, <3>3 DEF SentBy
  <2>3. CASE f.from # s
    BY <1>5, <2>1, <2>3 DEF SentBy
  <2> QED
    BY <2>2, <2>3
<1>11. FramesInv'
  BY <1>9, <1>10 DEF JoyInv, FramesInv
<1>12. LastInv' /\ CountsInv'
  BY <1>2, ReaderRests DEF ReadersPart
<1> QED
  BY <1>7, <1>8, <1>11, <1>12 DEF JoyInv

-----------------------------------------------------------------------------
(* The reader *)

\* What accepting a frame does to the reader, as far as the properties go.
Accepts(r, m, q) ==
  /\ q \in Readers /\ q.button = m.button /\ q.source = m.source
  /\ Identified(m) => /\ q.numbers[m.source] = m.number
                      /\ q.numbers = [r.numbers EXCEPT ![m.source] = m.number]
  /\ q.missingTotal = r.missingTotal + Gap(r, m)
  /\ q.samples = r.samples + 1 /\ q.samplesTotal = r.samplesTotal + 1
  /\ q.incomplete = (r.incomplete \/ Ambiguous(r, m))
  /\ q.pressed = r.pressed + (IF Previous(r, m) = "up" /\ m.button = "down" THEN 1 ELSE 0)
  /\ q.released = r.released + (IF Previous(r, m) = "down" /\ m.button = "up" THEN 1 ELSE 0)

LEMMA GapNat ==
  ASSUME JoyInv, NEW m \in Known
  PROVE  Gap(reader, m) \in Nat
<1>1. CASE ~(Compares(reader, m) /\ ~Duplicate(reader, m) /\ ~WentBack(reader, m))
  BY <1>1 DEF Gap
<1>2. CASE Compares(reader, m) /\ ~Duplicate(reader, m) /\ ~WentBack(reader, m)
  <2>1. m.number \in Numbers /\ m.source \in Sources /\ reader.numbers[m.source] \in Numbers
    <3>1. /\ reader.numbers[m.source] # NoNumber /\ m.source \in Sources
          /\ m.number \in Numbers /\ reader.numbers \in NumberMaps
      BY <1>2, KnownFields, ReaderFields DEF Compares, Identified, JoyInv
    <3> QED
      BY <3>1 DEF NumberMaps
  <2>2. m.number + Modulus - reader.numbers[m.source] \in Nat /\ Modulus \in Nat \ {0}
    BY <2>1 DEF Numbers
  <2>3. Distance(reader, m) \in Nat
    BY <2>2 DEF Distance
  <2>4. Distance(reader, m) # 0
    BY <1>2 DEF Duplicate
  <2> QED
    BY <1>2, <2>3, <2>4 DEF Gap
<1> QED
  BY <1>1, <1>2

\* The fields of a reader, some at a time.
Counted(r, inc, nums, x, y, u, v) ==
  [r EXCEPT !.incomplete = inc, !.numbers = nums, !.missing = x, !.missingTotal = y,
            !.pressed = u, !.released = v]

Renewed(r, b, s, id, x, y) ==
  [r EXCEPT !.button = b, !.source = s, !.available = id, !.samples = x, !.samplesTotal = y]

LEMMA CountsSet ==
  ASSUME NEW r \in Readers, NEW inc \in BOOLEAN, NEW nums \in NumberMaps, NEW x \in Nat,
         NEW y \in Nat, NEW u \in Nat, NEW v \in Nat
  PROVE  LET q == Counted(r, inc, nums, x, y, u, v) IN
         /\ q \in Readers /\ q.numbers = nums /\ q.incomplete = inc
         /\ q.pressed = u /\ q.released = v /\ q.missingTotal = y
  BY DEF Readers, Counted

LEMMA LatestSet ==
  ASSUME NEW r \in Readers, NEW b \in Buttons, NEW s \in Sources \cup {NoSource},
         NEW id \in BOOLEAN, NEW x \in Nat, NEW y \in Nat
  PROVE  LET q == Renewed(r, b, s, id, x, y) IN
         /\ q \in Readers /\ q.button = b /\ q.source = s
         /\ q.samples = x /\ q.samplesTotal = y /\ q.numbers = r.numbers
         /\ q.incomplete = r.incomplete /\ q.pressed = r.pressed /\ q.released = r.released
         /\ q.missingTotal = r.missingTotal
  BY DEF Readers, Renewed

LEMMA AcceptedFits ==
  ASSUME JoyInv, NEW m \in Known, ~Duplicate(reader, m)
  PROVE  Accepts(reader, m, Accepted(reader, m))
<1> DEFINE inc == reader.incomplete \/ Ambiguous(reader, m)
           nums == IF Identified(m) THEN [reader.numbers EXCEPT ![m.source] = m.number]
                   ELSE [s \in Sources |-> NoNumber]
           gap == Gap(reader, m)
           up == IF Previous(reader, m) = "up" /\ m.button = "down" THEN 1 ELSE 0
           down == IF Previous(reader, m) = "down" /\ m.button = "up" THEN 1 ELSE 0
           id == Identified(m)
           q == Accepted(reader, m)
<1>1. gap \in Nat /\ up \in Nat /\ down \in Nat /\ id \in BOOLEAN
  BY GapNat DEF Identified
<1>2. inc \in BOOLEAN
  BY ReaderFields DEF JoyInv, Ambiguous
<1>3. /\ nums \in NumberMaps
      /\ Identified(m) => /\ nums[m.source] = m.number
                          /\ nums = [reader.numbers EXCEPT ![m.source] = m.number]
  <2>1. /\ reader.numbers \in NumberMaps /\ m.number \in Numbers
        /\ m.source \in Sources \cup {NoSource}
    BY KnownFields, ReaderFields DEF JoyInv
  <2> QED
    BY <2>1 DEF Identified, NumberMaps
<1>4. q = [reader EXCEPT !.incomplete = inc, !.numbers = nums, !.missing = @ + gap,
             !.missingTotal = @ + gap, !.pressed = @ + up, !.released = @ + down,
             !.button = m.button, !.source = m.source, !.available = id,
             !.samples = @ + 1, !.samplesTotal = @ + 1]
  BY Zenon DEF Accepted
<1> HIDE DEF inc, nums, gap, up, down, id, q
<1>5. /\ m.button \in Buttons /\ m.source \in Sources \cup {NoSource}
  BY KnownFields DEF JoyInv
<1>6. /\ reader \in Readers /\ reader.pressed \in Nat /\ reader.released \in Nat
      /\ reader.samples \in Nat /\ reader.samplesTotal \in Nat /\ reader.missing \in Nat
      /\ reader.missingTotal \in Nat
  BY ReaderFields DEF JoyInv
<1>7. /\ q \in Readers /\ q.button = m.button /\ q.source = m.source /\ q.numbers = nums
      /\ q.samples = reader.samples + 1 /\ q.samplesTotal = reader.samplesTotal + 1
      /\ q.incomplete = inc /\ q.pressed = reader.pressed + up
      /\ q.released = reader.released + down /\ q.missingTotal = reader.missingTotal + gap
  <2> DEFINE x == reader.missing + gap
             y == reader.missingTotal + gap
             u == reader.pressed + up
             v == reader.released + down
             n == reader.samples + 1
             t == reader.samplesTotal + 1
  <2>1. x \in Nat /\ y \in Nat /\ u \in Nat /\ v \in Nat /\ n \in Nat /\ t \in Nat
    BY <1>1, <1>6
  <2> HIDE DEF x, y, u, v, n, t
  <2>2. PICK r1 : r1 = Counted(reader, inc, nums, x, y, u, v)
    OBVIOUS
  <2>3. /\ r1 \in Readers /\ r1.numbers = nums /\ r1.incomplete = inc
        /\ r1.pressed = u /\ r1.released = v /\ r1.missingTotal = y
    <3>1. reader \in Readers /\ nums \in NumberMaps
      BY <1>3, <1>6
    <3>2. /\ Counted(reader, inc, nums, x, y, u, v) \in Readers
          /\ Counted(reader, inc, nums, x, y, u, v).numbers = nums
          /\ Counted(reader, inc, nums, x, y, u, v).incomplete = inc
          /\ Counted(reader, inc, nums, x, y, u, v).pressed = u
          /\ Counted(reader, inc, nums, x, y, u, v).released = v
          /\ Counted(reader, inc, nums, x, y, u, v).missingTotal = y
      BY <1>2, <2>1, <3>1, CountsSet
    <3> QED
      BY <2>2, <3>2
  <2>4. q = Renewed(r1, m.button, m.source, id, n, t)
    BY <1>4, <2>2 DEF x, y, u, v, n, t, Counted, Renewed
  <2>5. /\ q \in Readers /\ q.button = m.button /\ q.source = m.source
        /\ q.samples = n /\ q.samplesTotal = t /\ q.numbers = r1.numbers
        /\ q.incomplete = r1.incomplete /\ q.pressed = r1.pressed
        /\ q.released = r1.released /\ q.missingTotal = r1.missingTotal
    BY <1>1, <1>5, <2>1, <2>3, <2>4, LatestSet
  <2> QED
    BY <2>3, <2>5 DEF u, v, n, t, y
<1> QED
  BY <1>3, <1>7 DEF Accepts, inc, up, down, q, gap

\* What is between a frame and the next of its life, neither without the button.
LEMMA OneToggle ==
  ASSUME NEW m \in Frames, NEW a \in Frames, After(m, a), m.index = a.index + 1,
         Stands(m.button, m.presses, m.releases), Stands(a.button, a.presses, a.releases),
         m.button # "absent", a.button # "absent"
  PROVE  /\ m.presses = a.presses + (IF a.button = "up" /\ m.button = "down" THEN 1 ELSE 0)
         /\ m.releases = a.releases + (IF a.button = "down" /\ m.button = "up" THEN 1 ELSE 0)
<1>1. /\ m.presses \in Nat /\ m.releases \in Nat /\ a.presses \in Nat /\ a.releases \in Nat
      /\ m.index \in Nat /\ a.index \in Nat
      /\ m.button \in {"up", "down"} /\ a.button \in {"up", "down"}
  BY DEF Frames, Buttons
<1>2. /\ a.presses <= m.presses /\ a.releases <= m.releases
      /\ m.presses + m.releases <= a.presses + a.releases + 1
  BY <1>1 DEF After
<1>3. CASE a.button = "up" /\ m.button = "up"
  BY <1>1, <1>2, <1>3 DEF Stands
<1>4. CASE a.button = "up" /\ m.button = "down"
  BY <1>1, <1>2, <1>4 DEF Stands
<1>5. CASE a.button = "down" /\ m.button = "up"
  BY <1>1, <1>2, <1>5 DEF Stands
<1>6. CASE a.button = "down" /\ m.button = "down"
  BY <1>1, <1>2, <1>6 DEF Stands
<1> QED
  BY <1>1, <1>3, <1>4, <1>5, <1>6

\* A frame accepted without a doubt follows the last one.
LEMMA Undoubted ==
  ASSUME JoyInv, NEW m \in Known, ~Duplicate(reader, m), ~Ambiguous(reader, m)
  PROVE  /\ last # {} /\ Identified(m)
         /\ \A a \in last :
              /\ a.from = m.from /\ Previous(reader, m) = a.button
              /\ (a.button = "absent") = (m.button = "absent")
              /\ a.life = m.life /\ m.button # "absent" =>
                   /\ m.presses = a.presses
                        + (IF Previous(reader, m) = "up" /\ m.button = "down" THEN 1 ELSE 0)
                   /\ m.releases = a.releases
                        + (IF Previous(reader, m) = "down" /\ m.button = "up" THEN 1 ELSE 0)
<1>1. /\ Identified(m) /\ ~(Gap(reader, m) > 0) /\ Previous(reader, m) # "none"
      /\ (Previous(reader, m) = "absent") = (m.button = "absent")
  BY DEF Ambiguous
<1>2. Gap(reader, m) = 0
  BY <1>1, GapNat
<1>3. ~SourceChanged(reader, m) /\ ~WentBack(reader, m) /\ Previous(reader, m) = reader.button
  BY <1>1 DEF Previous
<1>4. last # {}
  BY <1>1, <1>3 DEF JoyInv, LastInv
<1>5. ASSUME NEW a \in last
      PROVE  /\ a.from = m.from /\ Previous(reader, m) = a.button
             /\ (a.button = "absent") = (m.button = "absent")
  <2>1. reader.button = a.button
    BY DEF JoyInv, LastInv
  <2> QED
    BY <1>1, <1>3, <2>1, Neighbours
<1>6. ASSUME NEW a \in last, a.life = m.life, m.button # "absent"
      PROVE  /\ m.presses = a.presses
                        + (IF a.button = "up" /\ m.button = "down" THEN 1 ELSE 0)
             /\ m.releases = a.releases
                        + (IF a.button = "down" /\ m.button = "up" THEN 1 ELSE 0)
  <2>1. After(m, a) /\ m.index = a.index + 1
    BY <1>1, <1>2, <1>3, <1>6, ComesAfter
  <2>2. a \in Known
    BY DEF Known
  <2>3. /\ m \in Frames /\ a \in Frames
        /\ Stands(m.button, m.presses, m.releases) /\ Stands(a.button, a.presses, a.releases)
    BY <2>2, KnownFields DEF JoyInv, FramesInv, SentBy
  <2>4. a.button # "absent"
    BY <1>5, <1>6
  <2> QED
    BY <1>6, <2>1, <2>3, <2>4, OneToggle
<1> QED
  BY <1>1, <1>4, <1>5, <1>6

LEMMA AcceptFits ==
  ASSUME JoyInv, NEW m \in Known, ~Duplicate(reader, m), Accepts(reader, m, reader'),
         last' = {m}, base' = [base EXCEPT !.lives = @ \cup {m.life}]
  PROVE  LastInv' /\ CountsInv'
<1>1. /\ base'.last = base.last /\ base'.lives = base.lives \cup {m.life}
  BY DEF JoyInv, TypeInv
<1>2. LastInv'
  <2>1. reader'.samplesTotal # 0
    BY ReaderFields DEF Accepts, JoyInv
  <2> QED
    BY <2>1 DEF Accepts, LastInv, Identified
<1>3. CountsInv'
  <2>1. SUFFICES ASSUME ~reader'.incomplete PROVE CountsInv'
    BY DEF CountsInv
  <2>2. ~reader.incomplete /\ ~Ambiguous(reader, m)
    BY <2>1 DEF Accepts
  <2>3. reader'.samples > 0 /\ reader'.samples # 0 /\ reader.samples \in Nat
    BY ReaderFields DEF Accepts, JoyInv
  <2>4. PICK b \in last : last = {b}
    BY <2>2, Undoubted DEF JoyInv, LastInv
  <2> DEFINE up == IF Previous(reader, m) = "up" /\ m.button = "down" THEN 1 ELSE 0
             down == IF Previous(reader, m) = "down" /\ m.button = "up" THEN 1 ELSE 0
  <2>5. /\ Identified(m) /\ b.from = m.from
        /\ (b.button = "absent") = (m.button = "absent")
        /\ b.life = m.life /\ m.button # "absent" =>
             m.presses = b.presses + up /\ m.releases = b.releases + down
    BY <2>2, Undoubted
  <2>6. reader'.pressed = reader.pressed + up /\ reader'.released = reader.released + down
    BY DEF Accepts
  <2>7. up \in Nat /\ down \in Nat /\ reader.pressed \in Nat /\ reader.released \in Nat
    BY ReaderFields DEF JoyInv
  <2> HIDE DEF up, down
  <2>8. /\ base.last # {}
        /\ \A a \in base.last :
             /\ a.from = b.from
             /\ (a.button = "absent") = (b.button = "absent")
             /\ base.lives \cup {m.life} \subseteq {a.life} /\ b.button # "absent" =>
                  /\ b.life = m.life
                  /\ b.presses = a.presses + reader.pressed
                  /\ b.releases = a.releases + reader.released
    <3>1. CASE reader.samples = 0
      <4>1. base.last = {b} /\ reader.pressed = 0 /\ reader.released = 0
        BY <2>2, <2>4, <3>1 DEF JoyInv, CountsInv
      <4>2. b \in Frames
        BY DEF JoyInv, TypeInv
      <4>3. b.presses \in Nat /\ b.releases \in Nat
        BY <4>2 DEF Frames
      <4> QED
        BY <4>1, <4>3
    <3>2. CASE reader.samples > 0
      BY <2>2, <3>2 DEF JoyInv, CountsInv
    <3> QED
      BY <2>3, <3>1, <3>2
  <2>9. /\ b.presses \in Nat /\ b.releases \in Nat
        /\ \A a \in base.last : a.presses \in Nat /\ a.releases \in Nat
    BY DEF JoyInv, TypeInv, Frames
  <2>10. ASSUME NEW a \in base.last
         PROVE  /\ a.from = m.from /\ m.source # NoSource /\ m.life \in base'.lives
                /\ (a.button = "absent") = (m.button = "absent")
                /\ base'.lives \subseteq {a.life} /\ m.button # "absent" =>
                     /\ m.presses = a.presses + reader'.pressed
                     /\ m.releases = a.releases + reader'.released
    <3>1. /\ a.from = m.from /\ m.source # NoSource /\ m.life \in base'.lives
          /\ (a.button = "absent") = (m.button = "absent")
      BY <1>1, <2>5, <2>8 DEF Identified
    <3>2. ASSUME base'.lives \subseteq {a.life}, m.button # "absent"
          PROVE  /\ m.presses = a.presses + reader'.pressed
                 /\ m.releases = a.releases + reader'.released
      <4>1. /\ b.life = m.life /\ b.presses = a.presses + reader.pressed
            /\ b.releases = a.releases + reader.released
        BY <1>1, <2>5, <2>8, <3>2
      <4> QED
        BY <2>5, <2>6, <2>7, <2>9, <3>2, <4>1
    <3> QED
      BY <3>1, <3>2
  <2> QED
    BY <1>1, <2>3, <2>8, <2>10 DEF CountsInv
<1> QED
  BY <1>2, <1>3

LEMMA ReceiveFits ==
  ASSUME JoyInv, Receive
  PROVE  JoyInv'
<1>1. ring \in Seq(Frames) /\ ring # <<>> /\ ring' = Tail(ring)
  BY DEF JoyInv, TypeInv, Receive
<1>2. PICK m : m = Head(ring)
  OBVIOUS
<1>3. UNCHANGED <<publisher, spent, late>>
  BY DEF Receive
<1>4. m \in Known /\ ring' \in Seq(Frames) /\ Entries(ring') \subseteq Entries(ring)
  BY <1>1, <1>2, TailTakes DEF Known
<1>5. CASE m.good /\ ~Duplicate(reader, m)
  <2>1. /\ reader' = Accepted(reader, m) /\ last' = {m}
        /\ base' = [base EXCEPT !.lives = @ \cup {m.life}]
    BY <1>2, <1>5 DEF Receive
  <2>2. Accepts(reader, m, reader')
    BY <1>4, <1>5, <2>1, AcceptedFits
  <2>3. LastInv' /\ CountsInv'
    BY <1>4, <1>5, <2>1, <2>2, AcceptFits
  <2>4. /\ base \in [last : SUBSET Frames, lives : SUBSET Nat]
        /\ m \in Frames /\ m.life \in Nat
    BY <1>4, KnownFields DEF JoyInv, TypeInv
  <2>5. base' \in [last : SUBSET Frames, lives : SUBSET Nat] /\ base'.last = base.last
    BY <2>1, <2>4
  <2>6. TypeInv'
    BY <1>3, <1>4, <2>1, <2>2, <2>4, <2>5 DEF JoyInv, TypeInv, Accepts
  <2>7. Known' \subseteq Known
    BY <1>3, <1>4, <2>1, <2>5 DEF Known
  <2> QED
    BY <1>3, <2>3, <2>6, <2>7, FewerFrames DEF JoyInv
<1>6. CASE ~(m.good /\ ~Duplicate(reader, m))
  <2>1. reader' = [reader EXCEPT !.incomplete = TRUE] /\ UNCHANGED <<last, base>>
    BY <1>2, <1>6 DEF Receive, Accepted
  <2>2. reader \in Readers
    BY DEF JoyInv, TypeInv
  <2>3. /\ reader' \in Readers /\ reader'.incomplete
        /\ reader'.samplesTotal = reader.samplesTotal
        /\ reader'.button = reader.button /\ reader'.source = reader.source
        /\ reader'.numbers = reader.numbers
    BY <2>1, <2>2 DEF Readers
  <2>4. LastInv' /\ CountsInv'
    BY <2>1, <2>3 DEF JoyInv, LastInv, CountsInv
  <2>5. TypeInv'
    BY <1>3, <1>4, <2>1, <2>3 DEF JoyInv, TypeInv
  <2>6. Known' \subseteq Known
    BY <1>3, <1>4, <2>1 DEF Known
  <2> QED
    BY <1>3, <2>4, <2>5, <2>6, FewerFrames DEF JoyInv
<1> QED
  BY <1>5, <1>6

LEMMA FinishFits ==
  ASSUME JoyInv, FinishRead
  PROVE  JoyInv'
<1>1. PICK c : c = Complete(reader)
  OBVIOUS
<1>2. /\ reader' = Emptied([reader EXCEPT !.complete = c])
      /\ base' = [last |-> last, lives |-> {}]
      /\ UNCHANGED <<publisher, spent, late, ring, last>>
  BY <1>1 DEF FinishRead
<1>3. reader \in Readers /\ last \subseteq Frames
  BY DEF JoyInv, TypeInv
<1>4. c \in BOOLEAN
  BY <1>1, <1>3 DEF Complete, Readers
<1>5. /\ reader' \in Readers /\ reader'.samplesTotal = reader.samplesTotal
      /\ reader'.button = reader.button /\ reader'.source = reader.source
      /\ reader'.numbers = reader.numbers /\ reader'.samples = 0
      /\ reader'.pressed = 0 /\ reader'.released = 0
  <2>1. PICK r : r = [reader EXCEPT !.complete = c]
    OBVIOUS
  <2>2. /\ r \in Readers /\ r.samplesTotal = reader.samplesTotal
        /\ r.button = reader.button /\ r.source = reader.source
        /\ r.numbers = reader.numbers
    BY <1>3, <1>4, <2>1 DEF Readers
  <2>3. reader' = Emptied(r)
    BY <1>2, <2>1
  <2>4. /\ reader' \in Readers /\ reader'.samplesTotal = r.samplesTotal
        /\ reader'.button = r.button /\ reader'.source = r.source
        /\ reader'.numbers = r.numbers /\ reader'.samples = 0
        /\ reader'.pressed = 0 /\ reader'.released = 0
    BY <2>2, <2>3 DEF Emptied, Readers
  <2> QED
    BY <2>2, <2>4
<1>6. base' \in [last : SUBSET Frames, lives : SUBSET Nat] /\ base'.last = last
  BY <1>2, <1>3
<1>7. TypeInv'
  BY <1>2, <1>5, <1>6 DEF JoyInv, TypeInv
<1>8. LastInv' /\ CountsInv'
  BY <1>2, <1>5, <1>6 DEF JoyInv, LastInv, CountsInv
<1>9. Known' \subseteq Known
  BY <1>2, <1>6 DEF Known
<1> QED
  BY <1>2, <1>7, <1>8, <1>9, FewerFrames DEF JoyInv

JoyVars == <<publisher, spent, late, ring, reader, last, base>>

LEMMA JoyRests ==
  ASSUME JoyInv, UNCHANGED JoyVars
  PROVE  JoyInv'
  BY DEF JoyVars, JoyInv, TypeInv, PublishersInv, FramesInv, SentBy, Known, LastInv, CountsInv

LEMMA JoyStarts ==
  ASSUME Init
  PROVE  JoyInv
<1>1. /\ publisher \in [Sources -> {Born(1, n) : n \in FirstNumbers}]
      /\ spent = [frames |-> 0, troubles |-> 0] /\ late = {} /\ ring = <<>>
      /\ reader = Opened /\ last = {} /\ base = [last |-> {}, lives |-> {}]
  BY DEF Init
<1>2. \A s \in Sources : \E n \in FirstNumbers : publisher[s] = Born(1, n)
  BY <1>1
<1>3. \A n \in FirstNumbers : /\ Born(1, n) \in Publishers /\ Born(1, n).sent = 0
                              /\ Born(1, n).button = "up" /\ Born(1, n).presses = 0
                              /\ Born(1, n).releases = 0
  BY DEF Born, Publishers, Numbers
<1>4. reader \in Readers /\ reader.samplesTotal = 0 /\ reader.button = "none"
      /\ reader.samples = 0 /\ reader.pressed = 0 /\ reader.released = 0
  BY <1>1 DEF Opened, Readers, NumberMaps, Buttons
<1>5. /\ spent \in [frames : Nat, troubles : Nat] /\ spent.frames = 0
      /\ base \in [last : SUBSET Frames, lives : SUBSET Nat] /\ base.last = {}
  BY <1>1
<1>6. ring \in Seq(Frames) /\ Entries(ring) = {}
  BY <1>1 DEF Entries
<1>7. publisher \in [Sources -> Publishers]
  BY <1>1, <1>3
<1>8. TypeInv
  BY <1>1, <1>4, <1>5, <1>6, <1>7 DEF TypeInv
<1>9. PublishersInv
  BY <1>2, <1>3, <1>5 DEF PublishersInv, Stands
<1>10. FramesInv
  BY <1>1, <1>5, <1>6 DEF FramesInv, Known
<1>11. LastInv /\ CountsInv
  BY <1>1, <1>4, <1>5 DEF LastInv, CountsInv
<1> QED
  BY <1>8, <1>9, <1>10, <1>11 DEF JoyInv

LEMMA JoyStep ==
  ASSUME JoyInv, [Next]_vars
  PROVE  JoyInv'
<1>1. CASE UNCHANGED vars
  BY <1>1, JoyRests DEF vars, JoyVars
<1>2. ASSUME NEW s \in Sources, Publish(s) PROVE JoyInv'
  <2>1. ReadersPart
    BY <1>2 DEF Publish, ReadersPart
  <2> QED
    BY <1>2, <2>1, PublishFits, ReaderRests DEF JoyInv
<1>3. ASSUME NEW s \in Sources, Restart(s) PROVE JoyInv'
  BY <1>3, RestartFits
<1>4. CASE Arrive
  BY <1>4, ArriveFits
<1>5. CASE StartRead
  BY <1>5, JoyRests DEF StartRead, JoyVars
<1>6. CASE Receive
  BY <1>6, ReceiveFits
<1>7. CASE FinishRead
  BY <1>7, FinishFits
<1>8. CASE FailRead
  BY <1>8, JoyRests DEF FailRead, JoyVars
<1>9. CASE Close
  BY <1>9, JoyRests DEF Close, JoyVars
<1> QED
  BY <1>1, <1>2, <1>3, <1>4, <1>5, <1>6, <1>7, <1>8, <1>9 DEF Next

\* The frames that are anywhere are frames their publishers sent, and the reader's
\* counts are those of the frames it accepted since the last snapshot (joy.py).
THEOREM AlwaysJoy == Spec => []JoyInv
<1>1. Init => JoyInv
  BY JoyStarts
<1>2. JoyInv /\ [Next]_vars => JoyInv'
  BY JoyStep
<1> QED
  BY <1>1, <1>2, PTL DEF Spec

-----------------------------------------------------------------------------
(* The properties *)

\* A press or release that is counted was made between the two frames compared.
LEMMA EdgeMade ==
  ASSUME JoyInv, NEW m \in Known, NEW a \in last, Identified(m), ~Duplicate(reader, m),
         Previous(reader, m) \in {"up", "down"}, m.button \in {"up", "down"},
         m.button # Previous(reader, m)
  PROVE  /\ a.from = m.from
         /\ a.life = m.life =>
              /\ m.button = "down" => m.presses > a.presses
              /\ m.button = "up" => m.releases > a.releases
<1>1. ~SourceChanged(reader, m) /\ ~WentBack(reader, m) /\ Previous(reader, m) = reader.button
  BY DEF Previous
<1>2. reader.button = a.button
  BY DEF JoyInv, LastInv
<1>3. a.from = m.from
  BY <1>1, Neighbours
<1>4. ASSUME a.life = m.life
      PROVE  /\ m.button = "down" => m.presses > a.presses
             /\ m.button = "up" => m.releases > a.releases
  <2>1. After(m, a)
    BY <1>1, <1>4, ComesAfter
  <2>2. a \in Known
    BY DEF Known
  <2>3. /\ Stands(m.button, m.presses, m.releases) /\ Stands(a.button, a.presses, a.releases)
        /\ m.presses \in Nat /\ m.releases \in Nat /\ a.presses \in Nat /\ a.releases \in Nat
    BY <2>2, KnownFields DEF JoyInv, FramesInv, SentBy
  <2>4. CASE a.button = "up" /\ m.button = "down"
    BY <2>1, <2>3, <2>4 DEF Stands, After
  <2>5. CASE a.button = "down" /\ m.button = "up"
    BY <2>1, <2>3, <2>5 DEF Stands, After
  <2> QED
    BY <1>1, <1>2, <2>4, <2>5
<1> QED
  BY <1>3, <1>4

\* Edges are counted when a frame is accepted, and at no other step.
LEMMA EdgeCounted ==
  ASSUME JoyInv, [Next]_vars, NEW a \in last, NEW b \in last',
         reader'.pressed > reader.pressed \/ reader'.released > reader.released
  PROVE  /\ b \in Known /\ ~Duplicate(reader, b)
         /\ Previous(reader, b) \in {"up", "down"} /\ b.button \in {"up", "down"}
         /\ b.button # Previous(reader, b)
         /\ reader'.pressed > reader.pressed => b.button = "down"
         /\ reader'.released > reader.released => b.button = "up"
<1>1. reader \in Readers /\ reader.pressed \in Nat /\ reader.released \in Nat
  BY ReaderFields DEF JoyInv
<1>2. ~ (UNCHANGED reader)
  BY <1>1
<1>3. Receive \/ FinishRead
  <2>1. ASSUME NEW s \in Sources, Publish(s) \/ Restart(s) PROVE UNCHANGED reader
    <3>1. CASE Publish(s)
      <4>1. ReadersPart
        BY <3>1 DEF Publish, ReadersPart
      <4> QED
        BY <4>1 DEF ReadersPart
    <3>2. CASE Restart(s)
      BY <3>2, Zenon DEF Restart
    <3> QED
      BY <2>1, <3>1, <3>2
  <2>2. Arrive \/ StartRead \/ FailRead \/ Close \/ UNCHANGED vars => UNCHANGED reader
    BY DEF Arrive, StartRead, FailRead, Close, vars
  <2> QED
    BY <1>2, <2>1, <2>2 DEF Next
<1>4. CASE FinishRead
  <2>1. reader'.pressed = 0 /\ reader'.released = 0
    <3>1. PICK c : c = Complete(reader)
      OBVIOUS
    <3>2. PICK r : r = [reader EXCEPT !.complete = c]
      OBVIOUS
    <3>3. reader' = Emptied(r)
      BY <1>4, <3>1, <3>2 DEF FinishRead
    <3>4. /\ "pressed" \in DOMAIN r /\ "released" \in DOMAIN r
      BY <1>1, <3>2 DEF Readers
    <3> QED
      BY <3>3, <3>4 DEF Emptied
  <2> QED
    BY <1>1, <2>1
<1>5. CASE Receive
  <2>1. PICK m : m = Head(ring)
    OBVIOUS
  <2>2. ring \in Seq(Frames) /\ ring # <<>>
    BY <1>5 DEF JoyInv, TypeInv, Receive
  <2>3. m \in Known
    BY <2>1, <2>2, TailTakes DEF Known
  <2>4. m.good /\ ~Duplicate(reader, m)
    <3>1. SUFFICES ASSUME ~ (m.good /\ ~Duplicate(reader, m)) PROVE FALSE
      OBVIOUS
    <3>2. reader' = [reader EXCEPT !.incomplete = TRUE]
      BY <1>5, <2>1, <3>1 DEF Receive, Accepted
    <3>3. reader'.pressed = reader.pressed /\ reader'.released = reader.released
      BY <1>1, <3>2 DEF Readers
    <3> QED
      BY <1>1, <3>3
  <2>5. reader' = Accepted(reader, m) /\ last' = {m}
    BY <1>5, <2>1, <2>4 DEF Receive
  <2>6. Accepts(reader, m, reader')
    BY <2>3, <2>4, <2>5, AcceptedFits
  <2>7. b = m
    BY <2>5
  <2>8. /\ reader'.pressed > reader.pressed => Previous(reader, m) = "up" /\ m.button = "down"
        /\ reader'.released > reader.released => Previous(reader, m) = "down" /\ m.button = "up"
    BY <1>1, <2>6 DEF Accepts
  <2> QED
    BY <2>3, <2>4, <2>7, <2>8
<1> QED
  BY <1>3, <1>4, <1>5

\* Every edge the reader counts (_accept, joy.py) is one its publisher made between the
\* two frames compared, however frames were lost, doubled or overtaken.
THEOREM EdgesCounted == Spec => EdgesAreReal
<1>1. JoyInv /\ [Next]_vars =>
        [\A a \in last, b \in last' :
           b.source # NoSource =>
             /\ reader'.pressed > reader.pressed =>
                  a.from = b.from /\ (a.life = b.life => b.presses > a.presses)
             /\ reader'.released > reader.released =>
                  a.from = b.from /\ (a.life = b.life => b.releases > a.releases)]_vars
  <2> SUFFICES ASSUME JoyInv, [Next]_vars, NEW a \in last, NEW b \in last',
                      b.source # NoSource
               PROVE  /\ reader'.pressed > reader.pressed =>
                           a.from = b.from /\ (a.life = b.life => b.presses > a.presses)
                      /\ reader'.released > reader.released =>
                           a.from = b.from /\ (a.life = b.life => b.releases > a.releases)
    OBVIOUS
  <2>1. Identified(b)
    BY DEF Identified
  <2> QED
    BY <2>1, EdgeCounted, EdgeMade
<1> QED
  BY <1>1, AlwaysJoy, PTL DEF Spec, EdgesAreReal

\* A snapshot that calls its history complete (event_history_complete, joy.py) counts
\* exactly what the publisher did between the two last frames.
THEOREM CompleteBelieved == Spec => CompleteIsTrue
<1>1. JoyInv /\ [Next]_vars =>
        [FinishRead /\ Complete(reader) /\ reader.samples > 0 =>
           /\ base.last # {}
           /\ \A a \in base.last, b \in last :
                /\ a.from = b.from
                /\ base.lives \subseteq {a.life} /\ b.button # "absent" =>
                     /\ reader.pressed = b.presses - a.presses
                     /\ reader.released = b.releases - a.releases]_vars
  <2> SUFFICES ASSUME JoyInv, ~reader.incomplete, reader.samples > 0
               PROVE  /\ base.last # {}
                      /\ \A a \in base.last, b \in last :
                           /\ a.from = b.from
                           /\ base.lives \subseteq {a.life} /\ b.button # "absent" =>
                                /\ reader.pressed = b.presses - a.presses
                                /\ reader.released = b.releases - a.releases
    BY DEF Complete
  <2>1. reader.pressed \in Nat /\ reader.released \in Nat
    BY ReaderFields DEF JoyInv
  <2>2. \A f \in Known : f.presses \in Nat /\ f.releases \in Nat
    BY KnownFields DEF JoyInv
  <2>3. base.last \subseteq Known /\ last \subseteq Known
    BY DEF Known
  <2>4. /\ base.last # {}
        /\ \A a \in base.last, b \in last :
              /\ a.from = b.from
              /\ base.lives \subseteq {a.life} /\ b.button # "absent" =>
                   /\ b.presses = a.presses + reader.pressed
                   /\ b.releases = a.releases + reader.released
    BY DEF JoyInv, CountsInv
  <2> QED
    BY <2>1, <2>2, <2>3, <2>4
<1> QED
  BY <1>1, AlwaysJoy, PTL DEF Spec, CompleteIsTrue

-----------------------------------------------------------------------------
(* An orderly stream *)

\* While the stream is orderly the ring holds the frames of each publisher's one life, in
\* the order they were sent.
OrderInv ==
  orderly =>
    /\ late = {}
    /\ \A f \in Entries(ring) : f.source = f.from /\ f.life = publisher[f.from].life
    /\ \A i, j \in 1 .. Len(ring) :
         i < j /\ ring[i].from = ring[j].from => ring[i].index <= ring[j].index

\* The top-th frame of s is the last one the reader accepted of it.
Newest(s, top) ==
  /\ \A i \in seen[s] : i <= top
  /\ top <= publisher[s].sent /\ reader.numbers[s] \in Numbers
  /\ Spaced(publisher[s].number, publisher[s].sent + 1, reader.numbers[s], top)
  /\ \A f \in Entries(ring) : f.from = s => top <= f.index

SeenInv ==
  orderly =>
    /\ seen \in [Sources -> SUBSET (1 .. MaxFrames)]
    /\ \A s \in Sources : /\ seen[s] = {} => reader.numbers[s] = NoNumber
                          /\ seen[s] # {} => \E top \in seen[s] : Newest(s, top)

MissedInv == orderly => IsFiniteSet(Missed) /\ reader.missingTotal = Cardinality(Missed)

OrderlyInv == OrderInv /\ SeenInv /\ MissedInv

\* Putting keeps the later part of what was there and what was added.
LEMMA PutSuffix ==
  ASSUME NEW q \in Seq(Frames), NEW a \in Seq(Frames)
  PROVE  \E k \in Nat : /\ Len(Put(q, a)) + k = Len(q) + Len(a)
                        /\ \A i \in 1 .. Len(Put(q, a)) : Put(q, a)[i] = (q \o a)[i + k]
<1>1. PICK all : all = q \o a
  OBVIOUS
<1>2. all \in Seq(Frames) /\ Len(all) \in Nat /\ Len(all) = Len(q) + Len(a)
  BY <1>1, ConcatProperties, LenProperties
<1>3. PICK r : r = Put(q, a)
  OBVIOUS
<1>4. CASE Len(all) - Depth > 0
  <2>1. PICK k \in Nat : k = Len(all) - Depth
    <3>1. Depth \in Nat
      OBVIOUS
    <3>2. Len(all) - Depth \in Nat
      BY <1>2, <1>4, <3>1
    <3> QED
      BY <3>2
  <2>2. k + 1 \in 1 .. Len(all) + 1 /\ Len(all) \in k .. Len(all)
    BY <1>2, <2>1
  <2>3. r = SubSeq(all, k + 1, Len(all))
    BY <1>1, <1>3, <1>4, <2>1 DEF Put
  <2>4. /\ Len(r) = Len(all) - k
        /\ \A i \in 1 .. Len(all) - k : r[i] = all[k + 1 + i - 1]
    BY <1>2, <2>2, <2>3, SubSeqProperties
  <2>5. ASSUME NEW i \in 1 .. Len(r) PROVE r[i] = all[i + k]
    <3>1. i \in 1 .. Len(all) - k /\ k + 1 + i - 1 = i + k
      BY <1>2, <2>4
    <3> QED
      BY <2>4, <3>1
  <2>6. Len(r) + k = Len(q) + Len(a)
    BY <1>2, <2>4
  <2> QED
    BY <1>1, <1>3, <2>5, <2>6
<1>5. CASE ~(Len(all) - Depth > 0)
  <2>1. r = all
    BY <1>1, <1>3, <1>5 DEF Put
  <2>2. ASSUME NEW i \in 1 .. Len(r) PROVE r[i] = all[i + 0]
    BY <2>1
  <2>3. Len(r) + 0 = Len(q) + Len(a)
    BY <1>2, <2>1
  <2> QED
    BY <1>1, <1>3, <2>2, <2>3
<1> QED
  BY <1>4, <1>5

\* Two frames of the ring were in it before in that order, or the later one is new.
LEMMA PutInOrder ==
  ASSUME NEW q \in Seq(Frames), NEW m \in Frames,
         NEW r, r \in {q, Put(q, <<m>>), Put(q, <<m, m>>)},
         NEW i \in 1 .. Len(r), NEW j \in 1 .. Len(r), i < j
  PROVE  \/ r[j] = m
         \/ \E u, v \in 1 .. Len(q) : u < v /\ r[i] = q[u] /\ r[j] = q[v]
<1>1. CASE r = q
  BY <1>1
<1>2. ASSUME NEW a \in {<<m>>, <<m, m>>}, r = Put(q, a)
      PROVE  r[j] = m \/ \E u, v \in 1 .. Len(q) : u < v /\ r[i] = q[u] /\ r[j] = q[v]
  <2>1. a \in Seq(Frames) /\ Len(a) \in Nat /\ (\A n \in 1 .. Len(a) : a[n] = m)
    <3>1. CASE a = <<m>>
      BY <3>1
    <3>2. CASE a = <<m, m>>
      BY <3>2
    <3> QED
      BY <1>2, <3>1, <3>2
  <2>2. PICK k \in Nat : /\ Len(r) + k = Len(q) + Len(a)
                         /\ \A n \in 1 .. Len(r) : r[n] = (q \o a)[n + k]
    <3>1. \E k \in Nat : /\ Len(Put(q, a)) + k = Len(q) + Len(a)
                         /\ \A n \in 1 .. Len(Put(q, a)) : Put(q, a)[n] = (q \o a)[n + k]
      <4>1. q \in Seq(Frames) /\ a \in Seq(Frames)
        BY <2>1
      <4> QED
        BY <4>1, PutSuffix, Zenon
    <3> QED
      BY <1>2, <3>1, Zenon
  <2>3. Len(q) \in Nat /\ Len(r) \in Nat
    <3>1. r \in Seq(Frames)
      BY <1>2, <2>1, PutKeeps
    <3> QED
      BY <3>1, LenProperties
  <2>4. \A n \in 1 .. Len(q) + Len(a) :
          (q \o a)[n] = IF n <= Len(q) THEN q[n] ELSE a[n - Len(q)]
    BY <2>1, ConcatProperties
  <2>5. /\ r[i] = (q \o a)[i + k] /\ r[j] = (q \o a)[j + k]
        /\ i + k \in 1 .. Len(q) + Len(a) /\ j + k \in 1 .. Len(q) + Len(a)
    BY <2>1, <2>2, <2>3
  <2>6. CASE j + k <= Len(q)
    <3>1. i + k \in 1 .. Len(q) /\ j + k \in 1 .. Len(q) /\ i + k < j + k
      BY <2>2, <2>3, <2>6
    <3>2. r[i] = q[i + k] /\ r[j] = q[j + k]
      BY <2>4, <2>5, <3>1
    <3> QED
      BY <3>1, <3>2
  <2>7. CASE j + k > Len(q)
    <3>1. j + k - Len(q) \in 1 .. Len(a)
      BY <2>1, <2>3, <2>5, <2>7
    <3>2. r[j] = a[j + k - Len(q)]
      BY <2>3, <2>4, <2>5, <2>7
    <3> QED
      BY <2>1, <3>1, <3>2
  <2> QED
    BY <2>3, <2>6, <2>7
<1> QED
  BY <1>1, <1>2

LEMMA TailInOrder ==
  ASSUME NEW q \in Seq(Frames), q # <<>>
  PROVE  /\ \A i \in 1 .. Len(Tail(q)) : i + 1 \in 1 .. Len(q) /\ Tail(q)[i] = q[i + 1]
         /\ Head(q) = q[1] /\ 1 \in 1 .. Len(q) /\ Len(q) \in Nat
<1>1. /\ Tail(q) \in Seq(Frames) /\ Len(Tail(q)) = Len(q) - 1
      /\ \A i \in 1 .. Len(Tail(q)) : Tail(q)[i] = q[i + 1]
  BY HeadTailProperties
<1>2. Len(q) \in Nat /\ Len(q) # 0
  BY EmptySeq, LenProperties
<1>3. Head(q) = q[1]
  OBVIOUS
<1> QED
  BY <1>1, <1>2, <1>3

\* What a step adds to the ring of an orderly stream, whatever becomes of the frame.
LEMMA OrderlyPublish ==
  ASSUME JoyInv, NEW s \in Sources, Publish(s), orderly'
  PROVE  /\ orderly /\ late' = late /\ UNCHANGED <<reader, seen>>
         /\ publisher'[s].life = publisher[s].life /\ publisher'[s].sent = publisher[s].sent + 1
         /\ publisher'[s].number = (publisher[s].number + 1) % Modulus
         /\ publisher[s].sent \in Nat /\ publisher[s].number \in Numbers
         /\ publisher[s].sent + 1 <= MaxFrames
         /\ \A u \in Sources : u # s => publisher'[u] = publisher[u]
         /\ \E m \in Frames : /\ m.source = s /\ m.from = s /\ m.life = publisher[s].life
                              /\ m.index = publisher[s].sent + 1
                              /\ ring' \in {ring, Put(ring, <<m>>), Put(ring, <<m, m>>)}
<1> DEFINE o == publisher[s]
<1>1. PICK q \in {publisher[s], Toggled(publisher[s])}, fate \in Fates, named \in BOOLEAN,
           shown \in BOOLEAN :
        Sends(s, q, fate, named, shown,
              Frame(s, [q EXCEPT !.sent = @ + 1], named, shown, fate # "malformed"))
  BY Zenon DEF Publish, Sends
<1> DEFINE p == [q EXCEPT !.sent = @ + 1]
           m == Frame(s, p, named, shown, fate # "malformed")
<1>2. Sends(s, q, fate, named, shown, m)
  BY <1>1
<1>3. orderly /\ named = TRUE /\ late' = late /\ UNCHANGED <<reader, seen>>
  BY <1>2, Zenon DEF Sends
<1>4. /\ o \in Publishers /\ o.sent <= spent.frames /\ spent.frames \in Nat
      /\ Stands(o.button, o.presses, o.releases) /\ publisher \in [Sources -> Publishers]
  BY DEF JoyInv, TypeInv, PublishersInv
<1>5. q \in Publishers /\ q.life = o.life /\ q.number = o.number /\ q.sent = o.sent
  <2>1. q \in {o, Toggled(o)}
    BY <1>1
  <2> HIDE DEF o
  <2> QED
    BY <1>4, <2>1, Toggles
<1>6. p.number = q.number /\ p.life = q.life /\ p.sent = q.sent + 1 /\ p.button = q.button
      /\ p.presses = q.presses /\ p.releases = q.releases
  BY <1>5 DEF Publishers
<1>7. /\ m \in Frames /\ m.source = s /\ m.from = s /\ m.life = o.life
      /\ m.index = o.sent + 1
  <2> DEFINE b == IF shown THEN p.button ELSE "absent"
             g == fate # "malformed"
  <2>1. /\ q.number \in Numbers /\ q.life \in Nat /\ q.sent \in Nat /\ q.presses \in Nat
        /\ q.releases \in Nat /\ q.button \in {"up", "down"}
    BY <1>5 DEF Publishers
  <2>2. b \in Buttons /\ g \in BOOLEAN
    BY <1>6, <2>1 DEF Buttons
  <2>3. m = [source |-> s, number |-> p.number, button |-> b, good |-> g, from |-> s,
             life |-> p.life, index |-> p.sent, presses |-> p.presses,
             releases |-> p.releases]
    BY <1>3, Zenon DEF Frame
  <2> HIDE DEF b, g, m, p, o
  <2> QED
    BY <1>5, <1>6, <2>1, <2>2, <2>3 DEF Frames
<1>8. /\ publisher'[s].life = q.life /\ publisher'[s].sent = q.sent + 1
      /\ publisher'[s].number = (q.number + 1) % Modulus
      /\ \A u \in Sources : u # s => publisher'[u] = publisher[u]
  <2> DEFINE n == (q.number + 1) % Modulus
             w == [q EXCEPT !.sent = @ + 1, !.number = n]
  <2>1. publisher' = [publisher EXCEPT ![s] = w]
    BY <1>2, Zenon DEF Sends
  <2> HIDE DEF n
  <2>2. w.life = q.life /\ w.sent = q.sent + 1 /\ w.number = n
    BY <1>5 DEF Publishers
  <2> HIDE DEF w
  <2> QED
    BY <1>4, <2>1, <2>2 DEF n
<1>9. ring' \in {ring, Put(ring, <<m>>), Put(ring, <<m, m>>)}
  <2>1. ring' = CASE fate \in {"kept", "malformed"} -> Put(ring, <<m>>)
                  [] fate = "twice" -> Put(ring, <<m, m>>)
                  [] OTHER -> ring
    BY <1>2 DEF Sends
  <2> HIDE DEF m
  <2>2. CASE fate \in {"kept", "malformed"}
    BY <2>1, <2>2
  <2>3. CASE fate = "twice"
    BY <2>1, <2>3
  <2>4. CASE fate \notin {"kept", "malformed", "twice"}
    BY <2>1, <2>4
  <2> QED
    BY <2>2, <2>3, <2>4
<1>10. o.sent + 1 <= MaxFrames
  <2>1. spent.frames + 1 <= MaxFrames
    BY <1>2 DEF Sends, Affordable
  <2> QED
    BY <1>4, <2>1 DEF Publishers
<1>11. o.sent \in Nat /\ o.number \in Numbers
  BY <1>4 DEF Publishers
<1> HIDE DEF m
<1>12. \E x \in Frames : /\ x.source = s /\ x.from = s /\ x.life = o.life
                         /\ x.index = o.sent + 1
                         /\ ring' \in {ring, Put(ring, <<x>>), Put(ring, <<x, x>>)}
  BY <1>7, <1>9
<1> QED
  BY <1>3, <1>5, <1>8, <1>10, <1>11, <1>12

LEMMA RingEntries ==
  ASSUME JoyInv, NEW f \in Entries(ring)
  PROVE  /\ f \in Frames /\ f \in Known /\ SentBy(f) /\ f.from \in Sources /\ f.index \in Nat
         /\ f.number \in Numbers /\ 1 <= f.index /\ f.index <= MaxFrames
         /\ f.source \in {f.from, NoSource}
<1>1. f \in Known
  BY DEF Known
<1> QED
  BY <1>1, KnownFields DEF JoyInv, FramesInv, SentBy

LEMMA OrderPublish ==
  ASSUME JoyInv, OrderlyInv, NEW s \in Sources, Publish(s)
  PROVE  OrderlyInv'
<1> SUFFICES ASSUME orderly' PROVE OrderInv' /\ SeenInv' /\ MissedInv'
  BY DEF OrderlyInv, OrderInv, SeenInv, MissedInv
<1>1. /\ orderly /\ late' = late /\ UNCHANGED <<reader, seen>>
      /\ publisher'[s].life = publisher[s].life /\ publisher'[s].sent = publisher[s].sent + 1
      /\ publisher'[s].number = (publisher[s].number + 1) % Modulus
      /\ publisher[s].sent \in Nat /\ publisher[s].number \in Numbers
      /\ publisher[s].sent + 1 <= MaxFrames
      /\ \A u \in Sources : u # s => publisher'[u] = publisher[u]
  BY OrderlyPublish
<1>2. PICK m \in Frames : /\ m.source = s /\ m.from = s /\ m.life = publisher[s].life
                          /\ m.index = publisher[s].sent + 1
                          /\ ring' \in {ring, Put(ring, <<m>>), Put(ring, <<m, m>>)}
  BY OrderlyPublish
<1>3. /\ late = {}
      /\ \A f \in Entries(ring) : f.source = f.from /\ f.life = publisher[f.from].life
      /\ \A i, j \in 1 .. Len(ring) :
           i < j /\ ring[i].from = ring[j].from => ring[i].index <= ring[j].index
  BY <1>1 DEF OrderlyInv, OrderInv
<1>4. /\ seen \in [Sources -> SUBSET (1 .. MaxFrames)]
      /\ \A u \in Sources : /\ seen[u] = {} => reader.numbers[u] = NoNumber
                            /\ seen[u] # {} => \E top \in seen[u] : Newest(u, top)
  BY <1>1 DEF OrderlyInv, SeenInv
<1>5. ring \in Seq(Frames) /\ ring' \in Seq(Frames) /\ Entries(ring') \subseteq Entries(ring) \cup {m}
  BY <1>2, PutAdds DEF JoyInv, TypeInv
<1>6. \A f \in Entries(ring) : f.from \in Sources /\ f.index \in Nat /\ SentBy(f)
  BY RingEntries
<1>7. ASSUME NEW f \in Entries(ring), f.from = s PROVE f.index <= m.index
  <2>1. f.index <= publisher[s].sent
    BY <1>3, <1>6, <1>7 DEF SentBy, Precedes
  <2> QED
    BY <1>1, <1>2, <1>6, <2>1
<1>8. OrderInv'
  <2>1. ASSUME NEW f \in Entries(ring') PROVE f.source = f.from /\ f.life = publisher'[f.from].life
    <3>1. CASE f = m
      BY <1>1, <1>2, <3>1
    <3>2. CASE f \in Entries(ring)
      <4>1. publisher'[f.from].life = publisher[f.from].life
        BY <1>1, <1>6, <3>2
      <4> QED
        BY <1>3, <3>2, <4>1
    <3> QED
      BY <1>5, <3>1, <3>2
  <2>2. ASSUME NEW i \in 1 .. Len(ring'), NEW j \in 1 .. Len(ring'), i < j,
               ring'[i].from = ring'[j].from
        PROVE  ring'[i].index <= ring'[j].index
    <3>1. ring'[i] \in Entries(ring) \cup {m}
      BY <1>5 DEF Entries
    <3>2. CASE ring'[j] = m
      <4>1. m.index \in Nat /\ m.index <= m.index
        BY <1>1, <1>2
      <4> QED
        BY <1>2, <1>7, <2>2, <3>1, <3>2, <4>1
    <3>3. ASSUME NEW u \in 1 .. Len(ring), NEW v \in 1 .. Len(ring), u < v,
                 ring'[i] = ring[u], ring'[j] = ring[v]
          PROVE  ring'[i].index <= ring'[j].index
      BY <1>3, <2>2, <3>3
    <3>4. ring'[j] = m \/ \E u, v \in 1 .. Len(ring) : u < v /\ ring'[i] = ring[u] /\ ring'[j] = ring[v]
      BY <1>2, <1>5, <2>2, PutInOrder
    <3> QED
      BY <3>2, <3>3, <3>4
  <2> QED
    BY <1>1, <1>3, <2>1, <2>2 DEF OrderInv
<1>9. ASSUME NEW u \in Sources, seen[u] # {}
      PROVE  \E top \in seen[u] : Newest(u, top)'
  <2>1. PICK top \in seen[u] : Newest(u, top)
    BY <1>4, <1>9
  <2>2. top \in Nat /\ 1 <= top
    BY <1>4
  <2>3. ASSUME NEW f \in Entries(ring'), f.from = u PROVE top <= f.index
    <3>1. CASE f = m
      BY <1>1, <1>2, <2>1, <2>2, <2>3, <3>1 DEF Newest
    <3>2. CASE f \in Entries(ring)
      BY <2>1, <2>3, <3>2 DEF Newest
    <3> QED
      BY <1>5, <3>1, <3>2
  <2>4. CASE u # s
    BY <1>1, <2>1, <2>3, <2>4 DEF Newest
  <2>5. CASE u = s
    <3>1. /\ top <= publisher[s].sent /\ reader.numbers[s] \in Numbers
          /\ Spaced(publisher[s].number, publisher[s].sent + 1, reader.numbers[s], top)
      BY <2>1, <2>5 DEF Newest
    <3>2. Spaced((publisher[s].number + 1) % Modulus, publisher[s].sent + 2, reader.numbers[s], top)
      <4>1. top <= publisher[s].sent + 1
        BY <1>1, <2>2, <3>1
      <4> QED
        BY <1>1, <2>2, <3>1, <4>1, NextNumber
    <3>3. publisher'[s].sent + 1 = publisher[s].sent + 2 /\ top <= publisher'[s].sent
      BY <1>1, <2>2, <3>1
    <3>4. Spaced(publisher'[s].number, publisher'[s].sent + 1, reader.numbers[s], top)
      BY <1>1, <3>2, <3>3
    <3> QED
      BY <1>1, <2>1, <2>3, <2>5, <3>1, <3>3, <3>4 DEF Newest
  <2> QED
    BY <2>4, <2>5
<1>10. SeenInv'
  BY <1>1, <1>4, <1>9 DEF SeenInv
<1>11. MissedInv'
  BY <1>1 DEF OrderlyInv, MissedInv, Missed
<1> QED
  BY <1>8, <1>10, <1>11

\* What is next after one number, seen from two frames of the same life.
LEMMA SpacedBoth ==
  ASSUME NEW p \in Numbers, NEW k \in Nat, NEW n \in Numbers, NEW m \in Numbers,
         NEW i \in 1 .. MaxFrames, NEW j \in 1 .. MaxFrames,
         Spaced(p, k, n, i), Spaced(p, k, m, j)
  PROVE  Spaced(n, i, m, j)
<1>1. /\ MaxFrames \in Nat /\ Modulus \in Nat /\ 2 * MaxFrames < Modulus
      /\ n < Modulus /\ m < Modulus /\ n \in Nat /\ m \in Nat /\ p \in Nat
      /\ i \in Nat /\ j \in Nat /\ 1 <= i /\ 1 <= j /\ i <= MaxFrames /\ j <= MaxFrames
  BY DEF Numbers
<1> QED
  BY <1>1 DEF Spaced

\* The distance of the numbers of two frames of one life is that of the frames.
LEMMA DistanceIs ==
  ASSUME NEW n \in Numbers, NEW m \in Numbers, NEW i \in 1 .. MaxFrames,
         NEW j \in 1 .. MaxFrames, j <= i, Spaced(n, i, m, j)
  PROVE  /\ (n + Modulus - m) % Modulus = i - j
         /\ ~(i - j >= Modulus \div 2)
<1>1. PICK x \in Nat : x = n + Modulus - m
  BY DEF Numbers
<1>2. x < 2 * Modulus /\ Modulus \in Nat
  BY <1>1 DEF Numbers
<1>3. x % Modulus = IF x < Modulus THEN x ELSE x - Modulus
  BY <1>2, RoundOnce
<1>4. /\ MaxFrames \in Nat /\ 2 * MaxFrames < Modulus
      /\ i \in Nat /\ j \in Nat /\ 1 <= i /\ 1 <= j /\ i <= MaxFrames /\ j <= MaxFrames
      /\ n \in Nat /\ m \in Nat /\ n < Modulus /\ m < Modulus
  BY DEF Numbers
<1>5. x % Modulus = i - j
  BY <1>1, <1>2, <1>3, <1>4 DEF Spaced
<1>6. PICK h \in Nat : h = Modulus \div 2
  BY <1>2
<1>7. Modulus <= 2 * h + 1
  BY <1>2, <1>6
<1>8. ~(i - j >= h)
  BY <1>2, <1>4, <1>7
<1> QED
  BY <1>1, <1>5, <1>6, <1>8

\* The frames between two of one publisher, and how many they are.
Skipped(s, top, i) == {s} \X (top + 1 .. i - 1)

LEMMA SkippedCount ==
  ASSUME NEW s, NEW top \in Nat, NEW i \in Nat, top < i
  PROVE  IsFiniteSet(Skipped(s, top, i)) /\ Cardinality(Skipped(s, top, i)) = i - top - 1
<1>1. IsFiniteSet({s}) /\ Cardinality({s}) = 1
  BY FS_Singleton
<1>2. PICK a \in Int, b \in Int : a = top + 1 /\ b = i - 1
  OBVIOUS
<1>3. IsFiniteSet(a .. b) /\ Cardinality(a .. b) = IF a > b THEN 0 ELSE b - a + 1
  BY FS_Interval
<1>4. Cardinality(a .. b) = i - top - 1
  BY <1>2, <1>3
<1>5. /\ IsFiniteSet({s} \X (a .. b))
      /\ Cardinality({s} \X (a .. b)) = Cardinality({s}) * Cardinality(a .. b)
  BY <1>1, <1>3, FS_Product
<1>6. i - top - 1 \in Nat
  OBVIOUS
<1>7. Cardinality({s} \X (a .. b)) = i - top - 1
  BY <1>1, <1>4, <1>5, <1>6
<1> QED
  BY <1>2, <1>5, <1>7 DEF Skipped

LEMMA MoreMissed ==
  ASSUME NEW A, NEW B, IsFiniteSet(A), IsFiniteSet(B), A \cap B = {}
  PROVE  IsFiniteSet(A \cup B) /\ Cardinality(A \cup B) = Cardinality(A) + Cardinality(B)
<1>1. /\ IsFiniteSet(A \cup B)
      /\ Cardinality(A \cup B) = Cardinality(A) + Cardinality(B) - Cardinality(A \cap B)
  BY FS_Union
<1>2. Cardinality(A) \in Nat /\ Cardinality(B) \in Nat /\ Cardinality({}) = 0
  BY FS_CardinalityType, FS_EmptySet
<1>3. Cardinality(A \cap B) = 0
  BY <1>2
<1>4. PICK x \in Nat, y \in Nat : x = Cardinality(A) /\ y = Cardinality(B)
  BY <1>2
<1>5. Cardinality(A \cup B) = x + y - 0
  BY <1>1, <1>3, <1>4
<1> QED
  BY <1>1, <1>4, <1>5

\* A frame accepted of a source whose frames before were top and earlier ones.
LEMMA MissedAdds ==
  ASSUME seen \in [Sources -> SUBSET (1 .. MaxFrames)], NEW s \in Sources,
         NEW i \in 1 .. MaxFrames, seen' = [seen EXCEPT ![s] = @ \cup {i}]
  PROVE  /\ seen[s] = {} => Missed' = Missed
         /\ \A top \in seen[s] :
              (\A j \in seen[s] : j <= top) /\ top < i =>
                /\ Missed' = Missed \cup Skipped(s, top, i)
                /\ Missed \cap Skipped(s, top, i) = {}
<1>1. /\ seen'[s] = seen[s] \cup {i}
      /\ \A u \in Sources : u # s => seen'[u] = seen[u]
  OBVIOUS
<1>2. \A u \in Sources, k \in 1 .. MaxFrames :
        /\ <<u, k>> \in Missed <=> k \notin seen[u] /\ \E a, b \in seen[u] : a < k /\ k < b
        /\ <<u, k>> \in Missed' <=> k \notin seen'[u] /\ \E a, b \in seen'[u] : a < k /\ k < b
  BY DEF Missed
<1>3. Missed \subseteq Sources \X (1 .. MaxFrames) /\ Missed' \subseteq Sources \X (1 .. MaxFrames)
  BY DEF Missed
<1>4. ASSUME seen[s] = {} PROVE Missed' = Missed
  <2>1. ASSUME NEW u \in Sources, NEW k \in 1 .. MaxFrames
        PROVE  <<u, k>> \in Missed <=> <<u, k>> \in Missed'
    BY <1>1, <1>2, <1>4
  <2> QED
    BY <1>3, <2>1
<1>5. ASSUME NEW top \in seen[s], \A j \in seen[s] : j <= top, top < i
      PROVE  /\ Missed' = Missed \cup Skipped(s, top, i)
             /\ Missed \cap Skipped(s, top, i) = {}
  <2>1. top \in 1 .. MaxFrames /\ MaxFrames \in Nat
    OBVIOUS
  <2>2. Skipped(s, top, i) \subseteq Sources \X (1 .. MaxFrames)
    BY <2>1 DEF Skipped
  <2>3. \A u \in Sources, k \in 1 .. MaxFrames :
          <<u, k>> \in Skipped(s, top, i) <=> u = s /\ top < k /\ k < i
    BY <2>1 DEF Skipped
  <2>4. ASSUME NEW u \in Sources, NEW k \in 1 .. MaxFrames
        PROVE  /\ <<u, k>> \in Missed' <=> <<u, k>> \in Missed \/ <<u, k>> \in Skipped(s, top, i)
               /\ ~(<<u, k>> \in Missed /\ <<u, k>> \in Skipped(s, top, i))
    <3>1. CASE u # s
      BY <1>1, <1>2, <2>3, <3>1
    <3>2. CASE u = s
      <4>1. <<u, k>> \in Missed <=> k \notin seen[s] /\ \E a, b \in seen[s] : a < k /\ k < b
        BY <1>2, <3>2
      <4>2. <<u, k>> \in Missed' <=> /\ k \notin seen[s] /\ k # i
                                     /\ \E a, b \in seen[s] \cup {i} : a < k /\ k < b
        BY <1>1, <1>2, <3>2
      <4>3. seen[s] \subseteq Nat /\ i \in Nat /\ k \in Nat /\ top \in Nat
        BY <2>1
      <4>4. <<u, k>> \in Missed => k < top
        BY <1>5, <4>1, <4>3
      <4>5. <<u, k>> \in Skipped(s, top, i) <=> top < k /\ k < i
        BY <2>3, <3>2
      <4>6. <<u, k>> \in Missed => <<u, k>> \in Missed'
        BY <1>5, <4>1, <4>2, <4>3, <4>4
      <4>7. top < k /\ k < i => <<u, k>> \in Missed'
        BY <1>5, <4>2, <4>3
      <4>8. <<u, k>> \in Missed' => <<u, k>> \in Missed \/ (top < k /\ k < i)
        BY <1>5, <4>1, <4>2, <4>3
      <4> QED
        BY <4>3, <4>4, <4>5, <4>6, <4>7, <4>8
    <3> QED
      BY <3>1, <3>2
  <2> QED
    BY <1>3, <2>2, <2>4
<1> QED
  BY <1>4, <1>5

\* What the reader makes of the next frame of an orderly stream.
LEMMA OrderlyNext ==
  ASSUME JoyInv, OrderlyInv, orderly, NEW m \in Entries(ring), ~Duplicate(reader, m)
  PROVE  /\ m.source = m.from /\ m.from \in Sources /\ Identified(m)
         /\ m.index \in 1 .. MaxFrames /\ m.index <= publisher[m.from].sent /\ m.number \in Numbers
         /\ Spaced(publisher[m.from].number, publisher[m.from].sent + 1, m.number, m.index)
         /\ seen[m.from] = {} => Gap(reader, m) = 0
         /\ \A top \in seen[m.from] :
              Newest(m.from, top) => top < m.index /\ Gap(reader, m) = m.index - top - 1
<1>1. /\ m.source = m.from /\ m.life = publisher[m.from].life
      /\ seen \in [Sources -> SUBSET (1 .. MaxFrames)]
      /\ \A s \in Sources : seen[s] = {} => reader.numbers[s] = NoNumber
  BY DEF OrderlyInv, OrderInv, SeenInv
<1>2. /\ SentBy(m) /\ m.from \in Sources /\ m.index \in Nat /\ m.number \in Numbers
      /\ 1 <= m.index /\ m.index <= MaxFrames /\ MaxFrames \in Nat
  BY RingEntries
<1>3. Precedes(publisher[m.from], m)
  BY <1>1, <1>2 DEF SentBy
<1>4. /\ m.index <= publisher[m.from].sent
      /\ Spaced(publisher[m.from].number, publisher[m.from].sent + 1, m.number, m.index)
  BY <1>3 DEF Precedes
<1>5. Identified(m) /\ m.index \in 1 .. MaxFrames
  BY <1>1, <1>2 DEF Identified
<1>6. ASSUME seen[m.from] = {} PROVE Gap(reader, m) = 0
  BY <1>1, <1>2, <1>6 DEF Gap, Compares
<1>7. ASSUME NEW top \in seen[m.from], Newest(m.from, top)
      PROVE  top < m.index /\ Gap(reader, m) = m.index - top - 1
  <2>1. top \in 1 .. MaxFrames
    BY <1>1, <1>2
  <2>2. /\ top <= m.index /\ reader.numbers[m.from] \in Numbers
        /\ Spaced(publisher[m.from].number, publisher[m.from].sent + 1,
                  reader.numbers[m.from], top)
    BY <1>7 DEF Newest
  <2>3. publisher[m.from].number \in Numbers /\ publisher[m.from].sent + 1 \in Nat
    BY <1>2 DEF JoyInv, TypeInv, Publishers
  <2>4. Spaced(m.number, m.index, reader.numbers[m.from], top)
    BY <1>2, <1>4, <1>5, <2>1, <2>2, <2>3, SpacedBoth
  <2>5. /\ (m.number + Modulus - reader.numbers[m.from]) % Modulus = m.index - top
        /\ ~(m.index - top >= Modulus \div 2)
    BY <1>2, <1>5, <2>1, <2>2, <2>4, DistanceIs
  <2>6. Distance(reader, m) = m.index - top
    BY <1>1, <2>5 DEF Distance
  <2>7. Compares(reader, m)
    BY <1>1, <1>5, <2>2 DEF Compares, Numbers, NoNumber
  <2>8. m.index - top # 0
    BY <2>6, <2>7 DEF Duplicate
  <2>9. ~WentBack(reader, m)
    BY <2>5, <2>6 DEF WentBack
  <2>10. Gap(reader, m) = (m.index - top) - 1
    BY <2>6, <2>7, <2>9 DEF Gap
  <2> QED
    BY <1>2, <2>1, <2>2, <2>8, <2>10
<1> QED
  BY <1>1, <1>2, <1>4, <1>5, <1>6, <1>7

\* The ring without its first frame.
LEMMA OrderTail ==
  ASSUME JoyInv, OrderInv, ring # <<>>, ring' = Tail(ring), UNCHANGED <<publisher, late, orderly>>
  PROVE  /\ OrderInv'
         /\ Entries(ring') \subseteq Entries(ring) /\ Head(ring) \in Entries(ring)
         /\ orderly => \A f \in Entries(ring') : f.from = Head(ring).from => Head(ring).index <= f.index
<1>1. ring \in Seq(Frames)
  BY DEF JoyInv, TypeInv
<1>2. Entries(ring') \subseteq Entries(ring) /\ Head(ring) \in Entries(ring) /\ ring' \in Seq(Frames)
  BY <1>1, TailTakes
<1>3. /\ \A i \in 1 .. Len(ring') : i + 1 \in 1 .. Len(ring) /\ ring'[i] = ring[i + 1]
      /\ Head(ring) = ring[1] /\ 1 \in 1 .. Len(ring) /\ Len(ring) \in Nat
  BY <1>1, TailInOrder
<1>4. ASSUME orderly
      PROVE  /\ \A i, j \in 1 .. Len(ring') :
                  i < j /\ ring'[i].from = ring'[j].from => ring'[i].index <= ring'[j].index
             /\ \A f \in Entries(ring') : f.from = Head(ring).from => Head(ring).index <= f.index
  <2>1. \A i, j \in 1 .. Len(ring) :
          i < j /\ ring[i].from = ring[j].from => ring[i].index <= ring[j].index
    BY <1>4 DEF OrderInv
  <2>2. ASSUME NEW i \in 1 .. Len(ring'), NEW j \in 1 .. Len(ring'), i < j,
               ring'[i].from = ring'[j].from
        PROVE  ring'[i].index <= ring'[j].index
    <3>1. i + 1 < j + 1
      BY <2>2
    <3> QED
      BY <1>3, <2>1, <2>2, <3>1
  <2>3. ASSUME NEW f \in Entries(ring'), f.from = Head(ring).from
        PROVE  Head(ring).index <= f.index
    <3>1. PICK i \in 1 .. Len(ring') : f = ring'[i]
      BY DEF Entries
    <3>2. 1 < i + 1 /\ f = ring[i + 1] /\ i + 1 \in 1 .. Len(ring)
      BY <1>3, <3>1
    <3> QED
      BY <1>3, <2>1, <2>3, <3>2
  <2> QED
    BY <2>2, <2>3
<1>5. orderly => late' = {} /\ \A f \in Entries(ring') : f.source = f.from /\ f.life = publisher'[f.from].life
  BY <1>2 DEF OrderInv
<1>6. OrderInv'
  BY <1>4, <1>5 DEF OrderInv
<1> QED
  BY <1>2, <1>4, <1>6

\* A step that accepts nothing: the ring may lose frames.
LEMMA SeenRests ==
  ASSUME OrderlyInv, UNCHANGED <<publisher, seen, orderly>>, reader'.numbers = reader.numbers,
         reader'.missingTotal = reader.missingTotal, Entries(ring') \subseteq Entries(ring)
  PROVE  SeenInv' /\ MissedInv'
<1>1. MissedInv'
  BY DEF OrderlyInv, MissedInv, Missed
<1>2. \A s \in Sources : \A top \in seen[s] : Newest(s, top) => Newest(s, top)'
  BY DEF Newest
<1>3. SeenInv'
  BY <1>2 DEF OrderlyInv, SeenInv
<1> QED
  BY <1>1, <1>3

LEMMA OrderReceive ==
  ASSUME JoyInv, OrderlyInv, Receive
  PROVE  OrderlyInv'
<1>1. PICK m : m = Head(ring)
  OBVIOUS
<1>2. /\ ring # <<>> /\ ring' = Tail(ring) /\ UNCHANGED <<publisher, late, orderly>>
  BY DEF Receive
<1>3. /\ OrderInv' /\ Entries(ring') \subseteq Entries(ring) /\ m \in Entries(ring)
      /\ orderly => \A f \in Entries(ring') : f.from = m.from => m.index <= f.index
  BY <1>1, <1>2, OrderTail DEF OrderlyInv
<1>4. CASE ~(m.good /\ ~Duplicate(reader, m))
  <2>1. reader' = [reader EXCEPT !.incomplete = TRUE] /\ seen' = seen
    BY <1>1, <1>4 DEF Receive, Accepted
  <2>2. reader \in Readers
    BY ReaderFields DEF JoyInv
  <2>3. reader'.numbers = reader.numbers /\ reader'.missingTotal = reader.missingTotal
    BY <2>1, <2>2 DEF Readers
  <2> QED
    BY <1>2, <1>3, <2>1, <2>3, SeenRests DEF OrderlyInv
<1>5. CASE m.good /\ ~Duplicate(reader, m) /\ orderly
  <2>1. reader' = Accepted(reader, m) /\ seen' = [seen EXCEPT ![m.from] = @ \cup {m.index}]
    BY <1>1, <1>5 DEF Receive
  <2>2. m \in Known
    BY <1>3 DEF Known
  <2>3. Accepts(reader, m, reader')
    BY <1>5, <2>1, <2>2, AcceptedFits
  <2>4. PICK s \in Sources : s = m.from
    BY <1>3, <1>5, OrderlyNext
  <2>5. PICK i \in 1 .. MaxFrames : i = m.index
    BY <1>3, <1>5, OrderlyNext
  <2>6. /\ m.source = s /\ Identified(m)
        /\ i <= publisher[s].sent /\ m.number \in Numbers
        /\ Spaced(publisher[s].number, publisher[s].sent + 1, m.number, i)
        /\ seen[s] = {} => Gap(reader, m) = 0
        /\ \A top \in seen[s] : Newest(s, top) => top < i /\ Gap(reader, m) = i - top - 1
    BY <1>3, <1>5, <2>4, <2>5, OrderlyNext
  <2>7. /\ reader.numbers \in NumberMaps
        /\ reader'.numbers = [reader.numbers EXCEPT ![s] = m.number]
        /\ reader'.missingTotal = reader.missingTotal + Gap(reader, m)
    BY <2>3, <2>6, ReaderFields DEF Accepts, JoyInv
  <2>8. /\ reader'.numbers[s] = m.number
        /\ \A u \in Sources : u # s => reader'.numbers[u] = reader.numbers[u]
    BY <2>7 DEF NumberMaps
  <2>9. /\ seen \in [Sources -> SUBSET (1 .. MaxFrames)]
        /\ \A u \in Sources : /\ seen[u] = {} => reader.numbers[u] = NoNumber
                              /\ seen[u] # {} => \E top \in seen[u] : Newest(u, top)
    BY <1>5 DEF OrderlyInv, SeenInv
  <2>10. /\ seen' = [seen EXCEPT ![s] = @ \cup {i}] /\ seen'[s] = seen[s] \cup {i}
         /\ \A u \in Sources : u # s => seen'[u] = seen[u]
         /\ seen' \in [Sources -> SUBSET (1 .. MaxFrames)]
    BY <2>1, <2>4, <2>5, <2>9
  <2>11. \A j \in seen[s] : j <= i
    <3>1. CASE seen[s] = {}
      BY <3>1
    <3>2. CASE seen[s] # {}
      <4>1. PICK top \in seen[s] : Newest(s, top)
        BY <2>9, <3>2
      <4>2. top < i /\ \A j \in seen[s] : j <= top
        BY <2>6, <4>1 DEF Newest
      <4>3. seen[s] \subseteq Nat /\ i \in Nat
        BY <2>9
      <4> QED
        BY <4>2, <4>3
    <3> QED
      BY <3>1, <3>2
  <2>12. Newest(s, i)'
    <3>1. \A j \in seen'[s] : j <= i
      BY <2>10, <2>11
    <3>2. \A f \in Entries(ring') : f.from = s => i <= f.index
      BY <1>3, <1>5, <2>4, <2>5
    <3> QED
      BY <1>2, <2>6, <2>8, <3>1, <3>2 DEF Newest
  <2>13. SeenInv'
    <3>1. ASSUME NEW u \in Sources, u # s
          PROVE  /\ seen'[u] = {} => reader'.numbers[u] = NoNumber
                 /\ seen'[u] # {} => \E top \in seen'[u] : Newest(u, top)'
      <4>1. ASSUME NEW top \in seen[u], Newest(u, top) PROVE Newest(u, top)'
        BY <1>2, <1>3, <2>8, <2>10, <3>1, <4>1 DEF Newest
      <4> QED
        BY <2>8, <2>9, <2>10, <3>1, <4>1
    <3>2. /\ seen'[s] # {}
          /\ \E top \in seen'[s] : Newest(s, top)'
      BY <2>10, <2>12
    <3> QED
      BY <2>10, <3>1, <3>2 DEF SeenInv
  <2>14. /\ IsFiniteSet(Missed) /\ reader.missingTotal = Cardinality(Missed)
         /\ Cardinality(Missed) \in Nat
    <3>1. IsFiniteSet(Missed) /\ reader.missingTotal = Cardinality(Missed)
      BY <1>5 DEF OrderlyInv, MissedInv
    <3> QED
      BY <3>1, FS_CardinalityType
  <2>15. CASE seen[s] = {}
    <3>1. Missed' = Missed
      BY <2>9, <2>10, <2>15, MissedAdds
    <3>2. reader'.missingTotal = reader.missingTotal
      BY <2>6, <2>7, <2>14, <2>15
    <3>3. IsFiniteSet(Missed') /\ reader'.missingTotal = Cardinality(Missed')
      BY <2>14, <3>1, <3>2
    <3> QED
      BY <1>3, <2>13, <3>3 DEF OrderlyInv, MissedInv
  <2>16. CASE seen[s] # {}
    <3>1. PICK top \in seen[s] : Newest(s, top)
      BY <2>9, <2>16
    <3>2. top < i /\ Gap(reader, m) = i - top - 1 /\ \A j \in seen[s] : j <= top
      BY <2>6, <3>1 DEF Newest
    <3>3. top \in Nat /\ i \in Nat
      BY <2>9
    <3>4. /\ Missed' = Missed \cup Skipped(s, top, i)
          /\ Missed \cap Skipped(s, top, i) = {}
      BY <2>9, <2>10, <3>2, MissedAdds
    <3>5. /\ IsFiniteSet(Skipped(s, top, i))
          /\ Cardinality(Skipped(s, top, i)) = i - top - 1
      BY <3>2, <3>3, SkippedCount
    <3>6. /\ IsFiniteSet(Missed')
          /\ Cardinality(Missed') = Cardinality(Missed) + Cardinality(Skipped(s, top, i))
      BY <2>14, <3>4, <3>5, MoreMissed
    <3>7. reader'.missingTotal = Cardinality(Missed')
      BY <2>7, <2>14, <3>2, <3>5, <3>6
    <3> QED
      BY <1>3, <2>13, <3>6, <3>7 DEF OrderlyInv, MissedInv
  <2> QED
    BY <2>15, <2>16
<1>6. CASE ~orderly
  BY <1>2, <1>3, <1>6 DEF OrderlyInv, SeenInv, MissedInv
<1> QED
  BY <1>4, <1>5, <1>6

LEMMA OrderStarts ==
  ASSUME Init
  PROVE  OrderlyInv
<1>1. /\ late = {} /\ ring = <<>> /\ reader = Opened /\ seen = [s \in Sources |-> {}]
  BY DEF Init
<1>2. /\ reader.numbers = [s \in Sources |-> NoNumber] /\ reader.missingTotal = 0
  BY <1>1 DEF Opened
<1>3. OrderInv
  BY <1>1 DEF OrderInv, Entries
<1>4. SeenInv
  BY <1>1, <1>2 DEF SeenInv
<1>5. Missed = {}
  BY <1>1 DEF Missed
<1>6. MissedInv
  BY <1>2, <1>5, FS_EmptySet DEF MissedInv
<1> QED
  BY <1>3, <1>4, <1>6 DEF OrderlyInv

LEMMA OrderStep ==
  ASSUME JoyInv, OrderlyInv, [Next]_vars
  PROVE  OrderlyInv'
<1>1. ASSUME UNCHANGED <<publisher, late, ring, reader, seen, orderly>> PROVE OrderlyInv'
  BY <1>1 DEF OrderlyInv, OrderInv, SeenInv, MissedInv, Newest, Missed
<1>2. ASSUME NEW s \in Sources, Publish(s) PROVE OrderlyInv'
  BY <1>2, OrderPublish
<1>3. ASSUME NEW s \in Sources, Restart(s) PROVE OrderlyInv'
  <2>1. ~orderly'
    BY <1>3 DEF Restart
  <2> QED
    BY <2>1 DEF OrderlyInv, OrderInv, SeenInv, MissedInv
<1>4. CASE Arrive
  <2>1. orderly' = orderly /\ late # {}
    BY <1>4 DEF Arrive
  <2>2. ~orderly'
    BY <2>1 DEF OrderlyInv, OrderInv
  <2> QED
    BY <2>2 DEF OrderlyInv, OrderInv, SeenInv, MissedInv
<1>5. CASE Receive
  BY <1>5, OrderReceive
<1>6. CASE FinishRead
  <2>1. /\ UNCHANGED <<publisher, late, ring, seen, orderly>>
        /\ \E r : /\ r = [reader EXCEPT !.complete = Complete(reader)]
                  /\ reader' = Emptied(r)
    BY <1>6 DEF FinishRead
  <2>2. reader'.numbers = reader.numbers /\ reader'.missingTotal = reader.missingTotal
    <3>1. PICK c : c = Complete(reader)
      OBVIOUS
    <3>2. PICK r : r = [reader EXCEPT !.complete = c] /\ reader' = Emptied(r)
      BY <2>1, <3>1
    <3>3. /\ r.numbers = reader.numbers /\ r.missingTotal = reader.missingTotal
          /\ DOMAIN r = DOMAIN reader
      BY <3>2, ReaderFields DEF JoyInv, Readers
    <3>4. reader'.numbers = r.numbers /\ reader'.missingTotal = r.missingTotal
      BY <3>2, <3>3, ReaderFields DEF JoyInv, Readers, Emptied
    <3> QED
      BY <3>3, <3>4
  <2>3. OrderInv'
    BY <2>1 DEF OrderlyInv, OrderInv
  <2>4. Entries(ring') \subseteq Entries(ring)
    BY <2>1
  <2> QED
    BY <2>1, <2>2, <2>3, <2>4, SeenRests DEF OrderlyInv
<1>7. CASE StartRead \/ FailRead \/ Close \/ UNCHANGED vars
  BY <1>1, <1>7 DEF StartRead, FailRead, Close, vars
<1> QED
  BY <1>2, <1>3, <1>4, <1>5, <1>6, <1>7 DEF Next

\* In an orderly stream the cumulative gap count (missing_samples_total of joy.py;
\* README.md:105-106 of velocity_mode) is the number of the frames missed between those
\* accepted, for every ring depth and every wrap of the number.
THEOREM MissingCounted == Spec => []MissingIsExact
<1>1. Init => OrderlyInv
  BY OrderStarts
<1>2. JoyInv /\ OrderlyInv /\ [Next]_vars => OrderlyInv'
  BY OrderStep
<1>3. OrderlyInv => MissingIsExact
  BY DEF OrderlyInv, MissedInv, MissingIsExact
<1> QED
  BY <1>1, <1>2, <1>3, AlwaysJoy, PTL DEF Spec

=============================================================================
