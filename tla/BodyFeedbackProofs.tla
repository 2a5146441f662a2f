-------------------------- MODULE BodyFeedbackProofs --------------------------
(***************************************************************************)
(* Theorems about BodyFeedback, for every set of threads, every mix of     *)
(* calls that one subscription serves and every number of frames: body     *)
(* states go forward, and publish decides on a status no older than the    *)
(* newest that had arrived.                                                *)
(***************************************************************************)
EXTENDS BodyFeedback, WellFoundedInduction, TLAPS

USE MixesAssumption, SubscriptionAssumption, CallersAssumption

-----------------------------------------------------------------------------
(* The greatest number of a bounded set *)

LEMMA LeastOf ==
  ASSUME NEW T \in SUBSET Nat, T # {}
  PROVE  \E x \in T : \A y \in T : x <= y
<1> DEFINE R == OpToRel(<, Nat)
<1>1. IsWellFoundedOn(R, Nat)
  BY NatLessThanWellFounded, Zenon
<1>2. R = {ss \in Nat \X Nat : ss[1] < ss[2]}
  BY Zenon DEF OpToRel
<1> HIDE DEF R
<1>3. PICK x \in T : \A y \in T : ~ (<<y, x>> \in R)
  BY <1>1, WFMin, Zenon
<1>4. \A y \in T : y < x => <<y, x>> \in R
  BY <1>2
<1>5. x \in Nat /\ \A y \in T : y \in Nat
  OBVIOUS
<1>6. \A y \in T : ~ (y < x)
  BY <1>3, <1>4, Zenon
<1>7. \A y \in T : x <= y
  BY <1>5, <1>6
<1> QED
  BY <1>7

LEMMA MaxIsGreatest ==
  ASSUME NEW S \in SUBSET Nat, S # {}, NEW b \in Nat, \A x \in S : x <= b
  PROVE  Max(S) \in S /\ Max(S) \in Nat /\ \A x \in S : x <= Max(S)
<1> DEFINE T == {n \in Nat : \A x \in S : x <= n}
<1>1. PICK u \in T : \A v \in T : u <= v
  BY LeastOf
<1>2. u \in S
  <2>1. SUFFICES ASSUME u \notin S PROVE FALSE
    OBVIOUS
  <2>2. \A x \in S : x \in Nat /\ u \in Nat /\ x <= u /\ x # u /\ x <= u - 1
    BY <2>1, <1>1
  <2>3. u - 1 \in Nat
    <3>1. PICK x \in S : TRUE
      OBVIOUS
    <3> QED
      BY <2>2, <3>1
  <2>4. u - 1 \in T
    BY <2>2, <2>3
  <2> QED
    BY <2>4, <1>1
<1>3. \E x \in S : \A y \in S : x >= y
  BY <1>1, <1>2
<1>4. Max(S) \in S /\ \A y \in S : Max(S) >= y
  BY <1>3 DEF Max
<1> QED
  BY <1>4

-----------------------------------------------------------------------------
(* The invariant *)

StatePlaces == {"stateLock", "receive", "decode", "store"}
SourcePlaces == {"snap", "sleep"}
StatusPlaces == {"statusLock", "callback", "look"}

Uses == Reads \cup {"publish", "await"}
Frames == [number : Nat, readers : SUBSET (Views \cup {"status"})]

Calls == [pc : {"idle"} \cup StatePlaces \cup SourcePlaces \cup StatusPlaces,
          use : Uses \cup {"none"}, zero : BOOLEAN, after : Nat, frame : Frames,
          floor : Nat, late : BOOLEAN, got : Nat, calls : Nat]

TypeInv ==
  /\ pull \in [latest : Frames, arrays : Nat, native : Nat, snapshot : Nat, status : Nat,
               known : Nat, stateLock : Callers \cup {NoCaller},
               statusLock : Callers \cup {NoCaller}, closed : BOOLEAN, shut : BOOLEAN]
  /\ topic \in [state : Frames, status : Frames]
  /\ sent \in [states : Nat, statuses : Nat, spoiled : Nat]
  /\ uses \in Mixes
  /\ caller \in [Callers -> Calls]

\* A call is in the places of its use.
PlacesInv ==
  \A t \in Callers :
    /\ caller[t].use = "none" \/ caller[t].use \in uses
    /\ caller[t].pc \in StatePlaces => caller[t].use \in Views
    /\ caller[t].pc \in SourcePlaces => caller[t].use = "snapshot"
    /\ caller[t].pc \in StatusPlaces => caller[t].use \in {"publish", "await"}
    /\ caller[t].got # 0 => caller[t].pc = "idle"
    /\ caller[t].after # 0 => caller[t].use = "snapshot"

\* The state that is shown last.
Shown == IF "snapshot" \in uses THEN pull.snapshot ELSE pull.latest.number

\* The two views are of the latest frame; whoever has received a later one holds the
\* lock until it is shown or lost.
ShownInv ==
  /\ topic.state # Nothing => topic.state.number = sent.states
  /\ pull.latest.number <= sent.states /\ pull.snapshot <= sent.states
  /\ pull.arrays \in {0, pull.latest.number} /\ pull.native \in {0, pull.latest.number}
  /\ \A t \in Callers :
       /\ caller[t].pc \in {"receive", "decode", "store"} => pull.stateLock = t
       /\ caller[t].pc \in {"decode", "store"} =>
            /\ pull.latest.number <= caller[t].frame.number
            /\ caller[t].frame.number <= sent.states
       /\ caller[t].use \in Reads => caller[t].floor <= Shown /\ caller[t].got <= Shown

\* A call begun late has nothing and will have nothing.
LateInv ==
  \A t \in Callers : caller[t].late =>
    /\ caller[t].use \in Reads => caller[t].got = 0
    /\ caller[t].use \in Views => pull.shut /\ caller[t].pc \in {"idle", "stateLock"}
    /\ caller[t].use = "snapshot" => pull.closed

ReadsInv == PlacesInv /\ ShownInv /\ LateInv /\ StatesGoForward

\* A status received is known when the lock is free, and until then is the holder's.
HandedInv ==
  /\ pull.known <= pull.status /\ pull.status <= sent.statuses
  /\ topic.status # Nothing => topic.status.number = sent.statuses
  /\ pull.statusLock = NoCaller /\ ~pull.closed => pull.known = pull.status
  /\ \A t \in Callers :
       /\ pull.statusLock = t => caller[t].pc = "callback"
       /\ caller[t].pc = "callback" =>
            pull.statusLock = t /\ caller[t].frame.number = pull.status

\* What publish may count on is on its way to be known, or was replaced.
CountedInv ==
  \A t \in Callers : caller[t].use = "publish" =>
    /\ caller[t].floor <= sent.statuses
    /\ \/ sent.spoiled > caller[t].floor
       \/ caller[t].pc = "statusLock" /\ topic.status.readers # {}
            /\ topic.status.number >= caller[t].floor
       \/ caller[t].pc \in {"statusLock", "callback"} /\ pull.status >= caller[t].floor
       \/ caller[t].pc = "look" /\ (pull.known >= caller[t].floor \/ pull.closed)
       \/ caller[t].pc = "idle"

StatusInv == PlacesInv /\ HandedInv /\ CountedInv /\ PublishSeesArrived

-----------------------------------------------------------------------------
(* Types *)

\* Mixes hold uses, and the two kinds of body state are never mixed.
LEMMA UsesAre ==
  ASSUME uses \in Mixes
  PROVE  uses \subseteq Uses /\ ("snapshot" \in uses => uses \cap Views = {})
  BY DEF Uses, Reads, Views

LEMMA CallOf ==
  ASSUME TypeInv, NEW t \in Callers
  PROVE  caller[t] \in Calls
  BY DEF TypeInv

LEMMA EndsOne ==
  ASSUME TypeInv, NEW t \in Callers, NEW got \in Nat, Ends(t, got)
  PROVE  /\ caller' \in [Callers -> Calls] /\ caller'[t].pc = "idle"
         /\ \A u \in Callers : u # t => caller'[u] = caller[u]
         /\ caller'[t].got = got
         /\ got = 0 => /\ caller'[t].use = "none" /\ caller'[t].floor = 0
                       /\ caller'[t].late = FALSE /\ caller'[t].after = 0
         /\ got # 0 => /\ caller'[t].use = caller[t].use /\ caller'[t].floor = caller[t].floor
                       /\ caller'[t].late = caller[t].late /\ caller'[t].after = caller[t].after
<1>1. caller[t] \in Calls /\ caller \in [Callers -> Calls]
  BY DEF TypeInv
<1>2. Nothing \in Frames
  BY DEF Nothing, Frames
<1>3. CASE got = 0
  <2> DEFINE c == [AtRest EXCEPT !.pc = "idle", !.frame = Nothing, !.got = got,
                                 !.calls = caller[t].calls]
  <2>1. (IF got = 0 THEN AtRest ELSE caller[t]) = AtRest
    BY <1>3
  <2>2. caller' = [caller EXCEPT ![t] = c]
    BY <2>1, Zenon DEF Ends, Proceeds
  <2>3. AtRest \in Calls /\ AtRest.use = "none" /\ AtRest.floor = 0 /\ AtRest.late = FALSE
          /\ AtRest.after = 0
    BY <1>2 DEF AtRest, Calls
  <2>4. c \in Calls /\ c.pc = "idle" /\ c.got = got /\ c.use = "none" /\ c.floor = 0
          /\ c.late = FALSE /\ c.after = 0
    BY <1>1, <1>2, <2>3 DEF Calls
  <2> HIDE DEF c
  <2> QED
    BY <1>1, <1>3, <2>2, <2>4
<1>4. CASE got # 0
  <2> DEFINE c == [caller[t] EXCEPT !.pc = "idle", !.frame = Nothing, !.got = got,
                                    !.calls = caller[t].calls]
  <2>1. caller' = [caller EXCEPT ![t] = c]
    BY <1>4 DEF Ends, Proceeds
  <2>2. c \in Calls
    BY <1>1, <1>2 DEF Calls
  <2>3. /\ c.pc = "idle" /\ c.got = got /\ c.use = caller[t].use /\ c.floor = caller[t].floor
        /\ c.late = caller[t].late /\ c.after = caller[t].after
    BY <1>1 DEF Calls
  <2> HIDE DEF c
  <2> QED
    BY <1>1, <1>4, <2>1, <2>2, <2>3
<1> QED
  BY <1>3, <1>4

\* A call that goes on keeps what it began with.
Kept(t) == /\ caller' \in [Callers -> Calls]
           /\ \A u \in Callers : u # t => caller'[u] = caller[u]
           /\ caller'[t].use = caller[t].use /\ caller'[t].floor = caller[t].floor
           /\ caller'[t].late = caller[t].late /\ caller'[t].after = caller[t].after
           /\ caller'[t].got = caller[t].got

LEMMA GoesOne ==
  ASSUME TypeInv, NEW t \in Callers,
         NEW place \in StatePlaces \cup SourcePlaces \cup StatusPlaces, Goes(t, place)
  PROVE  Kept(t) /\ caller'[t].pc = place /\ caller'[t].frame = caller[t].frame
<1>1. caller[t] \in Calls /\ caller \in [Callers -> Calls]
  BY DEF TypeInv
<1>2. caller' = [caller EXCEPT ![t] = [caller[t] EXCEPT !.pc = place]]
  BY DEF Goes, Proceeds
<1> QED
  BY <1>1, <1>2 DEF Kept, Calls

LEMMA TakesOne ==
  ASSUME TypeInv, NEW t \in Callers, NEW f \in Frames,
         NEW place \in StatePlaces \cup SourcePlaces \cup StatusPlaces,
         Proceeds(t, [caller[t] EXCEPT !.pc = place, !.frame = f])
  PROVE  Kept(t) /\ caller'[t].pc = place /\ caller'[t].frame = f
<1>1. caller[t] \in Calls /\ caller \in [Callers -> Calls]
  BY DEF TypeInv
<1>2. caller' = [caller EXCEPT ![t] = [caller[t] EXCEPT !.pc = place, !.frame = f]]
  BY DEF Proceeds
<1> QED
  BY <1>1, <1>2 DEF Kept, Calls

LEMMA WokenAll ==
  ASSUME TypeInv, caller' = Woken
  PROVE  /\ caller' \in [Callers -> Calls]
         /\ \A t \in Callers :
              /\ caller'[t].use = caller[t].use /\ caller'[t].floor = caller[t].floor
              /\ caller'[t].late = caller[t].late /\ caller'[t].after = caller[t].after
              /\ caller'[t].got = caller[t].got /\ caller'[t].frame = caller[t].frame
              /\ caller'[t].pc = caller[t].pc
                   \/ (caller[t].pc = "sleep" /\ caller'[t].pc = "snap")
  BY DEF TypeInv, Woken, Calls, SourcePlaces

-----------------------------------------------------------------------------
(* Every step keeps the invariant *)

AllInv == TypeInv /\ ReadsInv /\ StatusInv

LEMMA Fields ==
  ASSUME TypeInv
  PROVE  /\ \A t \in Callers :
              /\ caller[t].floor \in Nat /\ caller[t].got \in Nat /\ caller[t].after \in Nat
              /\ caller[t].late \in BOOLEAN /\ caller[t].frame \in Frames
              /\ caller[t].frame.number \in Nat
         /\ pull.latest \in Frames /\ pull.latest.number \in Nat /\ pull.snapshot \in Nat
         /\ pull.arrays \in Nat /\ pull.native \in Nat /\ pull.status \in Nat
         /\ pull.known \in Nat /\ pull.closed \in BOOLEAN /\ pull.shut \in BOOLEAN
         /\ topic.state \in Frames /\ topic.status \in Frames
         /\ topic.state.number \in Nat /\ topic.status.number \in Nat
         /\ sent.states \in Nat /\ sent.statuses \in Nat /\ sent.spoiled \in Nat
         /\ uses \in Mixes
<1>1. /\ \A t \in Callers : caller[t] \in Calls
      /\ pull.latest \in Frames /\ topic.state \in Frames /\ topic.status \in Frames
  BY DEF TypeInv
<1>2. \A t \in Callers : caller[t].frame \in Frames
  BY <1>1 DEF Calls
<1> QED
  BY <1>1, <1>2 DEF TypeInv, Calls, Frames

LEMMA FloorOfReads ==
  ASSUME TypeInv, ShownInv, NEW use \in uses, use \in Reads
  PROVE  FloorOf(use) \in Nat /\ FloorOf(use) <= Shown
<1> DEFINE S == {0} \cup UNION {{caller[t].got, caller[t].floor} :
                                t \in {u \in Callers : caller[u].use \in Reads}}
<1>1. \A x \in S : x \in Nat /\ x <= Shown
  BY Fields DEF ShownInv, Shown
<1>2. S \in SUBSET Nat /\ S # {} /\ Shown \in Nat
  BY <1>1, Fields DEF Shown
<1>3. FloorOf(use) = Max(S)
  <2>1. use # "publish" /\ use # "await"
    BY DEF Reads, Views
  <2> QED
    BY <2>1 DEF FloorOf
<1> HIDE DEF S
<1>4. Max(S) \in S
  BY <1>1, <1>2, MaxIsGreatest
<1> QED
  BY <1>1, <1>3, <1>4

LEMMA FloorOfPublish ==
  ASSUME TypeInv, HandedInv
  PROVE  LET f == FloorOf("publish") IN
         /\ f \in Nat /\ f <= sent.statuses
         /\ \/ f = pull.status
            \/ topic.status.readers # {} /\ f = topic.status.number
<1> DEFINE S == {pull.status} \cup {n \in {topic.status.number} : topic.status.readers # {}}
<1>1. \A x \in S : x \in Nat /\ x <= sent.statuses
  BY Fields DEF HandedInv, Nothing
<1>2. S \in SUBSET Nat /\ S # {} /\ sent.statuses \in Nat
  BY <1>1, Fields
<1>3. FloorOf("publish") = Max(S)
  BY DEF FloorOf, Reads, Views
<1>4. Max(S) \in S
  <2> HIDE DEF S
  <2> QED
    BY <1>1, <1>2, MaxIsGreatest
<1> QED
  BY <1>1, <1>3, <1>4

LEMMA CallFits ==
  ASSUME AllInv, NEW t \in Callers, Call(t)
  PROVE  AllInv'
<1>1. PICK use \in uses, zero \in BOOLEAN, after \in {0, caller[t].got} :
        /\ after # 0 => use = "snapshot"
        /\ use \in Reads \/ ~pull.closed
        /\ caller' = [caller EXCEPT ![t] =
             [AtRest EXCEPT !.pc = FirstPlace(use), !.use = use, !.zero = zero, !.after = after,
                            !.floor = FloorOf(use),
                            !.late = IF use = "snapshot" THEN pull.closed ELSE pull.shut,
                            !.calls = caller[t].calls + 1]]
  BY DEF Call
<1>2. UNCHANGED <<pull, topic, sent, uses>> /\ caller[t].pc = "idle"
  BY DEF Call
<1>3. TypeInv /\ caller \in [Callers -> Calls] /\ caller[t].calls \in Nat /\ use \in Uses
  BY UsesAre DEF AllInv, TypeInv, Calls
<1>4. FloorOf(use) \in Nat
  <2>1. CASE use \in Reads
    BY <2>1, FloorOfReads DEF AllInv, ReadsInv
  <2>2. CASE use = "publish"
    BY <2>2, FloorOfPublish DEF AllInv, StatusInv
  <2>3. CASE use = "await"
    BY <2>3, Fields DEF AllInv, FloorOf, Reads, Views
  <2> QED
    BY <1>3, <2>1, <2>2, <2>3 DEF Uses
<1> DEFINE c == [AtRest EXCEPT !.pc = FirstPlace(use), !.use = use, !.zero = zero, !.after = after,
                            !.floor = FloorOf(use),
                            !.late = IF use = "snapshot" THEN pull.closed ELSE pull.shut,
                            !.calls = caller[t].calls + 1]
<1>5. AtRest \in Calls /\ AtRest.got = 0
  BY DEF AtRest, Calls, Nothing, Frames
<1>6. /\ c \in Calls /\ c.use = use /\ c.after = after /\ c.floor = FloorOf(use) /\ c.got = 0
      /\ c.pc = FirstPlace(use)
      /\ c.late = IF use = "snapshot" THEN pull.closed ELSE pull.shut
  <2>1. FirstPlace(use) \in {"stateLock", "snap", "statusLock"} /\ after \in Nat
    BY <1>3, Fields DEF FirstPlace
  <2>2. pull.closed \in BOOLEAN /\ pull.shut \in BOOLEAN
    BY Fields DEF AllInv
  <2> DEFINE late == IF use = "snapshot" THEN pull.closed ELSE pull.shut
             f == FloorOf(use)
             p == FirstPlace(use)
             n == caller[t].calls + 1
  <2>3. late \in BOOLEAN /\ f \in Nat /\ n \in Nat
    BY <1>3, <1>4, <2>2
  <2> HIDE DEF late, f, p, n
  <2>4. p \in {"idle"} \cup StatePlaces \cup SourcePlaces \cup StatusPlaces
    BY <2>1 DEF p, StatePlaces, SourcePlaces, StatusPlaces
  <2>5. c = [AtRest EXCEPT !.pc = p, !.use = use, !.zero = zero, !.after = after,
                           !.floor = f, !.late = late, !.calls = n]
    BY Zenon DEF late, f, p, n
  <2>6. /\ c \in Calls /\ c.use = use /\ c.after = after /\ c.floor = f /\ c.got = 0
        /\ c.pc = p /\ c.late = late
    <3> HIDE DEF c
    <3> QED
      BY <1>3, <1>5, <2>1, <2>3, <2>4, <2>5 DEF Calls
  <2> QED
    BY <2>6 DEF late, f, p
<1>7. FirstPlace(use) = IF use \in Views THEN "stateLock" ELSE IF use = "snapshot" THEN "snap"
                        ELSE "statusLock"
  BY DEF FirstPlace, Views
<1>8. caller' = [caller EXCEPT ![t] = c]
  BY <1>1
<1> HIDE DEF c
<1>9. /\ caller' \in [Callers -> Calls] /\ caller'[t] = c
      /\ \A u \in Callers : u # t => caller'[u] = caller[u]
  BY <1>3, <1>6, <1>8
<1>10. use \in Reads => FloorOf(use) <= Shown
  BY FloorOfReads DEF AllInv, ReadsInv
<1>11. use = "publish" => /\ FloorOf(use) <= sent.statuses
                         /\ \/ FloorOf(use) = pull.status
                            \/ topic.status.readers # {} /\ FloorOf(use) = topic.status.number
  BY FloorOfPublish DEF AllInv, StatusInv
<1>12. (after # 0 => use = "snapshot") /\ (use \in Reads \/ ~pull.closed)
  BY <1>1
<1>13. uses \subseteq Uses /\ ("snapshot" \in uses => uses \cap Views = {}) /\ use \in uses
  BY <1>1, UsesAre, Fields DEF AllInv
<1>20. TypeInv'
  BY <1>12, <1>13, <1>2, <1>3, <1>6, <1>7, <1>9, <1>10, <1>11, Fields DEF AllInv, ReadsInv, StatusInv, TypeInv, StatePlaces, SourcePlaces, StatusPlaces
<1>21. PlacesInv'
  BY <1>12, <1>13, <1>2, <1>3, <1>6, <1>7, <1>9, <1>10, <1>11, Fields DEF AllInv, ReadsInv, StatusInv, PlacesInv, Reads, Views, Uses, StatePlaces, SourcePlaces, StatusPlaces
<1>22. ShownInv'
  BY <1>12, <1>13, <1>2, <1>3, <1>6, <1>7, <1>9, <1>10, <1>11, Fields DEF AllInv, ReadsInv, StatusInv, ShownInv, Shown, Reads, Views, PlacesInv, StatePlaces, SourcePlaces, StatusPlaces
<1>23. LateInv'
  BY <1>12, <1>13, <1>2, <1>3, <1>6, <1>7, <1>9, <1>10, <1>11, Fields DEF AllInv, ReadsInv, StatusInv, LateInv, Reads, Views, PlacesInv, StatePlaces, SourcePlaces, StatusPlaces
<1>24. StatesGoForward'
  BY <1>12, <1>13, <1>2, <1>3, <1>6, <1>7, <1>9, <1>10, <1>11, Fields DEF AllInv, ReadsInv, StatusInv, StatesGoForward, Shown, Reads, Views, ShownInv, LateInv, PlacesInv, StatePlaces, SourcePlaces, StatusPlaces
<1>25. HandedInv'
  BY <1>12, <1>13, <1>2, <1>3, <1>6, <1>7, <1>9, <1>10, <1>11, Fields DEF AllInv, ReadsInv, StatusInv, HandedInv, PlacesInv, StatePlaces, SourcePlaces, StatusPlaces
<1>26. CountedInv'
  BY <1>12, <1>13, <1>2, <1>3, <1>6, <1>7, <1>9, <1>10, <1>11, Fields DEF AllInv, ReadsInv, StatusInv, CountedInv, Reads, Views, HandedInv, PlacesInv, StatePlaces, SourcePlaces, StatusPlaces
<1>27. PublishSeesArrived'
  BY <1>12, <1>13, <1>2, <1>3, <1>6, <1>7, <1>9, <1>10, <1>11, Fields DEF AllInv, ReadsInv, StatusInv, PublishSeesArrived, CountedInv, HandedInv, PlacesInv, StatePlaces, SourcePlaces, StatusPlaces
<1> QED
  BY <1>20, <1>21, <1>22, <1>23, <1>24, <1>25, <1>26, <1>27 DEF AllInv, ReadsInv, StatusInv

EndsFacts(t, got) ==
  /\ caller' \in [Callers -> Calls] /\ caller'[t].pc = "idle"
  /\ \A u \in Callers : u # t => caller'[u] = caller[u]
  /\ caller'[t].got = got
  /\ got = 0 => /\ caller'[t].use = "none" /\ caller'[t].floor = 0
                /\ caller'[t].late = FALSE /\ caller'[t].after = 0
  /\ got # 0 => /\ caller'[t].use = caller[t].use /\ caller'[t].floor = caller[t].floor
                /\ caller'[t].late = caller[t].late /\ caller'[t].after = caller[t].after

\* A call that ends with nothing, and lets the lock of the states go.
LEMMA EndsEmpty ==
  ASSUME AllInv, NEW t \in Callers, Ends(t, 0), caller[t].pc # "callback",
         pull' = pull \/ (pull' = Released(0) /\ caller[t].pc \in {"receive", "decode", "store"}),
         UNCHANGED <<topic, sent, uses>>
  PROVE  AllInv'
<1>1. /\ pull' \in [latest : Frames, arrays : Nat, native : Nat, snapshot : Nat, status : Nat,
                  known : Nat, stateLock : Callers \cup {NoCaller},
                  statusLock : Callers \cup {NoCaller}, closed : BOOLEAN, shut : BOOLEAN]
      /\ pull'.latest = pull.latest /\ pull'.arrays = pull.arrays /\ pull'.native = pull.native /\ pull'.snapshot = pull.snapshot /\ pull'.status = pull.status /\ pull'.known = pull.known /\ pull'.statusLock = pull.statusLock /\ pull'.closed = pull.closed /\ pull'.shut = pull.shut
      /\ pull'.stateLock = pull.stateLock \/ (pull'.stateLock = NoCaller /\ caller[t].pc \in {"receive", "decode", "store"})
  BY DEF AllInv, TypeInv, Released
<1>2. EndsFacts(t, 0)
  BY EndsOne, Fields DEF AllInv, EndsFacts
<1>3. UNCHANGED <<topic, sent, uses>> /\ caller[t].pc # "callback"
  OBVIOUS
<1>97. TypeInv /\ NoCaller \notin Callers
  BY DEF AllInv
<1>98. uses \subseteq Uses /\ ("snapshot" \in uses => uses \cap Views = {})
  BY UsesAre, Fields DEF AllInv
<1>20. TypeInv'
  BY <1>1, <1>2, <1>3, <1>97, <1>98, Fields DEF EndsFacts, AllInv, ReadsInv, StatusInv, TypeInv, StatePlaces, SourcePlaces, StatusPlaces
<1>21. PlacesInv'
  BY <1>1, <1>2, <1>3, <1>97, <1>98, Fields DEF EndsFacts, AllInv, ReadsInv, StatusInv, PlacesInv, Reads, Views, Uses, StatePlaces, SourcePlaces, StatusPlaces
<1>22. ShownInv'
  BY <1>1, <1>2, <1>3, <1>97, <1>98, Fields DEF EndsFacts, AllInv, ReadsInv, StatusInv, ShownInv, Shown, Reads, Views, PlacesInv, StatePlaces, SourcePlaces, StatusPlaces
<1>23. LateInv'
  BY <1>1, <1>2, <1>3, <1>97, <1>98, Fields DEF EndsFacts, AllInv, ReadsInv, StatusInv, LateInv, Reads, Views, PlacesInv, StatePlaces, SourcePlaces, StatusPlaces
<1>24. StatesGoForward'
  BY <1>1, <1>2, <1>3, <1>97, <1>98, Fields DEF EndsFacts, AllInv, ReadsInv, StatusInv, StatesGoForward, Shown, Reads, Views, ShownInv, LateInv, PlacesInv, StatePlaces, SourcePlaces, StatusPlaces
<1>25. HandedInv'
  BY <1>1, <1>2, <1>3, <1>97, <1>98, Fields DEF EndsFacts, AllInv, ReadsInv, StatusInv, HandedInv, PlacesInv, StatePlaces, SourcePlaces, StatusPlaces
<1>26. CountedInv'
  BY <1>1, <1>2, <1>3, <1>97, <1>98, Fields DEF EndsFacts, AllInv, ReadsInv, StatusInv, CountedInv, Reads, Views, HandedInv, PlacesInv, StatePlaces, SourcePlaces, StatusPlaces
<1>27. PublishSeesArrived'
  BY <1>1, <1>2, <1>3, <1>97, <1>98, Fields DEF EndsFacts, AllInv, ReadsInv, StatusInv, PublishSeesArrived, CountedInv, HandedInv, PlacesInv, StatePlaces, SourcePlaces, StatusPlaces
<1> QED
  BY <1>20, <1>21, <1>22, <1>23, <1>24, <1>25, <1>26, <1>27 DEF EndsFacts, AllInv, ReadsInv, StatusInv

\* A call that ends with the status known.
LEMMA SeenFits ==
  ASSUME AllInv, NEW t \in Callers, caller[t].pc = "look", ~pull.closed, Ends(t, pull.known),
         UNCHANGED <<pull, topic, sent, uses>>
  PROVE  AllInv'
<1>1. UNCHANGED <<pull, topic, sent, uses>> /\ caller[t].pc = "look" /\ ~pull.closed
  OBVIOUS
<1>2. EndsFacts(t, pull.known)
  BY EndsOne, Fields DEF AllInv, EndsFacts
<1>97. TypeInv /\ NoCaller \notin Callers
  BY DEF AllInv
<1>98. uses \subseteq Uses /\ ("snapshot" \in uses => uses \cap Views = {})
  BY UsesAre, Fields DEF AllInv
<1>20. TypeInv'
  BY <1>1, <1>2, <1>97, <1>98, Fields DEF EndsFacts, AllInv, ReadsInv, StatusInv, TypeInv, StatePlaces, SourcePlaces, StatusPlaces
<1>21. PlacesInv'
  BY <1>1, <1>2, <1>97, <1>98, Fields DEF EndsFacts, AllInv, ReadsInv, StatusInv, PlacesInv, Reads, Views, Uses, StatePlaces, SourcePlaces, StatusPlaces
<1>22. ShownInv'
  BY <1>1, <1>2, <1>97, <1>98, Fields DEF EndsFacts, AllInv, ReadsInv, StatusInv, ShownInv, Shown, Reads, Views, PlacesInv, StatePlaces, SourcePlaces, StatusPlaces
<1>23. LateInv'
  BY <1>1, <1>2, <1>97, <1>98, Fields DEF EndsFacts, AllInv, ReadsInv, StatusInv, LateInv, Reads, Views, PlacesInv, StatePlaces, SourcePlaces, StatusPlaces
<1>24. StatesGoForward'
  BY <1>1, <1>2, <1>97, <1>98, Fields DEF EndsFacts, AllInv, ReadsInv, StatusInv, StatesGoForward, Shown, Reads, Views, ShownInv, LateInv, PlacesInv, StatePlaces, SourcePlaces, StatusPlaces
<1>25. HandedInv'
  BY <1>1, <1>2, <1>97, <1>98, Fields DEF EndsFacts, AllInv, ReadsInv, StatusInv, HandedInv, PlacesInv, StatePlaces, SourcePlaces, StatusPlaces
<1>26. CountedInv'
  BY <1>1, <1>2, <1>97, <1>98, Fields DEF EndsFacts, AllInv, ReadsInv, StatusInv, CountedInv, Reads, Views, HandedInv, PlacesInv, StatePlaces, SourcePlaces, StatusPlaces
<1>27. PublishSeesArrived'
  BY <1>1, <1>2, <1>97, <1>98, Fields DEF EndsFacts, AllInv, ReadsInv, StatusInv, PublishSeesArrived, CountedInv, HandedInv, PlacesInv, StatePlaces, SourcePlaces, StatusPlaces
<1> QED
  BY <1>20, <1>21, <1>22, <1>23, <1>24, <1>25, <1>26, <1>27 DEF EndsFacts, AllInv, ReadsInv, StatusInv

\* A call that ends with the snapshot.
LEMMA SnapshotFits ==
  ASSUME AllInv, NEW t \in Callers, caller[t].pc = "snap", ~pull.closed, Fresh(t), Ends(t, pull.snapshot),
         UNCHANGED <<pull, topic, sent, uses>>
  PROVE  AllInv'
<1>1. /\ UNCHANGED <<pull, topic, sent, uses>> /\ caller[t].pc = "snap" /\ ~pull.closed
      /\ pull.snapshot # caller[t].after
  BY DEF Fresh
<1>2. EndsFacts(t, pull.snapshot)
  BY EndsOne, Fields DEF AllInv, EndsFacts
<1>97. TypeInv /\ NoCaller \notin Callers
  BY DEF AllInv
<1>98. uses \subseteq Uses /\ ("snapshot" \in uses => uses \cap Views = {})
  BY UsesAre, Fields DEF AllInv
<1>20. TypeInv'
  BY <1>1, <1>2, <1>97, <1>98, Fields DEF EndsFacts, AllInv, ReadsInv, StatusInv, TypeInv, StatePlaces, SourcePlaces, StatusPlaces
<1>21. PlacesInv'
  BY <1>1, <1>2, <1>97, <1>98, Fields DEF EndsFacts, AllInv, ReadsInv, StatusInv, PlacesInv, Reads, Views, Uses, StatePlaces, SourcePlaces, StatusPlaces
<1>22. ShownInv'
  BY <1>1, <1>2, <1>97, <1>98, Fields DEF EndsFacts, AllInv, ReadsInv, StatusInv, ShownInv, Shown, Reads, Views, PlacesInv, StatePlaces, SourcePlaces, StatusPlaces
<1>23. LateInv'
  BY <1>1, <1>2, <1>97, <1>98, Fields DEF EndsFacts, AllInv, ReadsInv, StatusInv, LateInv, Reads, Views, PlacesInv, StatePlaces, SourcePlaces, StatusPlaces
<1>24. StatesGoForward'
  BY <1>1, <1>2, <1>97, <1>98, Fields DEF EndsFacts, AllInv, ReadsInv, StatusInv, StatesGoForward, Shown, Reads, Views, ShownInv, LateInv, PlacesInv, StatePlaces, SourcePlaces, StatusPlaces
<1>25. HandedInv'
  BY <1>1, <1>2, <1>97, <1>98, Fields DEF EndsFacts, AllInv, ReadsInv, StatusInv, HandedInv, PlacesInv, StatePlaces, SourcePlaces, StatusPlaces
<1>26. CountedInv'
  BY <1>1, <1>2, <1>97, <1>98, Fields DEF EndsFacts, AllInv, ReadsInv, StatusInv, CountedInv, Reads, Views, HandedInv, PlacesInv, StatePlaces, SourcePlaces, StatusPlaces
<1>27. PublishSeesArrived'
  BY <1>1, <1>2, <1>97, <1>98, Fields DEF EndsFacts, AllInv, ReadsInv, StatusInv, PublishSeesArrived, CountedInv, HandedInv, PlacesInv, StatePlaces, SourcePlaces, StatusPlaces
<1> QED
  BY <1>20, <1>21, <1>22, <1>23, <1>24, <1>25, <1>26, <1>27 DEF EndsFacts, AllInv, ReadsInv, StatusInv

\* A call that goes to a place where it holds nothing.
LEMMA MovesFit ==
  ASSUME AllInv, NEW t \in Callers, NEW place \in {"sleep", "statusLock"}, Goes(t, place),
         IF place = "sleep" THEN caller[t].pc = "snap"
         ELSE caller[t].pc = "look" /\ caller[t].use = "await",
         UNCHANGED <<pull, topic, sent, uses>>
  PROVE  AllInv'
<1>1. /\ UNCHANGED <<pull, topic, sent, uses>> /\ place \in {"sleep", "statusLock"}
      /\ IF place = "sleep" THEN caller[t].pc = "snap"
         ELSE caller[t].pc = "look" /\ caller[t].use = "await"
  OBVIOUS
<1>2. Kept(t) /\ caller'[t].pc = place /\ caller'[t].frame = caller[t].frame
  BY GoesOne DEF AllInv, StatePlaces, SourcePlaces, StatusPlaces
<1>97. TypeInv /\ NoCaller \notin Callers
  BY DEF AllInv
<1>98. uses \subseteq Uses /\ ("snapshot" \in uses => uses \cap Views = {})
  BY UsesAre, Fields DEF AllInv
<1>20. TypeInv'
  BY <1>1, <1>2, <1>97, <1>98, Fields DEF Kept, AllInv, ReadsInv, StatusInv, TypeInv, StatePlaces, SourcePlaces, StatusPlaces
<1>21. PlacesInv'
  BY <1>1, <1>2, <1>97, <1>98, Fields DEF Kept, AllInv, ReadsInv, StatusInv, PlacesInv, Reads, Views, Uses, StatePlaces, SourcePlaces, StatusPlaces
<1>22. ShownInv'
  BY <1>1, <1>2, <1>97, <1>98, Fields DEF Kept, AllInv, ReadsInv, StatusInv, ShownInv, Shown, Reads, Views, PlacesInv, StatePlaces, SourcePlaces, StatusPlaces
<1>23. LateInv'
  BY <1>1, <1>2, <1>97, <1>98, Fields DEF Kept, AllInv, ReadsInv, StatusInv, LateInv, Reads, Views, PlacesInv, StatePlaces, SourcePlaces, StatusPlaces
<1>24. StatesGoForward'
  BY <1>1, <1>2, <1>97, <1>98, Fields DEF Kept, AllInv, ReadsInv, StatusInv, StatesGoForward, Shown, Reads, Views, ShownInv, LateInv, PlacesInv, StatePlaces, SourcePlaces, StatusPlaces
<1>25. HandedInv'
  BY <1>1, <1>2, <1>97, <1>98, Fields DEF Kept, AllInv, ReadsInv, StatusInv, HandedInv, PlacesInv, StatePlaces, SourcePlaces, StatusPlaces
<1>26. CountedInv'
  BY <1>1, <1>2, <1>97, <1>98, Fields DEF Kept, AllInv, ReadsInv, StatusInv, CountedInv, Reads, Views, HandedInv, PlacesInv, StatePlaces, SourcePlaces, StatusPlaces
<1>27. PublishSeesArrived'
  BY <1>1, <1>2, <1>97, <1>98, Fields DEF Kept, AllInv, ReadsInv, StatusInv, PublishSeesArrived, CountedInv, HandedInv, PlacesInv, StatePlaces, SourcePlaces, StatusPlaces
<1> QED
  BY <1>20, <1>21, <1>22, <1>23, <1>24, <1>25, <1>26, <1>27 DEF Kept, AllInv, ReadsInv, StatusInv

\* A call that takes the lock of the states, or keeps it, and has a frame, or waits for one.
LEMMA ReceiveFits ==
  ASSUME AllInv, NEW t \in Callers, caller[t].pc \in {"stateLock", "receive"}, ~pull.shut,
         NEW place \in {"receive", "decode"}, NEW f \in {caller[t].frame, topic.state, pull.latest},
         Proceeds(t, [caller[t] EXCEPT !.pc = place, !.frame = f]),
         place = "decode" => f = pull.latest \/ (f = topic.state /\ topic.state # Nothing),
         IF caller[t].pc = "receive" THEN UNCHANGED pull
         ELSE pull.stateLock = NoCaller /\ pull' = [pull EXCEPT !.stateLock = t],
         UNCHANGED topic \/ topic' = [topic EXCEPT !.state = Nothing], UNCHANGED <<sent, uses>>
  PROVE  AllInv'
<1>1. /\ pull' \in [latest : Frames, arrays : Nat, native : Nat, snapshot : Nat, status : Nat,
                  known : Nat, stateLock : Callers \cup {NoCaller},
                  statusLock : Callers \cup {NoCaller}, closed : BOOLEAN, shut : BOOLEAN]
      /\ pull'.latest = pull.latest /\ pull'.arrays = pull.arrays /\ pull'.native = pull.native /\ pull'.snapshot = pull.snapshot /\ pull'.status = pull.status /\ pull'.known = pull.known /\ pull'.statusLock = pull.statusLock /\ pull'.closed = pull.closed /\ pull'.shut = pull.shut
      /\ pull'.stateLock = t
      /\ caller[t].pc = "receive" \/ pull.stateLock = NoCaller
  BY DEF AllInv, TypeInv, ReadsInv, ShownInv
<1>2. f \in Frames
  BY Fields DEF AllInv
<1>3. Kept(t) /\ caller'[t].pc = place /\ caller'[t].frame = f
  BY <1>2, TakesOne DEF AllInv, StatePlaces, SourcePlaces, StatusPlaces
<1>4. /\ topic' \in [state : Frames, status : Frames] /\ topic'.status = topic.status
      /\ topic'.state = topic.state \/ topic'.state = Nothing
  <2>1. Nothing \in Frames
    BY DEF Nothing, Frames
  <2>2. topic \in [state : Frames, status : Frames]
    BY DEF AllInv, TypeInv
  <2>3. CASE UNCHANGED topic
    BY <2>2, <2>3
  <2>4. CASE topic' = [topic EXCEPT !.state = Nothing]
    BY <2>1, <2>2, <2>4
  <2> QED
    BY <2>3, <2>4
<1>5. place = "decode" => f.number <= sent.states /\ pull.latest.number <= f.number
  BY Fields DEF AllInv, ReadsInv, ShownInv
<1>6. /\ caller[t].pc \in {"stateLock", "receive"} /\ ~pull.shut /\ UNCHANGED <<sent, uses>>
      /\ place \in {"receive", "decode"}
  OBVIOUS
<1>97. TypeInv /\ NoCaller \notin Callers
  BY DEF AllInv
<1>98. uses \subseteq Uses /\ ("snapshot" \in uses => uses \cap Views = {})
  BY UsesAre, Fields DEF AllInv
<1>20. TypeInv'
  BY <1>1, <1>2, <1>3, <1>4, <1>5, <1>6, <1>97, <1>98, Fields DEF Kept, AllInv, ReadsInv, StatusInv, TypeInv, StatePlaces, SourcePlaces, StatusPlaces
<1>21. PlacesInv'
  BY <1>1, <1>2, <1>3, <1>4, <1>5, <1>6, <1>97, <1>98, Fields DEF Kept, AllInv, ReadsInv, StatusInv, PlacesInv, Reads, Views, Uses, StatePlaces, SourcePlaces, StatusPlaces
<1>22. ShownInv'
  BY <1>1, <1>2, <1>3, <1>4, <1>5, <1>6, <1>97, <1>98, Fields DEF Kept, AllInv, ReadsInv, StatusInv, ShownInv, Shown, Reads, Views, PlacesInv, StatePlaces, SourcePlaces, StatusPlaces
<1>23. LateInv'
  BY <1>1, <1>2, <1>3, <1>4, <1>5, <1>6, <1>97, <1>98, Fields DEF Kept, AllInv, ReadsInv, StatusInv, LateInv, Reads, Views, PlacesInv, StatePlaces, SourcePlaces, StatusPlaces
<1>24. StatesGoForward'
  BY <1>1, <1>2, <1>3, <1>4, <1>5, <1>6, <1>97, <1>98, Fields DEF Kept, AllInv, ReadsInv, StatusInv, StatesGoForward, Shown, Reads, Views, ShownInv, LateInv, PlacesInv, StatePlaces, SourcePlaces, StatusPlaces
<1>25. HandedInv'
  BY <1>1, <1>2, <1>3, <1>4, <1>5, <1>6, <1>97, <1>98, Fields DEF Kept, AllInv, ReadsInv, StatusInv, HandedInv, PlacesInv, StatePlaces, SourcePlaces, StatusPlaces
<1>26. CountedInv'
  BY <1>1, <1>2, <1>3, <1>4, <1>5, <1>6, <1>97, <1>98, Fields DEF Kept, AllInv, ReadsInv, StatusInv, CountedInv, Reads, Views, HandedInv, PlacesInv, StatePlaces, SourcePlaces, StatusPlaces
<1>27. PublishSeesArrived'
  BY <1>1, <1>2, <1>3, <1>4, <1>5, <1>6, <1>97, <1>98, Fields DEF Kept, AllInv, ReadsInv, StatusInv, PublishSeesArrived, CountedInv, HandedInv, PlacesInv, StatePlaces, SourcePlaces, StatusPlaces
<1> QED
  BY <1>20, <1>21, <1>22, <1>23, <1>24, <1>25, <1>26, <1>27 DEF AllInv, ReadsInv, StatusInv

\* A view that was kept.
LEMMA KeptFits ==
  ASSUME AllInv, NEW t \in Callers, caller[t].pc = "decode", pull.latest.number # 0, Ends(t, pull.latest.number),
         pull' = Released(pull.latest.number), UNCHANGED <<topic, sent, uses>>
  PROVE  AllInv'
<1>1. /\ pull' \in [latest : Frames, arrays : Nat, native : Nat, snapshot : Nat, status : Nat,
                  known : Nat, stateLock : Callers \cup {NoCaller},
                  statusLock : Callers \cup {NoCaller}, closed : BOOLEAN, shut : BOOLEAN]
      /\ pull'.latest = pull.latest /\ pull'.arrays = pull.arrays /\ pull'.native = pull.native /\ pull'.snapshot = pull.snapshot /\ pull'.status = pull.status /\ pull'.known = pull.known /\ pull'.statusLock = pull.statusLock /\ pull'.closed = pull.closed /\ pull'.shut = pull.shut
      /\ pull'.stateLock = NoCaller
  BY DEF AllInv, TypeInv, Released
<1>2. EndsFacts(t, pull.latest.number)
  BY EndsOne, Fields DEF AllInv, EndsFacts
<1>3. UNCHANGED <<topic, sent, uses>> /\ caller[t].pc = "decode" /\ pull.latest.number # 0
  OBVIOUS
<1>97. TypeInv /\ NoCaller \notin Callers
  BY DEF AllInv
<1>98. uses \subseteq Uses /\ ("snapshot" \in uses => uses \cap Views = {})
  BY UsesAre, Fields DEF AllInv
<1>20. TypeInv'
  BY <1>1, <1>2, <1>3, <1>97, <1>98, Fields DEF EndsFacts, AllInv, ReadsInv, StatusInv, TypeInv, StatePlaces, SourcePlaces, StatusPlaces
<1>21. PlacesInv'
  BY <1>1, <1>2, <1>3, <1>97, <1>98, Fields DEF EndsFacts, AllInv, ReadsInv, StatusInv, PlacesInv, Reads, Views, Uses, StatePlaces, SourcePlaces, StatusPlaces
<1>22. ShownInv'
  BY <1>1, <1>2, <1>3, <1>97, <1>98, Fields DEF EndsFacts, AllInv, ReadsInv, StatusInv, ShownInv, Shown, Reads, Views, PlacesInv, StatePlaces, SourcePlaces, StatusPlaces
<1>23. LateInv'
  BY <1>1, <1>2, <1>3, <1>97, <1>98, Fields DEF EndsFacts, AllInv, ReadsInv, StatusInv, LateInv, Reads, Views, PlacesInv, StatePlaces, SourcePlaces, StatusPlaces
<1>24. StatesGoForward'
  BY <1>1, <1>2, <1>3, <1>97, <1>98, Fields DEF EndsFacts, AllInv, ReadsInv, StatusInv, StatesGoForward, Shown, Reads, Views, ShownInv, LateInv, PlacesInv, StatePlaces, SourcePlaces, StatusPlaces
<1>25. HandedInv'
  BY <1>1, <1>2, <1>3, <1>97, <1>98, Fields DEF EndsFacts, AllInv, ReadsInv, StatusInv, HandedInv, PlacesInv, StatePlaces, SourcePlaces, StatusPlaces
<1>26. CountedInv'
  BY <1>1, <1>2, <1>3, <1>97, <1>98, Fields DEF EndsFacts, AllInv, ReadsInv, StatusInv, CountedInv, Reads, Views, HandedInv, PlacesInv, StatePlaces, SourcePlaces, StatusPlaces
<1>27. PublishSeesArrived'
  BY <1>1, <1>2, <1>3, <1>97, <1>98, Fields DEF EndsFacts, AllInv, ReadsInv, StatusInv, PublishSeesArrived, CountedInv, HandedInv, PlacesInv, StatePlaces, SourcePlaces, StatusPlaces
<1> QED
  BY <1>20, <1>21, <1>22, <1>23, <1>24, <1>25, <1>26, <1>27 DEF AllInv, ReadsInv, StatusInv

\* A frame that is decoded.
LEMMA DecodedFits ==
  ASSUME AllInv, NEW t \in Callers, caller[t].pc = "decode", Goes(t, "store"), UNCHANGED <<pull, topic, sent, uses>>
  PROVE  AllInv'
<1>1. UNCHANGED <<pull, topic, sent, uses>> /\ caller[t].pc = "decode"
  OBVIOUS
<1>2. Kept(t) /\ caller'[t].pc = "store" /\ caller'[t].frame = caller[t].frame
  BY GoesOne DEF AllInv, StatePlaces, SourcePlaces, StatusPlaces
<1>97. TypeInv /\ NoCaller \notin Callers
  BY DEF AllInv
<1>98. uses \subseteq Uses /\ ("snapshot" \in uses => uses \cap Views = {})
  BY UsesAre, Fields DEF AllInv
<1>20. TypeInv'
  BY <1>1, <1>2, <1>97, <1>98, Fields DEF Kept, AllInv, ReadsInv, StatusInv, TypeInv, StatePlaces, SourcePlaces, StatusPlaces
<1>21. PlacesInv'
  BY <1>1, <1>2, <1>97, <1>98, Fields DEF Kept, AllInv, ReadsInv, StatusInv, PlacesInv, Reads, Views, Uses, StatePlaces, SourcePlaces, StatusPlaces
<1>22. ShownInv'
  BY <1>1, <1>2, <1>97, <1>98, Fields DEF Kept, AllInv, ReadsInv, StatusInv, ShownInv, Shown, Reads, Views, PlacesInv, StatePlaces, SourcePlaces, StatusPlaces
<1>23. LateInv'
  BY <1>1, <1>2, <1>97, <1>98, Fields DEF Kept, AllInv, ReadsInv, StatusInv, LateInv, Reads, Views, PlacesInv, StatePlaces, SourcePlaces, StatusPlaces
<1>24. StatesGoForward'
  BY <1>1, <1>2, <1>97, <1>98, Fields DEF Kept, AllInv, ReadsInv, StatusInv, StatesGoForward, Shown, Reads, Views, ShownInv, LateInv, PlacesInv, StatePlaces, SourcePlaces, StatusPlaces
<1>25. HandedInv'
  BY <1>1, <1>2, <1>97, <1>98, Fields DEF Kept, AllInv, ReadsInv, StatusInv, HandedInv, PlacesInv, StatePlaces, SourcePlaces, StatusPlaces
<1>26. CountedInv'
  BY <1>1, <1>2, <1>97, <1>98, Fields DEF Kept, AllInv, ReadsInv, StatusInv, CountedInv, Reads, Views, HandedInv, PlacesInv, StatePlaces, SourcePlaces, StatusPlaces
<1>27. PublishSeesArrived'
  BY <1>1, <1>2, <1>97, <1>98, Fields DEF Kept, AllInv, ReadsInv, StatusInv, PublishSeesArrived, CountedInv, HandedInv, PlacesInv, StatePlaces, SourcePlaces, StatusPlaces
<1> QED
  BY <1>20, <1>21, <1>22, <1>23, <1>24, <1>25, <1>26, <1>27 DEF AllInv, ReadsInv, StatusInv

LEMMA StoreFits ==
  ASSUME AllInv, NEW t \in Callers, Store(t)
  PROVE  AllInv'
<1>1. /\ caller[t].pc = "store" /\ UNCHANGED <<topic, sent, uses>>
      /\ pull' = Viewed(caller[t].use, caller[t].frame)
  BY DEF Store
<1>2. EndsFacts(t, caller[t].frame.number)
  BY EndsOne, Fields DEF AllInv, EndsFacts, Store
<1>3. /\ pull' \in [latest : Frames, arrays : Nat, native : Nat, snapshot : Nat, status : Nat,
                  known : Nat, stateLock : Callers \cup {NoCaller},
                  statusLock : Callers \cup {NoCaller}, closed : BOOLEAN, shut : BOOLEAN]
      /\ pull'.latest = caller[t].frame /\ pull'.stateLock = NoCaller
      /\ pull'.snapshot = pull.snapshot /\ pull'.status = pull.status /\ pull'.known = pull.known
      /\ pull'.statusLock = pull.statusLock /\ pull'.closed = pull.closed /\ pull'.shut = pull.shut
      /\ pull'.arrays \in {0, caller[t].frame.number}
      /\ pull'.native \in {0, caller[t].frame.number}
  <2> DEFINE f == caller[t].frame
             a == IF caller[t].use = "arrays" THEN f.number ELSE IF f = pull.latest THEN pull.arrays ELSE 0
             n == IF caller[t].use = "native" THEN f.number ELSE IF f = pull.latest THEN pull.native ELSE 0
  <2>1. f \in Frames /\ f.number \in Nat
    BY Fields DEF AllInv
  <2>2. a \in Nat /\ a \in {0, f.number} /\ n \in Nat /\ n \in {0, f.number}
    BY <2>1, Fields DEF AllInv, ReadsInv, ShownInv
  <2>3. pull' = [pull EXCEPT !.latest = f, !.stateLock = NoCaller, !.arrays = a, !.native = n]
    BY <1>1, Zenon DEF Viewed
  <2> HIDE DEF a, n
  <2>4. pull \in [latest : Frames, arrays : Nat, native : Nat, snapshot : Nat, status : Nat,
                  known : Nat, stateLock : Callers \cup {NoCaller},
                  statusLock : Callers \cup {NoCaller}, closed : BOOLEAN, shut : BOOLEAN]
    BY DEF AllInv, TypeInv
  <2> HIDE DEF f
  <2>5. f = caller[t].frame
    BY DEF f
  <2> QED
    BY <2>1, <2>2, <2>3, <2>4, <2>5
<1>97. TypeInv /\ NoCaller \notin Callers
  BY DEF AllInv
<1>98. uses \subseteq Uses /\ ("snapshot" \in uses => uses \cap Views = {})
  BY UsesAre, Fields DEF AllInv
<1>20. TypeInv'
  BY <1>1, <1>2, <1>3, <1>97, <1>98, Fields DEF EndsFacts, AllInv, ReadsInv, StatusInv, TypeInv, StatePlaces, SourcePlaces, StatusPlaces
<1>21. PlacesInv'
  BY <1>1, <1>2, <1>3, <1>97, <1>98, Fields DEF EndsFacts, AllInv, ReadsInv, StatusInv, PlacesInv, Reads, Views, Uses, StatePlaces, SourcePlaces, StatusPlaces
<1>22. ShownInv'
  BY <1>1, <1>2, <1>3, <1>97, <1>98, Fields DEF EndsFacts, AllInv, ReadsInv, StatusInv, ShownInv, Shown, Reads, Views, PlacesInv, StatePlaces, SourcePlaces, StatusPlaces
<1>23. LateInv'
  BY <1>1, <1>2, <1>3, <1>97, <1>98, Fields DEF EndsFacts, AllInv, ReadsInv, StatusInv, LateInv, Reads, Views, PlacesInv, StatePlaces, SourcePlaces, StatusPlaces
<1>24. StatesGoForward'
  BY <1>1, <1>2, <1>3, <1>97, <1>98, Fields DEF EndsFacts, AllInv, ReadsInv, StatusInv, StatesGoForward, Shown, Reads, Views, ShownInv, LateInv, PlacesInv, StatePlaces, SourcePlaces, StatusPlaces
<1>25. HandedInv'
  BY <1>1, <1>2, <1>3, <1>97, <1>98, Fields DEF EndsFacts, AllInv, ReadsInv, StatusInv, HandedInv, PlacesInv, StatePlaces, SourcePlaces, StatusPlaces
<1>26. CountedInv'
  BY <1>1, <1>2, <1>3, <1>97, <1>98, Fields DEF EndsFacts, AllInv, ReadsInv, StatusInv, CountedInv, Reads, Views, HandedInv, PlacesInv, StatePlaces, SourcePlaces, StatusPlaces
<1>27. PublishSeesArrived'
  BY <1>1, <1>2, <1>3, <1>97, <1>98, Fields DEF EndsFacts, AllInv, ReadsInv, StatusInv, PublishSeesArrived, CountedInv, HandedInv, PlacesInv, StatePlaces, SourcePlaces, StatusPlaces
<1> QED
  BY <1>20, <1>21, <1>22, <1>23, <1>24, <1>25, <1>26, <1>27 DEF AllInv, ReadsInv, StatusInv

\* A status that is received, with the lock held for its callbacks.
LEMMA PolledFits ==
  ASSUME AllInv, NEW t \in Callers, caller[t].pc = "statusLock", StatusFree, topic.status.readers # {},
         Proceeds(t, [caller[t] EXCEPT !.pc = "callback", !.frame = topic.status]),
         pull' = [pull EXCEPT !.statusLock = t, !.status = topic.status.number],
         topic' = [topic EXCEPT !.status = Nothing], UNCHANGED <<sent, uses>>
  PROVE  AllInv'
<1>1. /\ pull' \in [latest : Frames, arrays : Nat, native : Nat, snapshot : Nat, status : Nat,
                  known : Nat, stateLock : Callers \cup {NoCaller},
                  statusLock : Callers \cup {NoCaller}, closed : BOOLEAN, shut : BOOLEAN]
      /\ pull'.latest = pull.latest /\ pull'.arrays = pull.arrays /\ pull'.native = pull.native /\ pull'.snapshot = pull.snapshot /\ pull'.known = pull.known /\ pull'.stateLock = pull.stateLock /\ pull'.closed = pull.closed /\ pull'.shut = pull.shut
      /\ pull'.statusLock = t /\ pull'.status = topic.status.number
  BY Fields DEF AllInv, TypeInv
<1>2. Kept(t) /\ caller'[t].pc = "callback" /\ caller'[t].frame = topic.status
  BY TakesOne, Fields DEF AllInv, StatePlaces, SourcePlaces, StatusPlaces
<1>3. /\ topic' \in [state : Frames, status : Frames] /\ topic'.state = topic.state
      /\ topic'.status = Nothing /\ Nothing.readers = {} /\ Nothing.number = 0 /\ topic.status # Nothing
  BY DEF AllInv, TypeInv, Nothing, Frames
<1>4. /\ caller[t].pc = "statusLock" /\ pull.statusLock = NoCaller /\ topic.status.readers # {}
      /\ UNCHANGED <<sent, uses>>
  BY DEF StatusFree
<1>97. TypeInv /\ NoCaller \notin Callers
  BY DEF AllInv
<1>98. uses \subseteq Uses /\ ("snapshot" \in uses => uses \cap Views = {})
  BY UsesAre, Fields DEF AllInv
<1>20. TypeInv'
  BY <1>1, <1>2, <1>3, <1>4, <1>97, <1>98, Fields DEF Kept, AllInv, ReadsInv, StatusInv, TypeInv, StatePlaces, SourcePlaces, StatusPlaces
<1>21. PlacesInv'
  BY <1>1, <1>2, <1>3, <1>4, <1>97, <1>98, Fields DEF Kept, AllInv, ReadsInv, StatusInv, PlacesInv, Reads, Views, Uses, StatePlaces, SourcePlaces, StatusPlaces
<1>22. ShownInv'
  BY <1>1, <1>2, <1>3, <1>4, <1>97, <1>98, Fields DEF Kept, AllInv, ReadsInv, StatusInv, ShownInv, Shown, Reads, Views, PlacesInv, StatePlaces, SourcePlaces, StatusPlaces
<1>23. LateInv'
  BY <1>1, <1>2, <1>3, <1>4, <1>97, <1>98, Fields DEF Kept, AllInv, ReadsInv, StatusInv, LateInv, Reads, Views, PlacesInv, StatePlaces, SourcePlaces, StatusPlaces
<1>24. StatesGoForward'
  BY <1>1, <1>2, <1>3, <1>4, <1>97, <1>98, Fields DEF Kept, AllInv, ReadsInv, StatusInv, StatesGoForward, Shown, Reads, Views, ShownInv, LateInv, PlacesInv, StatePlaces, SourcePlaces, StatusPlaces
<1>25. HandedInv'
  BY <1>1, <1>2, <1>3, <1>4, <1>97, <1>98, Fields DEF Kept, AllInv, ReadsInv, StatusInv, HandedInv, PlacesInv, StatePlaces, SourcePlaces, StatusPlaces
<1>26. CountedInv'
  BY <1>1, <1>2, <1>3, <1>4, <1>97, <1>98, Fields DEF Kept, AllInv, ReadsInv, StatusInv, CountedInv, Reads, Views, HandedInv, PlacesInv, StatePlaces, SourcePlaces, StatusPlaces
<1>27. PublishSeesArrived'
  BY <1>1, <1>2, <1>3, <1>4, <1>97, <1>98, Fields DEF Kept, AllInv, ReadsInv, StatusInv, PublishSeesArrived, CountedInv, HandedInv, PlacesInv, StatePlaces, SourcePlaces, StatusPlaces
<1> QED
  BY <1>20, <1>21, <1>22, <1>23, <1>24, <1>25, <1>26, <1>27 DEF AllInv, ReadsInv, StatusInv

\* No status, or one that is not understood.
LEMMA UnpolledFits ==
  ASSUME AllInv, NEW t \in Callers, caller[t].pc = "statusLock", StatusFree, topic.status.readers = {}, Goes(t, "look"),
         topic' = [topic EXCEPT !.status = Nothing], UNCHANGED <<pull, sent, uses>>
  PROVE  AllInv'
<1>2. Kept(t) /\ caller'[t].pc = "look" /\ caller'[t].frame = caller[t].frame
  BY GoesOne DEF AllInv, StatePlaces, SourcePlaces, StatusPlaces
<1>3. /\ topic' \in [state : Frames, status : Frames] /\ topic'.state = topic.state
      /\ topic'.status = Nothing /\ Nothing.readers = {} /\ Nothing.number = 0
  BY DEF AllInv, TypeInv, Nothing, Frames
<1>4. /\ caller[t].pc = "statusLock" /\ pull.statusLock = NoCaller /\ topic.status.readers = {}
      /\ UNCHANGED <<pull, sent, uses>>
  BY DEF StatusFree
<1>97. TypeInv /\ NoCaller \notin Callers
  BY DEF AllInv
<1>98. uses \subseteq Uses /\ ("snapshot" \in uses => uses \cap Views = {})
  BY UsesAre, Fields DEF AllInv
<1>20. TypeInv'
  BY <1>2, <1>3, <1>4, <1>97, <1>98, Fields DEF Kept, AllInv, ReadsInv, StatusInv, TypeInv, StatePlaces, SourcePlaces, StatusPlaces
<1>21. PlacesInv'
  BY <1>2, <1>3, <1>4, <1>97, <1>98, Fields DEF Kept, AllInv, ReadsInv, StatusInv, PlacesInv, Reads, Views, Uses, StatePlaces, SourcePlaces, StatusPlaces
<1>22. ShownInv'
  BY <1>2, <1>3, <1>4, <1>97, <1>98, Fields DEF Kept, AllInv, ReadsInv, StatusInv, ShownInv, Shown, Reads, Views, PlacesInv, StatePlaces, SourcePlaces, StatusPlaces
<1>23. LateInv'
  BY <1>2, <1>3, <1>4, <1>97, <1>98, Fields DEF Kept, AllInv, ReadsInv, StatusInv, LateInv, Reads, Views, PlacesInv, StatePlaces, SourcePlaces, StatusPlaces
<1>24. StatesGoForward'
  BY <1>2, <1>3, <1>4, <1>97, <1>98, Fields DEF Kept, AllInv, ReadsInv, StatusInv, StatesGoForward, Shown, Reads, Views, ShownInv, LateInv, PlacesInv, StatePlaces, SourcePlaces, StatusPlaces
<1>25. HandedInv'
  BY <1>2, <1>3, <1>4, <1>97, <1>98, Fields DEF Kept, AllInv, ReadsInv, StatusInv, HandedInv, PlacesInv, StatePlaces, SourcePlaces, StatusPlaces
<1>26. CountedInv'
  BY <1>2, <1>3, <1>4, <1>97, <1>98, Fields DEF Kept, AllInv, ReadsInv, StatusInv, CountedInv, Reads, Views, HandedInv, PlacesInv, StatePlaces, SourcePlaces, StatusPlaces
<1>27. PublishSeesArrived'
  BY <1>2, <1>3, <1>4, <1>97, <1>98, Fields DEF Kept, AllInv, ReadsInv, StatusInv, PublishSeesArrived, CountedInv, HandedInv, PlacesInv, StatePlaces, SourcePlaces, StatusPlaces
<1> QED
  BY <1>20, <1>21, <1>22, <1>23, <1>24, <1>25, <1>26, <1>27 DEF AllInv, ReadsInv, StatusInv

LEMMA CallbackFits ==
  ASSUME AllInv, NEW t \in Callers, Callback(t)
  PROVE  AllInv'
<1>2. Kept(t) /\ caller'[t].pc = "look" /\ caller'[t].frame = Nothing
  <2>1. Nothing \in Frames
    BY DEF Nothing, Frames
  <2> QED
    BY <2>1, TakesOne DEF AllInv, StatePlaces, SourcePlaces, StatusPlaces, Callback
<1>3. caller[t].pc = "callback" /\ UNCHANGED <<topic, sent, uses>>
  BY DEF Callback
<1>4. caller[t].frame.number = pull.status /\ pull.statusLock = t
  BY <1>3 DEF AllInv, StatusInv, HandedInv
<1>1. /\ pull' \in [latest : Frames, arrays : Nat, native : Nat, snapshot : Nat, status : Nat,
                  known : Nat, stateLock : Callers \cup {NoCaller},
                  statusLock : Callers \cup {NoCaller}, closed : BOOLEAN, shut : BOOLEAN]
      /\ pull'.latest = pull.latest /\ pull'.arrays = pull.arrays /\ pull'.native = pull.native /\ pull'.snapshot = pull.snapshot /\ pull'.status = pull.status /\ pull'.stateLock = pull.stateLock /\ pull'.closed = pull.closed /\ pull'.shut = pull.shut
      /\ pull'.statusLock = NoCaller
      /\ pull'.known = IF pull.closed THEN pull.known ELSE pull.status
  <2> DEFINE k == IF pull.closed \/ caller[t].frame.number <= pull.known THEN pull.known
                  ELSE caller[t].frame.number
  <2>1. k \in Nat /\ k = IF pull.closed THEN pull.known ELSE pull.status
    BY <1>4, Fields DEF AllInv, StatusInv, HandedInv
  <2>2. pull' = [pull EXCEPT !.statusLock = NoCaller, !.known = k]
    BY Zenon DEF Callback
  <2> HIDE DEF k
  <2> QED
    BY <2>1, <2>2 DEF AllInv, TypeInv
<1>97. TypeInv /\ NoCaller \notin Callers
  BY DEF AllInv
<1>98. uses \subseteq Uses /\ ("snapshot" \in uses => uses \cap Views = {})
  BY UsesAre, Fields DEF AllInv
<1>20. TypeInv'
  BY <1>1, <1>2, <1>3, <1>4, <1>97, <1>98, Fields DEF Kept, AllInv, ReadsInv, StatusInv, TypeInv, StatePlaces, SourcePlaces, StatusPlaces
<1>21. PlacesInv'
  BY <1>1, <1>2, <1>3, <1>4, <1>97, <1>98, Fields DEF Kept, AllInv, ReadsInv, StatusInv, PlacesInv, Reads, Views, Uses, StatePlaces, SourcePlaces, StatusPlaces
<1>22. ShownInv'
  BY <1>1, <1>2, <1>3, <1>4, <1>97, <1>98, Fields DEF Kept, AllInv, ReadsInv, StatusInv, ShownInv, Shown, Reads, Views, PlacesInv, StatePlaces, SourcePlaces, StatusPlaces
<1>23. LateInv'
  BY <1>1, <1>2, <1>3, <1>4, <1>97, <1>98, Fields DEF Kept, AllInv, ReadsInv, StatusInv, LateInv, Reads, Views, PlacesInv, StatePlaces, SourcePlaces, StatusPlaces
<1>24. StatesGoForward'
  BY <1>1, <1>2, <1>3, <1>4, <1>97, <1>98, Fields DEF Kept, AllInv, ReadsInv, StatusInv, StatesGoForward, Shown, Reads, Views, ShownInv, LateInv, PlacesInv, StatePlaces, SourcePlaces, StatusPlaces
<1>25. HandedInv'
  BY <1>1, <1>2, <1>3, <1>4, <1>97, <1>98, Fields DEF Kept, AllInv, ReadsInv, StatusInv, HandedInv, PlacesInv, StatePlaces, SourcePlaces, StatusPlaces
<1>26. CountedInv'
  BY <1>1, <1>2, <1>3, <1>4, <1>97, <1>98, Fields DEF Kept, AllInv, ReadsInv, StatusInv, CountedInv, Reads, Views, HandedInv, PlacesInv, StatePlaces, SourcePlaces, StatusPlaces
<1>27. PublishSeesArrived'
  BY <1>1, <1>2, <1>3, <1>4, <1>97, <1>98, Fields DEF Kept, AllInv, ReadsInv, StatusInv, PublishSeesArrived, CountedInv, HandedInv, PlacesInv, StatePlaces, SourcePlaces, StatusPlaces
<1> QED
  BY <1>20, <1>21, <1>22, <1>23, <1>24, <1>25, <1>26, <1>27 DEF AllInv, ReadsInv, StatusInv

WokenFacts ==
  \A t \in Callers :
    /\ caller'[t].use = caller[t].use /\ caller'[t].floor = caller[t].floor
    /\ caller'[t].late = caller[t].late /\ caller'[t].after = caller[t].after
    /\ caller'[t].got = caller[t].got /\ caller'[t].frame = caller[t].frame
    /\ caller'[t].pc = caller[t].pc \/ (caller[t].pc = "sleep" /\ caller'[t].pc = "snap")

\* A source is brought the newest state.
LEMMA DeliverFits ==
  ASSUME AllInv, Deliver
  PROVE  AllInv'
<1>1. "snapshot" \in uses /\ UNCHANGED <<sent, uses>> /\ topic.state # Nothing
  BY DEF Deliver
<1>3. /\ topic' \in [state : Frames, status : Frames] /\ topic'.status = topic.status
      /\ topic'.state = Nothing
  BY DEF AllInv, TypeInv, Nothing, Frames, Deliver
<1>4. /\ pull' \in [latest : Frames, arrays : Nat, native : Nat, snapshot : Nat, status : Nat,
                  known : Nat, stateLock : Callers \cup {NoCaller},
                  statusLock : Callers \cup {NoCaller}, closed : BOOLEAN, shut : BOOLEAN]
      /\ pull'.latest = pull.latest /\ pull'.arrays = pull.arrays /\ pull'.native = pull.native /\ pull'.status = pull.status /\ pull'.known = pull.known /\ pull'.stateLock = pull.stateLock /\ pull'.statusLock = pull.statusLock /\ pull'.closed = pull.closed /\ pull'.shut = pull.shut
      /\ pull'.snapshot \in {pull.snapshot, topic.state.number} /\ pull.snapshot <= pull'.snapshot
  BY <1>1, Fields DEF AllInv, TypeInv, ReadsInv, ShownInv, Deliver
<1>2. caller' \in [Callers -> Calls] /\ WokenFacts
  BY WokenAll DEF AllInv, WokenFacts, Deliver
<1>97. TypeInv /\ NoCaller \notin Callers
  BY DEF AllInv
<1>98. uses \subseteq Uses /\ ("snapshot" \in uses => uses \cap Views = {})
  BY UsesAre, Fields DEF AllInv
<1>20. TypeInv'
  BY <1>1, <1>2, <1>3, <1>4, <1>97, <1>98, Fields DEF WokenFacts, AllInv, ReadsInv, StatusInv, TypeInv, StatePlaces, SourcePlaces, StatusPlaces
<1>21. PlacesInv'
  BY <1>1, <1>2, <1>3, <1>4, <1>97, <1>98, Fields DEF WokenFacts, AllInv, ReadsInv, StatusInv, PlacesInv, Reads, Views, Uses, StatePlaces, SourcePlaces, StatusPlaces
<1>22. ShownInv'
  BY <1>1, <1>2, <1>3, <1>4, <1>97, <1>98, Fields DEF WokenFacts, AllInv, ReadsInv, StatusInv, ShownInv, Shown, Reads, Views, PlacesInv, StatePlaces, SourcePlaces, StatusPlaces
<1>23. LateInv'
  BY <1>1, <1>2, <1>3, <1>4, <1>97, <1>98, Fields DEF WokenFacts, AllInv, ReadsInv, StatusInv, LateInv, Reads, Views, PlacesInv, StatePlaces, SourcePlaces, StatusPlaces
<1>24. StatesGoForward'
  BY <1>1, <1>2, <1>3, <1>4, <1>97, <1>98, Fields DEF WokenFacts, AllInv, ReadsInv, StatusInv, StatesGoForward, Shown, Reads, Views, ShownInv, LateInv, PlacesInv, StatePlaces, SourcePlaces, StatusPlaces
<1>25. HandedInv'
  BY <1>1, <1>2, <1>3, <1>4, <1>97, <1>98, Fields DEF WokenFacts, AllInv, ReadsInv, StatusInv, HandedInv, PlacesInv, StatePlaces, SourcePlaces, StatusPlaces
<1>26. CountedInv'
  BY <1>1, <1>2, <1>3, <1>4, <1>97, <1>98, Fields DEF WokenFacts, AllInv, ReadsInv, StatusInv, CountedInv, Reads, Views, HandedInv, PlacesInv, StatePlaces, SourcePlaces, StatusPlaces
<1>27. PublishSeesArrived'
  BY <1>1, <1>2, <1>3, <1>4, <1>97, <1>98, Fields DEF WokenFacts, AllInv, ReadsInv, StatusInv, PublishSeesArrived, CountedInv, HandedInv, PlacesInv, StatePlaces, SourcePlaces, StatusPlaces
<1> QED
  BY <1>20, <1>21, <1>22, <1>23, <1>24, <1>25, <1>26, <1>27 DEF AllInv, ReadsInv, StatusInv

\* The controller or the source is closed.
LEMMA CloseControllerFits ==
  ASSUME AllInv, CloseController
  PROVE  AllInv'
<1>1. ~pull.closed /\ UNCHANGED <<topic, sent, uses>>
  BY DEF CloseController
<1>2. caller' \in [Callers -> Calls] /\ WokenFacts
  BY WokenAll DEF AllInv, WokenFacts, CloseController
<1>3. /\ pull' \in [latest : Frames, arrays : Nat, native : Nat, snapshot : Nat, status : Nat,
                  known : Nat, stateLock : Callers \cup {NoCaller},
                  statusLock : Callers \cup {NoCaller}, closed : BOOLEAN, shut : BOOLEAN]
      /\ pull'.latest = pull.latest /\ pull'.arrays = pull.arrays /\ pull'.native = pull.native /\ pull'.snapshot = pull.snapshot /\ pull'.status = pull.status /\ pull'.known = pull.known /\ pull'.stateLock = pull.stateLock /\ pull'.statusLock = pull.statusLock /\ pull'.shut = pull.shut
      /\ pull'.closed = TRUE
  BY DEF AllInv, TypeInv, CloseController
<1>97. TypeInv /\ NoCaller \notin Callers
  BY DEF AllInv
<1>98. uses \subseteq Uses /\ ("snapshot" \in uses => uses \cap Views = {})
  BY UsesAre, Fields DEF AllInv
<1>20. TypeInv'
  BY <1>1, <1>2, <1>3, <1>97, <1>98, Fields DEF WokenFacts, AllInv, ReadsInv, StatusInv, TypeInv, StatePlaces, SourcePlaces, StatusPlaces
<1>21. PlacesInv'
  BY <1>1, <1>2, <1>3, <1>97, <1>98, Fields DEF WokenFacts, AllInv, ReadsInv, StatusInv, PlacesInv, Reads, Views, Uses, StatePlaces, SourcePlaces, StatusPlaces
<1>22. ShownInv'
  BY <1>1, <1>2, <1>3, <1>97, <1>98, Fields DEF WokenFacts, AllInv, ReadsInv, StatusInv, ShownInv, Shown, Reads, Views, PlacesInv, StatePlaces, SourcePlaces, StatusPlaces
<1>23. LateInv'
  BY <1>1, <1>2, <1>3, <1>97, <1>98, Fields DEF WokenFacts, AllInv, ReadsInv, StatusInv, LateInv, Reads, Views, PlacesInv, StatePlaces, SourcePlaces, StatusPlaces
<1>24. StatesGoForward'
  BY <1>1, <1>2, <1>3, <1>97, <1>98, Fields DEF WokenFacts, AllInv, ReadsInv, StatusInv, StatesGoForward, Shown, Reads, Views, ShownInv, LateInv, PlacesInv, StatePlaces, SourcePlaces, StatusPlaces
<1>25. HandedInv'
  BY <1>1, <1>2, <1>3, <1>97, <1>98, Fields DEF WokenFacts, AllInv, ReadsInv, StatusInv, HandedInv, PlacesInv, StatePlaces, SourcePlaces, StatusPlaces
<1>26. CountedInv'
  BY <1>1, <1>2, <1>3, <1>97, <1>98, Fields DEF WokenFacts, AllInv, ReadsInv, StatusInv, CountedInv, Reads, Views, HandedInv, PlacesInv, StatePlaces, SourcePlaces, StatusPlaces
<1>27. PublishSeesArrived'
  BY <1>1, <1>2, <1>3, <1>97, <1>98, Fields DEF WokenFacts, AllInv, ReadsInv, StatusInv, PublishSeesArrived, CountedInv, HandedInv, PlacesInv, StatePlaces, SourcePlaces, StatusPlaces
<1> QED
  BY <1>20, <1>21, <1>22, <1>23, <1>24, <1>25, <1>26, <1>27 DEF AllInv, ReadsInv, StatusInv

\* The transport is closed.
LEMMA CloseTransportFits ==
  ASSUME AllInv, CloseTransport
  PROVE  AllInv'
<1>1. ~pull.shut /\ UNCHANGED <<topic, sent, uses, caller>>
  BY DEF CloseTransport
<1>3. /\ pull' \in [latest : Frames, arrays : Nat, native : Nat, snapshot : Nat, status : Nat,
                  known : Nat, stateLock : Callers \cup {NoCaller},
                  statusLock : Callers \cup {NoCaller}, closed : BOOLEAN, shut : BOOLEAN]
      /\ pull'.latest = pull.latest /\ pull'.arrays = pull.arrays /\ pull'.native = pull.native /\ pull'.snapshot = pull.snapshot /\ pull'.status = pull.status /\ pull'.known = pull.known /\ pull'.stateLock = pull.stateLock /\ pull'.statusLock = pull.statusLock /\ pull'.closed = pull.closed
      /\ pull'.shut = TRUE
  BY DEF AllInv, TypeInv, CloseTransport
<1>97. TypeInv /\ NoCaller \notin Callers
  BY DEF AllInv
<1>98. uses \subseteq Uses /\ ("snapshot" \in uses => uses \cap Views = {})
  BY UsesAre, Fields DEF AllInv
<1>20. TypeInv'
  BY <1>1, <1>3, <1>97, <1>98, Fields DEF AllInv, ReadsInv, StatusInv, TypeInv, StatePlaces, SourcePlaces, StatusPlaces
<1>21. PlacesInv'
  BY <1>1, <1>3, <1>97, <1>98, Fields DEF AllInv, ReadsInv, StatusInv, PlacesInv, Reads, Views, Uses, StatePlaces, SourcePlaces, StatusPlaces
<1>22. ShownInv'
  BY <1>1, <1>3, <1>97, <1>98, Fields DEF AllInv, ReadsInv, StatusInv, ShownInv, Shown, Reads, Views, PlacesInv, StatePlaces, SourcePlaces, StatusPlaces
<1>23. LateInv'
  BY <1>1, <1>3, <1>97, <1>98, Fields DEF AllInv, ReadsInv, StatusInv, LateInv, Reads, Views, PlacesInv, StatePlaces, SourcePlaces, StatusPlaces
<1>24. StatesGoForward'
  BY <1>1, <1>3, <1>97, <1>98, Fields DEF AllInv, ReadsInv, StatusInv, StatesGoForward, Shown, Reads, Views, ShownInv, LateInv, PlacesInv, StatePlaces, SourcePlaces, StatusPlaces
<1>25. HandedInv'
  BY <1>1, <1>3, <1>97, <1>98, Fields DEF AllInv, ReadsInv, StatusInv, HandedInv, PlacesInv, StatePlaces, SourcePlaces, StatusPlaces
<1>26. CountedInv'
  BY <1>1, <1>3, <1>97, <1>98, Fields DEF AllInv, ReadsInv, StatusInv, CountedInv, Reads, Views, HandedInv, PlacesInv, StatePlaces, SourcePlaces, StatusPlaces
<1>27. PublishSeesArrived'
  BY <1>1, <1>3, <1>97, <1>98, Fields DEF AllInv, ReadsInv, StatusInv, PublishSeesArrived, CountedInv, HandedInv, PlacesInv, StatePlaces, SourcePlaces, StatusPlaces
<1> QED
  BY <1>20, <1>21, <1>22, <1>23, <1>24, <1>25, <1>26, <1>27 DEF AllInv, ReadsInv, StatusInv

\* A body state is sent.
LEMMA SendStateFits ==
  ASSUME AllInv, SendState
  PROVE  AllInv'
<1>1. UNCHANGED <<pull, caller, uses>>
  BY DEF SendState
<1>2. /\ sent' \in [states : Nat, statuses : Nat, spoiled : Nat]
      /\ sent'.states = sent.states + 1 /\ sent'.statuses = sent.statuses
      /\ sent'.spoiled = sent.spoiled
  BY DEF SendState, AllInv, TypeInv
<1>3. PICK readers \in {Views, {"arrays"}, {}} :
        topic' = [topic EXCEPT !.state = [number |-> sent'.states, readers |-> readers]]
  BY DEF SendState
<1>4. /\ topic' \in [state : Frames, status : Frames] /\ topic'.status = topic.status
      /\ topic'.state.number = sent'.states
  <2>1. [number |-> sent'.states, readers |-> readers] \in Frames
    BY <1>2 DEF Frames, Views
  <2> QED
    BY <1>3, <2>1 DEF AllInv, TypeInv
<1>97. TypeInv /\ NoCaller \notin Callers
  BY DEF AllInv
<1>98. uses \subseteq Uses /\ ("snapshot" \in uses => uses \cap Views = {})
  BY UsesAre, Fields DEF AllInv
<1>20. TypeInv'
  BY <1>1, <1>2, <1>4, <1>97, <1>98, Fields DEF AllInv, ReadsInv, StatusInv, TypeInv, StatePlaces, SourcePlaces, StatusPlaces
<1>21. PlacesInv'
  BY <1>1, <1>2, <1>4, <1>97, <1>98, Fields DEF AllInv, ReadsInv, StatusInv, PlacesInv, Reads, Views, Uses, StatePlaces, SourcePlaces, StatusPlaces
<1>22. ShownInv'
  BY <1>1, <1>2, <1>4, <1>97, <1>98, Fields DEF AllInv, ReadsInv, StatusInv, ShownInv, Shown, Reads, Views, PlacesInv, StatePlaces, SourcePlaces, StatusPlaces
<1>23. LateInv'
  BY <1>1, <1>2, <1>4, <1>97, <1>98, Fields DEF AllInv, ReadsInv, StatusInv, LateInv, Reads, Views, PlacesInv, StatePlaces, SourcePlaces, StatusPlaces
<1>24. StatesGoForward'
  BY <1>1, <1>2, <1>4, <1>97, <1>98, Fields DEF AllInv, ReadsInv, StatusInv, StatesGoForward, Shown, Reads, Views, ShownInv, LateInv, PlacesInv, StatePlaces, SourcePlaces, StatusPlaces
<1>25. HandedInv'
  BY <1>1, <1>2, <1>4, <1>97, <1>98, Fields DEF AllInv, ReadsInv, StatusInv, HandedInv, PlacesInv, StatePlaces, SourcePlaces, StatusPlaces
<1>26. CountedInv'
  BY <1>1, <1>2, <1>4, <1>97, <1>98, Fields DEF AllInv, ReadsInv, StatusInv, CountedInv, Reads, Views, HandedInv, PlacesInv, StatePlaces, SourcePlaces, StatusPlaces
<1>27. PublishSeesArrived'
  BY <1>1, <1>2, <1>4, <1>97, <1>98, Fields DEF AllInv, ReadsInv, StatusInv, PublishSeesArrived, CountedInv, HandedInv, PlacesInv, StatePlaces, SourcePlaces, StatusPlaces
<1> QED
  BY <1>20, <1>21, <1>22, <1>23, <1>24, <1>25, <1>26, <1>27 DEF AllInv, ReadsInv, StatusInv

\* A control status is sent.
LEMMA SendStatusFits ==
  ASSUME AllInv, SendStatus
  PROVE  AllInv'
<1>1. UNCHANGED <<pull, caller, uses>>
  BY DEF SendStatus
<1>3. PICK readers \in {{"status"}, {}} :
        /\ sent' = [sent EXCEPT !.statuses = @ + 1,
                               !.spoiled = IF readers = {} THEN sent.statuses + 1 ELSE @]
        /\ topic' = [topic EXCEPT !.status = [number |-> sent'.statuses, readers |-> readers]]
  BY DEF SendStatus
<1>2. /\ sent' \in [states : Nat, statuses : Nat, spoiled : Nat]
      /\ sent'.states = sent.states /\ sent'.statuses = sent.statuses + 1
      /\ sent'.spoiled = IF readers = {} THEN sent.statuses + 1 ELSE sent.spoiled
  <2> DEFINE n == IF readers = {} THEN sent.statuses + 1 ELSE sent.spoiled
  <2>1. n \in Nat
    BY Fields DEF AllInv
  <2>2. sent' = [sent EXCEPT !.statuses = @ + 1, !.spoiled = n]
    BY <1>3, Zenon
  <2> HIDE DEF n
  <2>3. /\ sent' \in [states : Nat, statuses : Nat, spoiled : Nat]
        /\ sent'.states = sent.states /\ sent'.statuses = sent.statuses + 1
        /\ sent'.spoiled = n
    <3>1. sent \in [states : Nat, statuses : Nat, spoiled : Nat] /\ sent.statuses + 1 \in Nat
      BY DEF AllInv, TypeInv
    <3>2. sent' = [sent EXCEPT !.statuses = sent.statuses + 1, !.spoiled = n]
      BY <2>2, <3>1
    <3> QED
      BY <2>1, <3>1, <3>2
  <2> QED
    BY <2>3 DEF n
<1>4. /\ topic' \in [state : Frames, status : Frames] /\ topic'.state = topic.state
      /\ topic'.status.number = sent'.statuses /\ topic'.status.readers = readers
  <2>1. [number |-> sent'.statuses, readers |-> readers] \in Frames
    BY <1>2 DEF Frames, Views
  <2> QED
    BY <1>3, <2>1 DEF AllInv, TypeInv
<1>97. TypeInv /\ NoCaller \notin Callers
  BY DEF AllInv
<1>98. uses \subseteq Uses /\ ("snapshot" \in uses => uses \cap Views = {})
  BY UsesAre, Fields DEF AllInv
<1>20. TypeInv'
  BY <1>1, <1>2, <1>4, <1>97, <1>98, Fields DEF AllInv, ReadsInv, StatusInv, TypeInv, StatePlaces, SourcePlaces, StatusPlaces
<1>21. PlacesInv'
  BY <1>1, <1>2, <1>4, <1>97, <1>98, Fields DEF AllInv, ReadsInv, StatusInv, PlacesInv, Reads, Views, Uses, StatePlaces, SourcePlaces, StatusPlaces
<1>22. ShownInv'
  BY <1>1, <1>2, <1>4, <1>97, <1>98, Fields DEF AllInv, ReadsInv, StatusInv, ShownInv, Shown, Reads, Views, PlacesInv, StatePlaces, SourcePlaces, StatusPlaces
<1>23. LateInv'
  BY <1>1, <1>2, <1>4, <1>97, <1>98, Fields DEF AllInv, ReadsInv, StatusInv, LateInv, Reads, Views, PlacesInv, StatePlaces, SourcePlaces, StatusPlaces
<1>24. StatesGoForward'
  BY <1>1, <1>2, <1>4, <1>97, <1>98, Fields DEF AllInv, ReadsInv, StatusInv, StatesGoForward, Shown, Reads, Views, ShownInv, LateInv, PlacesInv, StatePlaces, SourcePlaces, StatusPlaces
<1>25. HandedInv'
  BY <1>1, <1>2, <1>4, <1>97, <1>98, Fields DEF AllInv, ReadsInv, StatusInv, HandedInv, PlacesInv, StatePlaces, SourcePlaces, StatusPlaces
<1>26. CountedInv'
  BY <1>1, <1>2, <1>4, <1>97, <1>98, Fields DEF AllInv, ReadsInv, StatusInv, CountedInv, Reads, Views, HandedInv, PlacesInv, StatePlaces, SourcePlaces, StatusPlaces
<1>27. PublishSeesArrived'
  BY <1>1, <1>2, <1>4, <1>97, <1>98, Fields DEF AllInv, ReadsInv, StatusInv, PublishSeesArrived, CountedInv, HandedInv, PlacesInv, StatePlaces, SourcePlaces, StatusPlaces
<1> QED
  BY <1>20, <1>21, <1>22, <1>23, <1>24, <1>25, <1>26, <1>27 DEF AllInv, ReadsInv, StatusInv

-----------------------------------------------------------------------------
(* The actions *)

LEMMA LockStateFits ==
  ASSUME AllInv, NEW t \in Callers, LockState(t)
  PROVE  AllInv'
<1>1. /\ caller[t].pc = "stateLock" /\ pull.stateLock = NoCaller /\ UNCHANGED <<sent, uses>>
      /\ caller[t].pc # "callback"
  BY DEF LockState
<1>2. CASE pull.shut
  <2>1. Ends(t, 0) /\ UNCHANGED <<pull, topic>>
    BY <1>2 DEF LockState
  <2> QED
    BY <1>1, <2>1, EndsEmpty
<1>3. CASE ~pull.shut /\ topic.state # Nothing
  <2>1. /\ Proceeds(t, [caller[t] EXCEPT !.pc = "decode", !.frame = topic.state])
        /\ pull' = [pull EXCEPT !.stateLock = t]
        /\ topic' = [topic EXCEPT !.state = Nothing]
    BY <1>3 DEF LockState
  <2> QED
    BY <1>1, <1>3, <2>1, ReceiveFits
<1>4. CASE ~pull.shut /\ topic.state = Nothing /\ pull.latest # Nothing
  <2>1. /\ Proceeds(t, [caller[t] EXCEPT !.pc = "decode", !.frame = pull.latest])
        /\ pull' = [pull EXCEPT !.stateLock = t]
        /\ UNCHANGED topic
    BY <1>4 DEF LockState
  <2> QED
    BY <1>1, <1>4, <2>1, ReceiveFits
<1>5. CASE ~pull.shut /\ topic.state = Nothing /\ pull.latest = Nothing
  <2>1. UNCHANGED topic
    BY <1>5 DEF LockState
  <2>2. CASE caller[t].zero
    <3>1. Ends(t, 0) /\ UNCHANGED pull
      BY <1>5, <2>2 DEF LockState
    <3> QED
      BY <1>1, <2>1, <3>1, EndsEmpty
  <2>3. CASE ~caller[t].zero
    <3>1. Goes(t, "receive") /\ pull' = [pull EXCEPT !.stateLock = t]
      BY <1>5, <2>3 DEF LockState
    <3>2. Proceeds(t, [caller[t] EXCEPT !.pc = "receive", !.frame = caller[t].frame])
      <4>1. caller[t] \in Calls
        BY CallOf DEF AllInv
      <4>2. [caller[t] EXCEPT !.pc = "receive", !.frame = caller[t].frame]
              = [caller[t] EXCEPT !.pc = "receive"]
        BY <4>1 DEF Calls
      <4> QED
        BY <3>1, <4>2 DEF Goes
    <3> QED
      BY <1>1, <1>5, <2>1, <3>1, <3>2, ReceiveFits
  <2> QED
    BY <2>2, <2>3
<1> QED
  BY <1>2, <1>3, <1>4, <1>5

LEMMA ReceivesFits ==
  ASSUME AllInv, NEW t \in Callers, Receives(t)
  PROVE  AllInv'
<1>1. caller[t].pc = "receive" /\ UNCHANGED <<sent, uses>>
  BY DEF Receives
<1>2. CASE /\ topic.state # Nothing /\ ~pull.shut
           /\ Proceeds(t, [caller[t] EXCEPT !.pc = "decode", !.frame = topic.state])
           /\ topic' = [topic EXCEPT !.state = Nothing] /\ UNCHANGED pull
  BY <1>1, <1>2, ReceiveFits
<1>3. CASE Ends(t, 0) /\ pull' = Released(0) /\ UNCHANGED topic
  BY <1>1, <1>3, EndsEmpty
<1> QED
  BY <1>2, <1>3 DEF Receives

LEMMA DecodeFits ==
  ASSUME AllInv, NEW t \in Callers, Decode(t)
  PROVE  AllInv'
<1> DEFINE c == caller[t]
           kept == c.frame = pull.latest /\ pull[c.use] # 0
<1>1. c.pc = "decode" /\ UNCHANGED <<topic, sent, uses>>
  BY DEF Decode
<1>2. CASE ~kept /\ c.use \in c.frame.readers /\ ~pull.shut
  <2>1. Goes(t, "store") /\ UNCHANGED pull
    BY <1>2, Zenon DEF Decode
  <2> QED
    BY <1>1, <2>1, DecodedFits
<1>3. CASE ~(~kept /\ c.use \in c.frame.readers /\ ~pull.shut)
  <2>1. /\ Ends(t, IF kept THEN pull[c.use] ELSE 0)
        /\ pull' = Released(IF kept THEN pull[c.use] ELSE 0)
    BY <1>3, Zenon DEF Decode
  <2>2. Released(IF kept THEN pull[c.use] ELSE 0) = Released(0)
          /\ Released(pull.latest.number) = Released(0)
    BY DEF Released
  <2>3. CASE ~kept
    BY <1>1, <2>1, <2>2, <2>3, EndsEmpty
  <2>4. CASE kept
    <3>1. c.use \in Views
      BY <1>1 DEF AllInv, ReadsInv, PlacesInv, StatePlaces
    <3>2. pull[c.use] = pull.latest.number /\ pull.latest.number # 0
      BY <2>4, <3>1 DEF Views, AllInv, ReadsInv, ShownInv
    <3> QED
      BY <1>1, <2>1, <2>2, <2>4, <3>2, KeptFits
  <2> QED
    BY <2>3, <2>4
<1> QED
  BY <1>2, <1>3

LEMMA PollStatusFits ==
  ASSUME AllInv, NEW t \in Callers, PollStatus(t)
  PROVE  AllInv'
<1>1. caller[t].pc = "statusLock" /\ StatusFree /\ UNCHANGED <<sent, uses>>
  BY DEF PollStatus
<1>2. CASE pull.shut
  <2>1. Ends(t, 0) /\ UNCHANGED <<pull, topic>>
    BY <1>2 DEF PollStatus
  <2> QED
    BY <1>1, <2>1, EndsEmpty
<1>3. CASE ~pull.shut /\ topic.status.readers # {}
  <2>1. /\ Proceeds(t, [caller[t] EXCEPT !.pc = "callback", !.frame = topic.status])
        /\ pull' = [pull EXCEPT !.statusLock = t, !.status = topic.status.number]
        /\ topic' = [topic EXCEPT !.status = Nothing]
    BY <1>3 DEF PollStatus
  <2> QED
    BY <1>1, <1>3, <2>1, PolledFits
<1>4. CASE ~pull.shut /\ topic.status.readers = {}
  <2>1. Goes(t, "look") /\ UNCHANGED pull /\ topic' = [topic EXCEPT !.status = Nothing]
    BY <1>4 DEF PollStatus
  <2> QED
    BY <1>1, <1>4, <2>1, UnpolledFits
<1> QED
  BY <1>2, <1>3, <1>4

LEMMA LookFits ==
  ASSUME AllInv, NEW t \in Callers, Look(t)
  PROVE  AllInv'
<1>1. caller[t].pc = "look" /\ caller[t].pc # "callback" /\ UNCHANGED <<pull, topic, sent, uses>>
  BY DEF Look
<1>2. CASE Ends(t, 0)
  BY <1>1, <1>2, EndsEmpty
<1>3. CASE ~pull.closed /\ Ends(t, pull.known)
  BY <1>1, <1>3, SeenFits
<1>4. CASE caller[t].use = "await" /\ Goes(t, "statusLock")
  BY <1>1, <1>4, MovesFit
<1> QED
  BY <1>2, <1>3, <1>4 DEF Look

LEMMA LookSnapshotFits ==
  ASSUME AllInv, NEW t \in Callers, LookSnapshot(t)
  PROVE  AllInv'
<1>1. caller[t].pc = "snap" /\ caller[t].pc # "callback" /\ UNCHANGED <<pull, topic, sent, uses>>
  BY DEF LookSnapshot
<1>2. CASE Ends(t, 0)
  BY <1>1, <1>2, EndsEmpty
<1>3. CASE ~pull.closed /\ Fresh(t) /\ Ends(t, pull.snapshot)
  BY <1>1, <1>3, SnapshotFits
<1>4. CASE Goes(t, "sleep")
  BY <1>1, <1>4, MovesFit
<1> QED
  BY <1>2, <1>3, <1>4 DEF LookSnapshot

LEMMA ExpireFits ==
  ASSUME AllInv, NEW t \in Callers, Expire(t)
  PROVE  AllInv'
  BY EndsEmpty DEF Expire

LEMMA PullStarts ==
  PullInit => AllInv
<1> SUFFICES ASSUME PullInit PROVE AllInv
  OBVIOUS
<1>1. Nothing \in Frames
  BY DEF Nothing, Frames
<1>2. AtRest \in Calls /\ AtRest.pc = "idle" /\ AtRest.use = "none" /\ AtRest.got = 0
        /\ AtRest.late = FALSE /\ AtRest.after = 0
  BY <1>1 DEF AtRest, Calls
<1>3. /\ pull \in [latest : Frames, arrays : Nat, native : Nat, snapshot : Nat, status : Nat,
               known : Nat, stateLock : Callers \cup {NoCaller},
               statusLock : Callers \cup {NoCaller}, closed : BOOLEAN, shut : BOOLEAN]
      /\ pull.latest.number = 0 /\ pull.arrays = 0 /\ pull.native = 0 /\ pull.snapshot = 0
      /\ pull.status = 0 /\ pull.known = 0 /\ pull.statusLock = NoCaller
  BY <1>1 DEF PullInit, Nothing
<1>4. /\ topic \in [state : Frames, status : Frames] /\ topic.state = Nothing
      /\ topic.status = Nothing
      /\ sent \in [states : Nat, statuses : Nat, spoiled : Nat]
      /\ sent.states = 0 /\ sent.statuses = 0 /\ sent.spoiled = 0 /\ uses \in Mixes
  BY <1>1 DEF PullInit
<1>5. caller \in [Callers -> Calls] /\ \A t \in Callers : caller[t] = AtRest
  BY <1>2 DEF PullInit
<1>6. TypeInv
  BY <1>3, <1>4, <1>5 DEF TypeInv
<1>7. PlacesInv
  BY <1>2, <1>5 DEF PlacesInv, StatePlaces, SourcePlaces, StatusPlaces
<1>8. ShownInv
  BY <1>2, <1>3, <1>4, <1>5 DEF ShownInv, Reads, Views
<1>9. LateInv /\ StatesGoForward /\ PublishSeesArrived /\ CountedInv
  BY <1>2, <1>5 DEF LateInv, StatesGoForward, PublishSeesArrived, CountedInv
<1>10. HandedInv
  BY <1>2, <1>3, <1>4, <1>5 DEF HandedInv
<1> QED
  BY <1>6, <1>7, <1>8, <1>9, <1>10 DEF AllInv, ReadsInv, StatusInv

LEMMA PullStep ==
  AllInv /\ [PullNext]_pullVars => AllInv'
<1> SUFFICES ASSUME AllInv, [PullNext]_pullVars PROVE AllInv'
  OBVIOUS
<1>1. CASE UNCHANGED pullVars
  BY <1>1 DEF pullVars, AllInv, TypeInv, ReadsInv, StatusInv, PlacesInv, ShownInv, Shown,
     LateInv, StatesGoForward, HandedInv, CountedInv, PublishSeesArrived
<1>2. ASSUME NEW t \in Callers, Call(t) \/ Working(t) \/ Expire(t) PROVE AllInv'
  BY <1>2, CallFits, LockStateFits, ReceivesFits, DecodeFits, StoreFits, PollStatusFits,
     CallbackFits, LookFits, LookSnapshotFits, ExpireFits DEF Working
<1> QED
  BY <1>1, <1>2, DeliverFits, SendStateFits, SendStatusFits, CloseControllerFits,
     CloseTransportFits DEF PullNext

-----------------------------------------------------------------------------
(* The theorems *)

\* The numbers, the locks and the calls keep their types, and what they promise each
\* other: PullTransport, PullController and BodyStateSource together.
THEOREM AlwaysInOrder == PullSpec => []AllInv
<1>1. PullInit => AllInv
  BY PullStarts
<1>2. AllInv /\ [PullNext]_pullVars => AllInv'
  BY PullStep
<1> QED
  BY <1>1, <1>2, PTL DEF PullSpec

\* No call of wait_state, _wait_body_state or snapshot returns a state older than one
\* that any call had returned before it began, whatever could not be decoded, and none
\* returns anything once it finds the transport or the source closed (pull.py:92-115,
\* state.py:60-73).
THEOREM ForwardOnly == PullSpec => []StatesGoForward
<1>1. AllInv => StatesGoForward
  BY DEF AllInv, ReadsInv
<1> QED
  BY <1>1, AlwaysInOrder, PTL

\* publish decides on a status no older than the newest that had arrived when it was
\* called: poll_control_status holds its lock until the callbacks have handed the
\* status on (pull.py:57-75).
THEOREM PublishIsCurrent == PullSpec => []PublishSeesArrived
<1>1. AllInv => PublishSeesArrived
  BY DEF AllInv, StatusInv
<1> QED
  BY <1>1, AlwaysInOrder, PTL

=============================================================================
